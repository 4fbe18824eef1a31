# A TLA+ model of somo_server_netbase

`somo_server_netbase` is a thin C++ layer over libuv for media servers: TCP and
UDP clients and servers, timers, a small HTTP server and a pool of packet
buffers, all on **one thread and one loop**. There are no data races. What is
hard is the order in which libuv's callbacks, the reconnect timer and the
application's calls reach objects that libuv still refers to, and what the code
does when a call fails at once instead of later.

This directory holds the specifications (`*.tla`), the model-checking
configurations (`*.cfg`), the proofs (`*Proofs.tla`) and `PROJECT.json`, which
maps every definition to the lines it models and lists runs, mutants, hazards,
findings and theorems. Paths below are relative to the repository's root.

## 1. Inventory

| Component | State | Operations | Interacts with | What makes it correct |
|---|---|---|---|---|
| `TcpLink` (`src/tcplink.cpp`), client | `m_pTcp`, `m_bConnected`, `m_bConnecting`, the reconnect timer, the handles libuv still holds | `connect`, `send`, `close`; `on_connect`, `on_read`, `on_write`, `on_timer` | libuv, the handler (which calls back), `MemPool` | `m_pTcp` never dangles; the flags tell the truth; one connect request at a time; an open link reconnects; a closed one stays closed |
| `TcpLink`, peer | the same, made by `TcpServer` | the same without `connect`; `closeError` | `TcpServer`, handler | the handle is released when the connection ends; the handler hears of a loss (of one that a write finds it does not, see `tcplink_peer_unheard`) |
| receive buffer of `TcpLink` | `m_pBuffer`, `m_nPos`, `m_nLen`, `m_nCapacity` | `addData`, `removeData` around `on_data` | handler | no byte repeated or out of bounds, none lost but in an overflow; that comes with more than half of the limit in use; bounded |
| `MemPool`, `MemItem` | four pools, items, capacities | `get`, `free`, `reset`, `assign` | `TcpLink`, `UdpLink`, `UdpServer` | one owner per item; large enough; pools bounded; items reused |
| `TcpServer` (`src/tcpserver.cpp`) | listening handle, `m_mapLinks` | `listen`, `close`, `get_link`; `on_accept` | `TcpLink`, handler, `LinkidAllocator` | ids unique; the handle closed once |
| `HttpServer`, `HttpPeerLink` (`src/httpserver.cpp`) | `m_mapLink`, a parser and a request per connection | `listen`, `close`; `on_connected`, `on_data`, `on_close`; parser callbacks | `TcpServer`, `TcpLink`, `HttpParser`, HTTP handler | a call of the application is a request of the client; the first request is answered, in full if the socket takes it at once (`http_truncated`), and the connection ended; an entry for each open connection; a link outlives its handler only if it was open when the server was deleted |
| `HttpParser` (`src/httpparser.cpp`) | parser state, counters, marks | `init`, `execute` | `HttpPeerLink` | the callbacks do not depend on how the input is split; a body is as long as declared |
| `UdpServer`, `UdpPeerLink` | handle, `m_mapLink` | `listen`, `close`, `answer`, `on_read`; `send`, `close` (`on_timer` has no caller) | `MemPool`, handler | one link per peer, which lives as long as its user holds it; items returned |
| `UdpLink` | handle, connected address | `connect`, `send`, `close`; `on_read`, `on_send` | `MemPool`, handler | one datagram per send; items returned; one `on_close` |
| `Timer` | handle, handler, id | `init`, `start`, `stop`, `close`; `on_timer` | libuv | no call after `close` |
| `Startup`, `Env`, `IoEngine` | none that changes | `SNStartup`, `SNLoop` | libuv | - |
| `LinkidAllocator` | a counter | `next` | all links | unique ids |
| `netaddr`, `format`, `logger`, `timeutil`, `protocol` | none | conversions, logging | all | - |
| libuv (`3rd/libuv`) | handles and requests | stream calls | all | external; modelled from its use |

The behaviours that are hard are listed one by one, at their lines, under
"hazards" in `PROJECT.json`. In short: callbacks of a handle that was closed or
replaced arrive at a link that has moved on (cancelled connect requests and
writes); `connect` and `on_connect` use `m_pTcp` after something else changed it;
immediate failures of libuv calls leave half of the state set; pools, buffers and
maps at their limits; a parser that is started anew in the middle of a request;
a response that is cut by the close behind it; datagrams that arrive late, twice or never.

## 2. Modules

| Module | Models | Against |
|---|---|---|
| `UvTcp` | external: what libuv's stream calls do to a handle | `3rd/libuv`, as `tcplink.cpp` uses it |
| `TcpLink` | the life of one link, client or peer | `src/tcplink.cpp` |
| `LinkSession` | abstract: what a link promises its owner | - |
| `MCTcpLink` | `TcpLink` for TLC (symmetry of the handles) | - |
| `TcpBuffer` | the receive buffer | `src/tcplink.cpp` |
| `ByteQueue` | abstract: a queue of received bytes | - |
| `MemPool`, `MCMemPool` | the pool of packet buffers | `src/mempool.cpp` |
| `HttpParser` | the parser: a record and an operator per state | `src/httpparser.cpp` |
| `HttpStream`, `MCHttpParser` | the parser on a stream that comes in buffers and ends | `src/httpparser.cpp` |
| `LinkidAllocator` | the counter of link ids | `src/linkidallocator.cpp` |
| `TcpServer` | the listening handle and the map of accepted links | `src/tcpserver.cpp` |
| `HttpPeerLink` | what a connection does with the bytes of one read | `src/httpserver.cpp`, over `HttpParser` |
| `HttpServer`, `MCHttpServer` | the server with its connections: composes `TcpServer`, `TcpLink` (peer), `HttpPeerLink` | `src/httpserver.cpp`, `src/tcpserver.cpp`, `src/tcplink.cpp` |
| `HttpExchange` | abstract: what a connection promises its client | - |
| `UvUdp` | external: libuv's datagram sockets and the network | `3rd/libuv`, as `udplink.cpp` and `udpserver.cpp` use it |
| `UdpLink` | the methods of a UDP client | `src/udplink.cpp` |
| `UdpServer` | the methods of the UDP server and of its peer links | `src/udpserver.cpp`, `src/udppeerlink.cpp` |
| `Timer` | the application's timer | `src/timer.cpp` |
| `UdpNet`, `MCUdpNet` | a server and its clients over the network: composes `UdpServer`, `UdpLink`, `Timer`, `UvUdp` | all of these, and `test/udpclient/main.cpp` |
| `HttpGrammar` | the requests a client may write, whoever reads them | - |
| `HttpInside` | where a parser that reads a request can be in it: the invariant of `CallsRight` | - |
| `TcpLinkProofs` | theorems about `TcpLink`, its history and `LinkSession` | - |
| `TcpBufferProofs`, `MemPoolProofs`, `UdpNetProofs` | theorems about the module of that name | - |
| `HttpParserProofs` | lemmas: what one call into the parser does to its record | - |
| `HttpRequestProofs` | lemmas: what the parser does with each symbol of a request | - |
| `HttpStreamProofs`, `HttpServerProofs` | theorems about the module of that name | - |

### TcpLink

The record `link` has the fields of the object (`pTcp`, `connected`,
`connecting`, `timer`: whether `m_pTimer` is started) and what libuv keeps for
it: the state of every `uv_tcp_t` the link ever allocated and that is not freed,
the handles that are read, and how many writes of each are in flight. Each C++
method is an operator from a record to a record, so that methods compose as in
the code (`on_write_failed` calls `close`, `closeError` calls the handler and
then closes). An action is one callback of libuv, or one call of the
application, with everything it calls: the handler's reaction inside `on_connected`,
`on_data` and `on_close` (nothing, `send()`, `close()`) is chosen from
`ConnectReactions` and `Reactions`.

What the model keeps of libuv, and why:

* `uv_close` on a handle with a connect request or queued writes calls them back
  with `UV_ECANCELED`, all at the end of the loop's iteration: `FinishClose`.
* The callback of `uv_write` is never called from inside `uv_write`; when a write
  fails, the requests behind it stay queued: `OnWriteFail` takes one.
* When a connect request fails, the queued writes are cancelled with it: `flush`.
* Before an error or EOF is given to `on_read`, libuv stops the reading.
* `OnTimer` fires only when no handle is closing: timers are due a second after
  they are started, and a closed handle is gone by the end of its iteration.
* `uv_tcp_connect` may fail before it returns (no descriptor, no route):
  `SyncErrors`.
* A write may fail on a handle that nobody closed (the peer reset the connection):
  `WriteErrors`. Without it writes end with an error only when their handle is closed,
  or when its connect request failed.

`app`, `dirty`, `told`, `faults` and `refused` record the history the properties speak of:
what the application wants, whether it closed with writes in flight, what the
handler was told, how many failures there were, whether a `uv_tcp_connect` failed before
it returned.

After such a failure `connect()` returns with `m_bConnecting` set and without starting
the timer (`tcplink.cpp:119-122`, where the comment two lines further says "start a timer
to check connected!!!"). On a first `connect()` the link then has neither connection nor
timer; on a later one `on_timer` runs every second and does nothing, since `m_bConnecting` is set. Either
way the link never connects again. `ReconnectArmed` and `Recovers` except a link for which
`refused` holds, and are false without that exception; all else the run asks of a
client link holds after such a failure too.

`LinkSession` is the promise. A client link that loses its connection starts over, and
its handler hears nothing of that until `on_connected` comes again: this is what
`on_read` and `on_write` do (`tcplink.cpp:321`, 356). A peer link that loses its
connection is gone, and its handler was called back with `on_close`. The code keeps this
when a read fails, through `closeError`, and breaks it when a write does:
`on_write` calls `close()`. So `LinkImplementsSession` proves it of a peer link with
`WriteErrors` off, and `tcplink_peer_unheard` shows that this is needed.

Left out: the counters and log lines, the destructor (nothing in `src/` deletes
a link while the loop runs and `include/isnet.h:61` forbids it to the
application), the sizes of packets, an invalid IP string.

### TcpBuffer

An action is one `on_read` with data: `addData`, `on_data` and `removeData`. The
n-th byte ever received is the number n, so the contents of the buffer show every
loss and every repetition. The C buffer is a function from positions to bytes,
`memcpy` between overlapping regions yields junk, and so does a new array. That
`removeData` moves the window only when the dead space is as large (`tcplink.cpp:220`)
keeps the regions apart; with another guard junk would show in `WindowIsLatest`.

`ByteQueue` is the promise. A read appends what came and takes from the front exactly
what the handler said it took (`taken`), so that a byte lost in between is no step of
it; the one other step is `Overflow`, which drops all, and only when what is unconsumed,
twice, and the new bytes exceed the limit. That follows in the code from two places:
`addData` counts the dead space before the window as used, and `removeData` keeps it
below `m_nLen`.

### MemPool

The four size classes, an item's capacity, the pool each capacity returns to
(`Home`: 128K goes to the pool of 64K, as in `mempool.cpp:119`) and the strict
comparison with `MEM_ITEM_COUNT_MAX`. Which item of a pool is taken does not
matter, so a pool is a set.

### HttpParser

The record `parser` has the fields of `http_parser` and, while a call is running,
the marks and `exited`. There is one operator per state of the parser, named like the
`case` it models, from the record and a symbol to the record; `Transition` is the
`switch`. A symbol is a byte or a run of bytes that the code compares with a literal,
since where a literal is cut matters and which of its letters it is does not: `index`
of a header's name or value is therefore part of `header`. `begin`, `step` and `flush`
are the parts of `sn_http_parser_execute` before, in and after its loop.

`HttpStream` runs two parsers on the same input, chosen symbol by symbol: `parser`,
for which a buffer may end after any symbol (`Split`), and `whole`, which reads one
buffer. The connection may end after a buffer (`Eof`: a call with length 0), which for
some responses is the end of the body. `seen` and `all` hold the last thing each has
reported, with the pieces of data of one item added up, and `want` the length of the
body or chunk as it was written, computed without the parser's arithmetic.

`HttpPeerLink` asks for requests only; responses and the type that is both are the
library's other half, share most states and are in the same run.

Left out: `http_parser_pause`, the lenient mode (nothing sets `lenient_http_headers`),
the limit on the size of headers (80K; `HttpPeerLink` gives the parser one read of at
most 64K and then starts it anew), the methods outside `method_strings`, and
`http_parser_parse_url`, which nothing calls.

### HttpServer, TcpServer, HttpPeerLink

`HttpServer` composes four parts of the code. `TcpServer`'s methods are operators on its
record; each connection has a peer link, a record of `TcpLink` transformed by that
module's own operators (`INSTANCE TcpLink`), so that `answer` is `send` and then `close`
as the code calls them; `HttpPeerLink!on_data` runs the operators of `HttpParser`, started
anew, over the symbols of one read and folds the callbacks into the `HttpRequest`, which
is never cleared, and into the calls of the application.

A client has written requests (`Scripts`), and a read takes any number of the bytes
that are left: every cut of the text is a behaviour. Callbacks that end without a
`return` (`httpserver.cpp:63`, 83, 89, 108, 113) are undefined behaviour; with `Garbage`,
each may also seem to fail, and the parser stops there. `Sizes` says how large a response
may be: the socket takes all of it at once (`small`), or not all (`long`), or it is more
than the 512K for which there is an item, and `send` drops it (`large`). What the socket did
not take waits in the write queue of a handle that is closed in the same callback, and is
cancelled: `fate` follows a response from `taken` to `sent`, or from `waiting` to `cut`
when `on_write` is called back.

`Destroy` is `delete` of the server, at any time, with connections open or not. Their
`TcpLink`s, which nothing deletes, keep the pointer to their handler, so the next read
uses an `HttpServer` that is gone: a crash in the model. `server.left` are the connections
that were open at the time. `PlainUse` is an application that calls nothing of the server
once `close()` was called: `close()` keeps the pointer to the `TcpServer` it deleted.

`HttpExchange` is the promise: the answer to the first request handled is given to the
socket, unless it is too large, and is the last; nothing is read or answered after it. It is
sent to its end if the socket took it at once, and cut if it did not: the run
`http_truncated` shows the second, which a client cannot tell from a short response. `Exchanges` is the
refinement, for each connection. `Ends` is liveness: the connection of a handled request
gets closed, which is the only thing that tells the client where the response, without
a length, ends. `CallsAreRequests` is what the application may rely on, wherever the reads
cut texts that have no request inside a body (`Single` of `HttpGrammar`, section 4), and
whatever the garbage: the url it gets is that of a request the client wrote, each at most
once and in order. That it is `on_get` or `on_post` is claimed for GET and POST only:
another method is served by the handler of the request before it, or `on_get`.
`WholeReadServed` says when a request is certainly served, with the last part of its body;
`RequestServed` is what the header promises, that it is served however it is read, which the
run `http_split` refutes. Of a body that comes in parts, as chunks do, the application gets
the last part only: `on_body` replaces what came before (`httpserver.cpp:110`), and
`WholeReadServed` asks for no more.

Left out: an application that calls the server from inside `on_get` or `on_post` (it is
not given the link), an `HttpServer` without a handler, the text of the response besides
its framing, a loss that a write finds before the link is closed (a link is closed in the
callback that writes; `WriteErrors` is off).

### UdpServer, UdpLink, Timer, UdpNet

`io` is libuv and what is behind it: the sockets, the requests whose callback is due,
the items in use and `net`, the datagrams ever sent. None is ever taken out of `net`, and
one in it may be read now, later, again or never: loss, duplication and reordering need
no action of their own. `OnSend` is the transmission of a queued datagram, or its failure,
with the callback; `FinishClose` cancels what is queued on a socket that was closed.
`uv_udp_send` may fail at once (`ok`), after which its callback never comes: the code does
not look at its result, so the item is lost; `leaked` remembers these, and
`ItemsAccounted` says that they are the only ones.

A datagram is a number, and `sender` remembers which link and socket sent it; an answer
carries the number of the datagram the application answers. `held` are the peer links
that the server's application may use: from `on_data` to `on_close`.
`UdpPeerLink::close` calls `on_close` and leaves the link in the map (`ClosePeer`), so the
next datagram of that peer hands the application the same link again.

`connect` calls `uv_udp_connect` and ignores its result, so a socket that reads may be
connected or not (`io.connected`). Both forms of `send` are in the model: with an address on
a connected socket, and without one on any other, libuv refuses (`EISCONN`,
`EDESTADDRREQ`); otherwise the datagram is sent at once, or queued, or refused.

The server makes a `Timer` and never starts it nor registers with it (`udpserver.cpp:31`),
and nothing else calls its `on_timer`: in this program no peer ever expires. `on_timer` and
the stamps that only it reads are therefore left out, and the map only grows.

Left out: a source with address or port 0, for which `on_data` gets a NULL link; empty
datagrams, which a client sends twice (`uv_udp_try_send` returns 0 for them) and both
sides ignore; packets above 512K, for which there is no item; a second socket on a port
that was in use before. `PlainUse` excludes `listen()` after `close()` and `start()` or
`stop()` after a timer's `close()`, which use the NULL that `close()` left, and a `connect()`
over an open handle.

## 3. Runs

| Run | Shows | Bounds |
|---|---|---|
| `tcplink_client` | Safety of a client link, that it implements `LinkSession`, and liveness: an open link gets connected once failures stop, unless one was immediate | 5 handles, 2 writes in flight per handle, 3 failures, immediate ones among them |
| `tcplink_peer` | A peer link releases its connection, on the read and on the write path, and does not come back | 1 handle, 16 writes in flight, 3 failures |
| `tcplink_peer_unheard` | *Violated*: a peer link lost on the write path is closed without `on_close` | 1 handle, 1 write in flight, 1 failure |
| `tcpbuffer` | The buffer holds the latest bytes, stays in bounds, implements `ByteQueue` | capacities 4 and 7, reads of up to 3, 16 bytes |
| `tcpbuffer_partial` | *Violated*: a handler that consumes a part is shown consumed bytes again | the same |
| `mempool` | One owner, large enough, bounded, reused | 4 items, limit 1 |
| `mempool_bound` | *Violated*: the pool of 64K grows past the limit | the same |
| `httpparser` | Where buffers end makes no difference; callbacks in order; bodies as long as declared; the assertions listed in `AssertionsHold` | requests, responses and either; 25 symbols, `ULLONG_MAX` 47, items of at most 4 symbols (3 in responses), lengths 0, 1, 10, 16 and what is too large, any number of messages |
| `httpserver` | Safety of the server, opened, closed and deleted with connections open; `HttpExchange` for each connection; connections end | 2 connections, 6 pairs of texts with up to 2 requests, every cut, garbage, small, long and large answers |
| `http_split` | *Violated*: a request that comes in two reads is never handled | the same, without garbage, small answers |
| `http_truncated` | *Violated*: a response that the socket does not take at once is cut by the close behind it | the same, without garbage, small and long answers |
| `udp` | One live link per peer, answers to who asked, items accounted for | 2 clients, 3 sockets, connected or not, 2 items, 2 datagrams and all their answers |

Why the bounds are enough. In `TcpLink` every failure leaves at most one handle
behind (`OrphansBounded`), and a handle that is closing is freed before the timer
fires: 3 failures need 5 handles, with the current one and one that is closing. Two
writes in flight are one that fails and one that is cancelled with the close; a peer link
has few other states, so that its run can afford many.
In `TcpBuffer` the capacities are such that a read can fill the buffer exactly,
grow it once and more, reach the maximum and overflow it, and that the window
wraps by both branches of `removeData`. In `MemPool` a limit of 1 is exceeded by
the two items the strict comparison admits, with two more in use.
In `HttpParser` the longest name the parser knows has three symbols (`Connection`), so
that items of four include a known name with something after it; 47 lets a decimal and
a hexadecimal length have two digits and overflow with the third; a body is cut after
its first byte and before its last one only, since the code treats the others alike; of
the letters one is read where the code compares with no name. The
symbols include those of Content-Length, Transfer-Encoding, Connection and Upgrade, of
a chunk, a query and a byte that is allowed nowhere. `Answers` lets
`on_headers_complete` answer 0 to 3; the other callbacks return 0. Not among the
symbols: those of CONNECT and of `keep-alive` and `close`, which the module models.

In `HttpServer` the texts of `MCHttpServer` have a GET with headers and without, a POST
with a length, in chunks, and a method that is neither, two of them in one connection in
both orders; cut anywhere, the rest of each starts with every kind of symbol. The second
connection shows that ids, entries and requests of two connections do not mix.
In `UdpNet` two sockets of clients let a link close its socket and open another, or two
links compete; two items let one be queued while another is tried, or both be lost; two
datagrams let one overtake the other, and a peer be heard again after its link was closed. Handles, sockets, links and items
are interchangeable (`Symmetry`; not used in `tcplink_client`, which checks liveness).

Deadlock is checked in `mempool` only: a lost peer link has nothing to do any more,
the counters of failures, bytes, datagrams and connections end, and a parser that has
failed reads nothing.

`tcplink_client` assumes weak fairness of the timer, of the end of a connect
request and of the end of a closing handle: the loop runs for ever (`SNLoop`),
libuv ends every connect request with success or failure, and a timer that is due
fires. Nothing is assumed of the application, of the peer or of writes. `Ends` of
`httpserver` assumes only that a handle that is closing is closed (`FinishClose`).

Some properties are stated for a plain use of the link, the one the README of the
repository shows. The constants say what is excluded: with `"close"` in
`ConnectReactions` `NoCrash` fails, since `on_connect` calls `uv_read_start` on the
NULL that `close()` left (`tcplink.cpp:267`); with `MayReconnect` in `tcplink_client`
`ReconnectArmed` fails: when `close()` and `connect()` are called in one callback, the
`UV_ECANCELED` of the old handle's request comes after the success of the new one, which
stopped the timer, and clears `m_bConnected` (`tcplink.cpp:248`).
`CloseIsFinal` and `Implements` account for one more behaviour of the code: when writes are in flight at a `close()` by the user,
their `UV_ECANCELED` restarts the timer and the closed link connects again
(`tcplink.cpp:353-357`); `dirty` marks these behaviours.

Every property of a passing run has a mutant in `PROJECT.json`, a plausible bug of
the code (a missing reset, a dropped guard) that violates it.

## 4. Theorems

All are proved for every value of the constants that the modules' assumptions
allow.

`TcpLinkProofs`. Without any assumption on the application: `TypeCorrect` and
`NoDangling` (`CurrentIsLive`). The invariant is `Correct`: types, and `Live(link)`,
that `m_pTcp` is NULL or neither closing nor freed. There is one lemma per method
saying that it maps a live record to a live record, so a method may be called in the
middle of another. Under `PlainUse` (no `connect()` after `close()`, no `close()`
inside `on_connected`): `NeverCrashes`, `ReadsOnlyCurrent`, `ConnectedTellsTruth`,
`OneAttemptAtATime` and `ClosesForGood`, from the invariant `Inductive`. None of these
is inductive alone: that on_connect finds an `m_pTcp` to read needs that the connect
request is that of `m_pTcp` (`Attempts`); that needs that the timer starts no second
request, hence that `m_bConnecting` covers cancelled requests as well; that reading is
current needs that `m_bConnected` excludes `m_bConnecting`. `Sound` is their
conjunction, and `Closable` the part of it that holds in the middle of a callback.
`ClosesForGood` strengthens `CloseIsFinal` with "no write is in flight". `NeverForgets`
(`ReconnectArmed`) is about a client link; it needs that nothing forgets an immediate
failure of `uv_tcp_connect` (`RefusedStays`), so that of a step after which there was none
it is known that none came before.

Under `PlainUse` as well: `PeerKeepsNothing` (`PeerReleases`), `LossIsCaused`
(`LossHasCause`), `AbandonsOnePerFailure` (`OrphansBounded`) and `LinkImplementsSession`
(`Implements`: every step of a link is a step of `LinkSession` or a stutter; for a peer
link with `WriteErrors` off, where `on_close` comes with every loss). The
invariant `Strong` adds to `Sound` what a step must know of its past: that no handle
is replaced while one is closing, that an open `m_pTcp` is connected, that a peer link has
no timer and no request. The cases are those of one lemma, `Shape`: whatever a callback
or a call does in detail, with the reactions inside it, a step is of one of seven kinds,
and each theorem looks at these only.

`TcpBufferProofs`: `TypeCorrect`, `Latest` (`WindowIsLatest`) and `InBounds` (`Bounded`),
for any capacities and read sizes, and any handler. They hold only together: the window is
right because it is in bounds, and because `memcpy` moves it only over dead space that is
at least as large. Their invariant (`Fields`) also has that the dead space before the window
is none or smaller than the window; with it `BufferIsQueue` (`Implements`) follows: an
overflow, which compares `m_nPos + m_nLen` and the new bytes with the capacity, cannot come
while little is unconsumed. Each read is shown to be `Read` with the amount that the handler
said, exactly, or `Overflow` with its condition.

`MemPoolProofs`: `TypeCorrect`, `Ownership`, `Capacity`, `Bound` and `Reuse`
(`ReusedUpTo64K`), for any number of items and any limit. The last needs that a free item
waits where `free` puts its capacity (`AtHome`), so that an empty pool of a class up to 64K,
the only one `get` looks at, means that no item of that capacity is free.

`UdpNetProofs`, for any number of clients, sockets, items and datagrams. For any use of
the links: `TypeCorrect`, `LinksAreAlive` (`HeldIsAlive`) and `AnswersReachAsker`
(`AnswersAreMine`); under `PlainUse`
`ItemsHaveOneOwner` (`ItemsAccounted`). The invariant `IInv` has a part for each actor
and one for what is under way. That an answer reaches who asked needs that the socket a
datagram was sent from stays that of the same link, also when the link has closed it
(`SenderInv`), and that a datagram in the network, or an answer that is queued, goes to or
comes from the socket that its number was sent from (`NetInv`). That a link which the
application holds is alive needs that an identifier is never given twice (`ServerInv`).
`UdpNetAssumption` says of the constants that the links are finitely many
and `NULL` is none of them.

`HttpParserProofs` and `HttpStreamProofs`, for any symbols, any `ULLONG_MAX`, any answers
and any places where buffers end: `StreamTyped` (`TypeOK`), `NoAssertFails`
(`AssertionsHold`, which lists the assertions it is about; `nread == 1` of
`s_chunk_size_start` and those for states that do not exist are not among them), `CallbacksOrdered` (`CallbackOrder`) and `BodiesAsDeclared`
(`BodyAsDeclared`); and `SplitsAlike` (`SplitInvariant`), under `AcceptsBodies`. The first
two rest on `Base`: both records are `Sound`. A parser that may
be given a symbol is `Ready`; what its handling leaves is `Done`, with a lemma for
each state's `case` (`StepDone` is their sum). Neither is inductive without `Control`,
which holds while no error was raised: an item's mark is set in the states of
that item only, so that `CALLBACK_DATA` finds its own and the end of a buffer finds one; the
value of a known name is looked at in the states in which the name is; a length in a
body is not zero and not `ULLONG_MAX`. What an application hears of one call is a
fold over its callbacks. The library's induction takes an operator, which no prover here
instantiates, so `Induction` derives it for sets from `WFMin`, and `FoldExists` and `FoldValue`
that a fold has a value, each item of which follows from the one before it (`ReportIs`).

The next two rest on `Heed`, of `View`: the last item as it has been read, whether it was
handed over or is only marked, so that neither a mark nor the end of a buffer changes it
(`LookMark`, `LookDataZero`). `Heard` says for each state of the parser which callback that
is, and `Length` how the length as it was written stands to `content_length` and to what
has been read: while the headers are read they are equal, with `ULLONG_MAX` for none; in a
body the length is what is left and what was read; where the chunk ends it is what was read.
`Given` and the overflow test (`Digits`) make this the length as the input spells it, not
modulo the width. There is a lemma for each state again (`...Told`, and
`TransitionTold` for all of them), and `Outside` says that only a name and a continuation
line lead to a value, which is where `want` is read. `Right`, which is `BodyAsDeclared`
of any record, is inductive only with `Heard`: that no data can follow the end of a
chunk before the next one begins.

`SplitsAlike` relates two runs. `Twins` says that the parsers are alike (`Like`: in all but the
places of their marks and what they reported) and, while they have not failed, that their
`View`s are the same; a third set of lemmas, `...Pair`, takes each `case` on both records at
once. In the middle of a step the same callbacks must be marked (`Alike`): between steps
`Control` says so for all states but those of a body, which a new buffer begins with nothing
marked. There a byte marks it in both, so only the CR after a chunk finds it in one parser and not
in the other, handed over already if the buffer ended there. A refusal at this CR
is heard by one of them only, and TLC finds this when a body may be refused; hence
`AcceptsBodies`, that no answer to `on_body` is an error. (`HttpPeerLink::on_body`,
`httpserver.cpp:108`, means to take every body, but has no `return`: for what a garbage answer
does to the server there is `Garbage`.)

`HttpServerProofs`, for any number of connections, any texts and cuts, garbage or not:
`TypeCorrect` (`TypeOK`) and `Exchanged` (`Exchanges`), whatever the application calls,
and under `PlainUse` `OwnEntry` (`EntryPerLink`). The invariant `IInv` says of each
connection that it is `Waiting` (not accepted), `Running` (read, with its own entry, nothing
called or answered yet) or `Over`, and of its link that it is in one of the four states
of a record of `TcpLink` that occur in these stages (`Gone`, `Open`, `Closing` with a
write in flight or none); each method of `TcpLink` that the server reaches has a lemma from
one of them to the next. That an accepted link finds no entry under its id needs that
ids are given out in order (`IdsDiffer`), and that the end of a connection removes no
other's entry needs that they differ. `EntriesOK` is what `EntryPerLink` says of entries,
with their types. That a live `TcpServer` has its handle and an `HttpServer` around it, and
that only links in `left` are open when the latter is gone, is `ServerOK`; this is where
`PlainUse` is needed. `Exchanged` follows the fate of the response as well: that what is cut
or sent is the one response there is (`Replied`, `Fated`), which was given to the socket in
the callback that closed the link.

A read is a fold over symbols (`sn_http_parser_execute`) of a fold over callbacks
(`deliver_all`), then one over the calls of the application (`answer_all`). Of the first two
the proof uses what type their result has, which rests on `StepDone` of `HttpParserProofs`;
of the third, that its first step sends, unless the response is too large, and closes the
link, and that all others change nothing, so that a read with several requests has one answer
(`AnswerAll`). `ReadEffect` sums a read up. `ScriptsAssumption` says that the clients write
symbols, `HttpServerAssumption` that `NULL` is a value of its own.

`HttpGrammar`, `HttpInside`, `HttpRequestProofs`, and the last part of `HttpServerProofs`:
`CallsRight` (`CallsAreRequests`), for any number of connections and requests, any cuts,
garbage or not, if every client writes requests (`Written`; `MCHttpServer` has TLC check that
its texts are). `HttpGrammar` says what a request is without the parser: a method and a url,
an empty line where the head ends, and a body that is as long as the Content-Length says,
in chunks, or empty. A version or a header may be nonsense, on which the parser fails: the theorem
says nothing of that. `Single` asks that nothing after its start reads like
the name of a method and a blank. It is needed: `on_data` starts the parser anew with
each read, so a body with the text of a request in it is handled as that request when a
read begins there (TLC shows it at once for a POST with a GET as its body).

The invariant is that of one read, which begins anywhere in what the client wrote
(`Position`): the parser is `Idle`, failed or at rest; or it `Strays`, in the first symbols
of what is no request; or it `Reads` a request g, which began inside this read, and is
`Inside` g after o symbols of it. `Inside` gives each state of the parser its place in the text.
In the head it must know which header is being read and what was read of its value, since the
end of the message comes from there: `LengthRead` keeps `content_length` equal to the number
that the digits so far spell, `TransferRead` follows the one header that says chunked. In a chunk
the count is what is left of it. `InsideStep` is the step: a parser that is o symbols
inside g fails, or is o + 1 symbols inside it, or has its message complete, and for a GET or a
POST only with the last symbol of g. It adds up a lemma for each part of a request
(`MethodStep`, `UrlEnds`, `VersionStep`, `HeadersStep`, `HeadersEnd`, `BodyStep`, `ChunkStep`,
`TrailerStep`); in the head these go by `HeadMove`, what each state makes of any symbol.
Numbers are folds, taken digit by digit (`NumberGrows`). `DeliverSeries` and `ReadSeries` unfold
the two folds of a read; `ReadsSymbol`, `StraySymbol` and `QuietSymbol` say what one symbol
adds to the calls, `OnDataRight` what a read does, also when one of its callbacks seems to
fail, and `ReadCalls` what that is for the connection. That a call goes to the handler of its
method and has its url needs that, once the url of g ended, the `HttpRequest`, which is
never cleared between requests, has the method and the url of g (`Asked`), and that calls
come in order that the texts of requests follow each other (`Layout`).

`WholeRight` (`WholeReadServed`), again for clients that write requests: when the first one
of a client, a GET or a POST, is handled as written if it is read alone, it is handled as written whatever follows it in
the first read, whatever other connections do, and wherever their reads end. The hypothesis
(`FirstServed`) is about one text and one call of `on_data`, with no step of the system in
it; the run `httpserver` checks it of its texts, since a first read may end exactly where
the first request does. The argument: what the parser marked, and what a callback is
given, lies in what was read so far (`InBuffer`, `StepWithin`), so the symbols of the
request have the same results with more text behind them (`SymbolSame`, `ReadAlone`); the
calls made by then stay the first ones (`Follows`, `ParseFollows`); and a result that is no
success comes only from a callback that seems to fail (`Spoils`), which
`WholeReadServed` excepts. The invariant adds to `IInv` that a connection that has
not been read has the `HttpRequest` its constructor made (`Unread`).

Only model-checked: `Recovers` and `Ends` (liveness is out of reach of the prover), and the
violations. Every other property of a passing run is stated by a theorem; that of
`WholeReadServed` leaves to TLC what its hypothesis says of each text: which versions, names
and values the parser accepts, and which symbols of a header it hands over.

## 5. Not modelled, and the plan

Not modelled: `netaddr`, `format`, `logger`, `timeutil`, `protocol` (pure or output only), the
start-up code (straight line), `http_parser_parse_url` and `pause` (nothing calls
them), libuv itself beyond what `UvTcp` and `UvUdp` say of it, and what each module's
section above lists as left out.

What is left to do:

1. The hypothesis of `WholeRight` for every text of a grammar: on top of `HttpGrammar`, which
   versions, names and values the parser accepts, and which symbols of a header it hands over.
2. The composition of `TcpLink` with `TcpBuffer`: the receive buffer is not reset when a
   link reconnects (`tcplink.cpp:104`), so the tail of one stream is the head of the next.
