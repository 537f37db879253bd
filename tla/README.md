# A TLA+ model of Server-Fainter

Server-Fainter is a shared pixel canvas. Browsers fetch a page, open a
websocket, are sent the whole canvas, draw pixels and see what the others draw.
The repository holds the final server (`src/1.2v`), its two predecessors
(`src/1.0v`, `src/1.1v`) and several prototypes. This directory models all of
them: each is a different answer to the same question, how threads, sockets, a
list of clients and a canvas work together.

All paths below are relative to the repository; `1.2v/x.c` is `src/1.2v/x.c`.

## 1. Inventory

### 1.2v, the final server

| part | state | operations | talks to |
|---|---|---|---|
| task queue, `task_queue.c` | ring `tasks`, `front`, `rear`, mutex, condition variable | `init_task_queue`, `push_task`, `pop_task` | every thread |
| event loop, `main.c` | epoll set, the events of the last `epoll_wait` | `epoll_wait`, one `recv` per ready client, `is_websocket_frame`, `process_websocket_frame`, HTTP classification | kernel; pushes to the client manager |
| client manager, `client_manager.c` | list of clients (descriptor, state, `recv_buffer`, flags), `client_count` | a handler per task type, `addClient`, `removeClient`, `find_client`, `process_buffer`, `broadcastClients` | kernel (`accept`, `send`, `close`); pushes to the canvas |
| HTTP, `http_handler.c`, `http_parser.c` | the request in a client's buffer | `is_http_request`, `is_complete_http_request`, `http_parsing`, `handle_http_request`, static files, websocket upgrade | client manager thread |
| canvas, `canvas.c`, `parsing_json.c` | `pixels`, hash map `modified_pixels`, two time stamps | pixel update, snapshot for a new client, timed broadcast, timed save | pushes to the client manager |
| saving, `save_canvas.c` | a file | rewrite of the file every interval | canvas thread |
| handshake key, `websocket_handshake.c` | none | SHA-1 and Base64 by OpenSSL | HTTP |
| start-up, `context.c` | the context | creates the queues and starts the two worker threads | all |
| page, `static/script.js` | the picture, the socket | `ws.onmessage`, clicks | server, by websocket |

```
 browsers <--TCP--> kernel --events--> event loop --cm_queue--> client manager
    ^                                                            |        ^
    |                                                 canvas_queue        | cm_queue
    +-------------- send (snapshots, broadcasts) ---------------- v       |
                                                               canvas ----+
```

What is hard here, and what correctness means part by part:

* **Task queue.** Two producers push to the client manager's queue. Lost
  wake-ups, a full ring that looks empty, a test made before a wait and used
  after it. Correct: mutual exclusion, tests stay true until they are used, no
  wake-up lost, and seen from outside a bounded FIFO that drops on overflow.
* **Event loop.** Edge-triggered epoll reports an arrival once; one `recv` and
  one `accept` are made for it. A task names its client by descriptor, which may
  be closed and given to another connection before the task is handled. Correct:
  what a client sends is handled in order and at most once; each task concerns
  the connection it was made for; no connection is left behind.
* **Client manager.** Close frames, lost peers, failed sends and overflowing
  buffers all remove clients, in any order, while tasks for them are queued.
  Correct: list and sockets stay in step, the count is right, every open client
  gets every broadcast, no handler uses a client that is gone.
* **Canvas.** A snapshot for a joining client and the broadcasts of changes are
  made at different times and share a queue with everything else. Correct: a
  browser that was sent everything shows the canvas; changes go out regularly.
* **All together.** The two workers push into each other's queues: it must come
  to rest, and a client that opens its websocket must get the canvas.

### The older generations and prototypes

| part | shape and state | operations | what is hard | correct means |
|---|---|---|---|---|
| `1.1v` | as 1.2v for raw TCP clients: event loop, client manager, canvas; one unlocked list of clients | `addClient`, `removeClient`, `broadcastClients`, pixel update, timed broadcast | the event loop unlinks and frees nodes while the manager walks or inserts; edge-triggered `recv` once per event | what a client was told follows the canvas; only clients that left are removed (as long as freed memory is not used twice) |
| `1.0v` | event loop and four workers on one queue; list under a mutex; one shared `sm->ev` | accept, broadcast then draw, remove | tasks of one client are handled by several workers; a client ends before it is listed; `sm->ev` is filled by all | list and descriptors agree; one order of messages |
| `3.epoll_clicnt` | one epoll thread, 1000 slots, `clientCnt`, a log, a saving thread | accept loop, handshake, frames, `broadcast_to_clients`, `broadcast_client_count`, `save_canvas_to_file` | mutexes locked twice, slots left behind, a count changed on many paths, a signal handler, save by rename under kills | slots own their sockets, pages show canvas and count, every restart finds a canvas |
| `eunhye_files/server.c`, `epoll_usage/server.c` | earlier stages of it, without a count; the second one saves | the same | double closes, stale events in a batch, the file's descriptor is one the clients had | table and sockets agree, drawings are applied, the file is the saver's |
| `2.multithreading` | a thread per client over a shared slot table | accept, handshake, read, broadcast | slots and descriptors handed on while a thread still uses them; sends under the mutex | each active slot has a thread; one order of pixels; nobody starves |
| `1.libwebsocket` | callbacks of libwebsockets, a doubly linked list, one message buffer per session | established, receive, writeable, closed | the pending message is overwritten; sessions unlinked in any order | the links agree; the last change arrives |
| `chaeyoung_files` | one thread answers one request per connection; the pixels are a JSON file that pages poll | accept, `append_json_file`, answers | the closing bracket is written over at each append, wherever it stands; kills between an append and its answer | the file has every answered pixel, once, in order, and is an array as long as requests come whole |
| `sihun_files`, `eunhye_files/multithreading`, `eunhye_files/libwebsocket` | copies of the numbered prototypes | | | |

`push_task` and `pop_task` of 1.0v and 1.1v are those of 1.2v.

## 2. Modules

| module | models |
|---|---|
| `BoundedFifo` | the abstract queue: append or drop, take the oldest |
| `TaskQueue` | `1.2v/task_queue.c`, one step per statement under the mutex |
| `Queues` | `cm_queue` and `canvas_queue` as the atomic queues of `BoundedFifo` |
| `Network` | external: browsers, TCP sockets, backlog, edge-triggered epoll; the page of 1.2v |
| `Requests` | what `http_handler.c` and `http_parser.c` see in bytes |
| `EventLoop` | `1.2v/main.c` |
| `ClientManager` | `1.2v/client_manager.c`, `1.2v/http_handler.c` |
| `Canvas` | `1.2v/canvas.c`, `1.2v/parsing_json.c` |
| `Server` | 1.2v: the composition, its fairness and its properties |
| `ServerProofs` | theorems about `Server`: its types, list and sockets, the order of what clients send, what browsers show |
| `EpollSockets` | external: the sockets, descriptors and epoll of the servers below |
| `SharedListServer` | `1.1v` |
| `SharedMemoryProofs` | the safety theorems about `TaskQueue`, that it implements `BoundedFifo`, and the theorems about the list of 1.1v |
| `ThreadPoolServer` | `1.0v` |
| `ThreadPoolProofs` | its list and its descriptors agree, and its clients are told things in one order |
| `DurableCanvas` | the abstract promise of a saved canvas: a restart brings back a canvas there was |
| `CanvasFile` | saving and loading in `3.epoll_clicnt/server.c`, with kills and restarts |
| `CanvasFileProofs` | its types, `SavedWhole`, and that it implements `DurableCanvas` |
| `CountServer` | `3.epoll_clicnt/server.c`: event loop, count, locks, log, saving thread (from `CanvasFile`) |
| `CountProofs` | its open slots own their sockets, their pages are told everything, the count is right |
| `SlotServer` | `eunhye_files/server.c` |
| `UsageServer` | `eunhye_files/epoll_usage/server.c`: `SlotServer` with `CanvasFile`, sharing descriptors |
| `SlotProofs` | the tables, sockets and open pages of `SlotServer` and `UsageServer` agree, and the second implements `DurableCanvas` |
| `ThreadPerClient` | `2.multithreading/server.c` |
| `ThreadPerClientProofs` | its slots have threads, and its pages are sent the pixels in one order |
| `LwsServer` | `1.libwebsocket/server.c` |
| `PollServer` | `chaeyoung_files` |
| `PrototypeProofs` | the theorems about the list of `1.libwebsocket` and the file of `chaeyoung_files` |
| `MC...` | instances for TLC (`CanvasFile` needs none: its `MCCanvasFile.cfg` gives numbers) |

```
 BoundedFifo <== TaskQueue                DurableCanvas <== CanvasFile
      | operations                                  | actions    | INSTANCE
    Queues   Network   Requests                CountServer    UsageServer
        \      |        /                             |        / extends
   EventLoop  ClientManager  Canvas              EpollSockets -- SlotServer
              \    |    /                          |      |
                Server          SharedListServer  ThreadPoolServer  PollServer
```
`ThreadPerClient` (one thread per client, blocking calls) and `LwsServer`
(callbacks of a library) have their sockets to themselves.
(`<==` is refinement: the right-hand module implements the left-hand one.)

`Server` extends `ClientManager`, `EventLoop` and `Canvas`, which share
`Queues` and `Network`. `TaskQueue` is connected to the rest by refinement:
it implements `BoundedFifo`, and `Queues` uses that queue's operations
(`Pushed` is `Enqueue` or `Drop`, taking the head is `Dequeue`); 1.1v and 1.0v
use the same queue. `CountServer` and `UsageServer` compose the event thread
with the saving thread of `CanvasFile`: canvas and descriptors are shared.

A definition with a suffix such as `_m`, `_first` or `_kept`, marked as a mutant,
is a plausible mistake in the definition after it, kept to show that a property
notices. It is used by no specification.

### How the model corresponds to the code: 1.2v

* **Data.** A client sends *chunks*, `[conn, n]`: the n-th thing connection
  `conn` says. `Script[conn][n]`, a part of the world (below), gives its content by what the code tells apart:
  complete requests, the two halves of a request, text frames with a pixel, first
  and last fragments, close frames. Bytes are never spelled out; a `recv` and a
  `recv_buffer` are sequences of chunks, with sizes in chunks (`RecvUnits`,
  `BufUnits`). Identified chunks make order and duplication visible.
* **Event loop.** `EpollWait`, then one action per event: `AcceptEvent`,
  `CloseEvent`, `DataEvent`. `DataEvent` is `recv`, classification and the push;
  nothing another thread does between the two can change what is pushed.
* **Client manager.** One action per task type, named after it. Each action is
  the whole handler, including the buffer reset, the nested removal and the push.
  It is one step because the list is private to the thread, and the effects
  others can see (a push, `close`, `send`) can be moved to one moment. What this
  hides is only whether the task in the hand of a worker still fills a slot, so a
  run with queues of n also stands for some behaviours with queues of n - 1.
  `NoClient` is the `continue` for a client that is not found; `NullClient` is
  the same case in the two handlers that do not test for it.
* **Canvas.** The handler and the timer test after it are two actions, as
  `canvas_pc` tells, because `pop_task` lies between rounds but time may pass
  before the test. `due` means that 500 ms have passed. `Timers` clears it
  whether or not there is something to broadcast, as the code does with
  `last_broadcast`.
* **Failures.** `accept` may have no connection or no descriptor, registering a
  client may fail, `send` may succeed, fail or take part of the bytes, queues
  and buffers overflow, browsers leave at any time. In `Broadcast`, `removeClient`
  frees the node whose `next` is read afterwards; the walk may go on or end.
* **Crash.** `crashed` is a null dereference. It stops every thread.
* **Ghosts.** `wire`, `screen` and `behind` describe the browser: whether the
  byte stream still makes sense as a websocket, what it shows, and which pixels'
  last change was not sent to it. `lost` are pixels whose last broadcast met a
  full queue. The field `conn` of a task is the connection it was made for.
  The server never reads any of them.
* **Page.** `Click` paints the page's own pixel before it is sent, as
  `script.js` does; `Deliver` is `ws.onmessage`.

### How the model corresponds to the code: the others

* **Worlds.** A run asks its question in several surroundings: who connects, what
  each client sends, who leaves, is reset or reads slowly, which system calls
  may fail. `Worlds` is a record of these, and the variable `world` picks one in
  the initial state and keeps it. `Script`, `Leaving`, `Aborting`, `Slow`,
  `CtlFails` and so on are its fields. A property that needs, say, that nobody
  leaves, says so with them.
* **Sockets** (`EpollSockets`). `fds` maps descriptor numbers to connections, the
  stream of `canvas.tmp`, or `Closed`; `accept` and `fopen` take the lowest free
  number, `close` frees whatever the number refers to by then. `peer` is the
  other end (`up`, `fin` for closed, `rst` for reset, `finrst` for a reset that a
  send after the close causes, on which the next send raises SIGPIPE).
  `ready` is epoll's ready list, in the order of notification; `batch` is what
  one `epoll_wait` returned, evaluated when it returned and used later.
  `send` and `writev` succeed, fall short, fail or kill the process.
* **SlotServer, UsageServer, CountServer.** `pc` is the place in the loop of
  `main`; a step runs from one system call or lock to the next. `slots` is
  `clients[]`: descriptor, `active`, `handshake_done`; `buffers` are its buffers:
  what was read and is no frame yet. `Recv` takes all that has arrived and that
  there is room for (`RoomFor`); then `ProcessFrame` takes one whole frame after
  the other, also behind a close frame, until there is none left (`FramesEnd`).
  A full buffer leaves `recv` no room, and its 0 is taken for the end of the
  stream (`Received`). `call` is the broadcast under way. In `CountServer` the locks are
  modelled as far as one thread can lock them twice: `held` says that
  `clients_mutex` is locked, so a second `Lock` never happens; `pc = "logging"`
  holds the log's mutex, and a SIGINT there leads to `pc = "stuck"`. In `UsageServer` the event thread's actions carry the names of
  the functions of `epoll_usage/server.c` and are those of `SlotServer`.
* **CanvasFile.** `tmp` and `dat` are the two files, `buffer` what `fwrite` left
  in the stream, `written` what it was given. A kill keeps the files. `WriteFails`
  and `FlushFails` say whether `fwrite` and the flush of `fclose` may fall short.
* **ThreadPerClient.** `thread[t]` is the stack of the thread of connection `t`,
  its `cli` a pointer into the slot table, through which it reads its descriptor
  at each call. `new` is a connection the main thread has accepted and not
  placed. `mutex` is `clients_mutex`. Header and payload are two sends.
* **SharedListServer.** Nodes have addresses (`Nodes`); `used` are those
  allocated, `next` survives `free` until the node is used again, which is the
  outcome of reading freed memory that a build most often produces. `Touch` also
  allows the process to crash there. `Behind(n)`, the nodes after `n`, is the
  least set with `n` that `next` does not leave, so that it has a meaning when the list
  leads to freed memory or back to itself. `mgr` and `loop` are the places of the
  client manager and the event loop; the canvas thread's steps are atomic.
* **ThreadPoolServer.** `tag[c]` is the number `sm->ev` held when `c` was
  registered, which need not be its own. `worker[w]` is the task and place of a
  worker. `dropped`, a ghost, are the objects of tasks that `push_task` dropped.
* **LwsServer.** One step per callback: the library runs them one at a time. The
  choice among sessions is free. `writable` is the pending
  `lws_callback_on_writable`; `buf` is the one message a session can hold.
* **PollServer.** `file` is what the JSON file holds, by characters for what
  `append_json_file` writes around the bodies and by names for these. One action
  per call that others can see: `AppendJsonFile` before the answer to a POST,
  `AnswerPost`, `AnswerGet`, and `SendsToReset`, where a second send raises
  SIGPIPE. One `read` takes what has arrived of a POST, which may be cut before the
  empty line (`postline`: `IgnorePost`, nothing is written or answered), behind it
  (`posthead`: `Nothing` is appended) or in its body (`postpart`: `Part` is). The rest is
  read with it or not at all, as the answer closes the connection. `Kill` may come anywhere; `Restart` keeps the file. `answered` is a
  ghost: the pixels whose POST was answered.
* **Ghosts**: `wire`, `screen`, `shown`, `seen`, `told`, `lost`, `dropped`,
  `picture`, `last`, `answered`. They describe the pages or remember what was sent; servers never read
  them.

### Left out on purpose

1.2v: wording of responses, the client count inside broadcast messages, logging,
memory (leaks, and the write of `recv_buffer_len` into a node freed by
`process_buffer`), the flag `incomplete_frame` (written, never read), the limit
of `epoll_wait` to 2048 events, clicks before the websocket is open, frames
split by `recv`, requests of 32 header lines or more and bytes of an old request
that remain in `recv_buffer` (both would need the bytes themselves),
`save_canvas_as_json` (it rewrites a file that nothing reads back).

Others: the several `recv` calls of `websocket_read` in 2.multithreading, which read
one frame (nobody else reads from that socket, and what the thread does depends on
the whole frame only), masking and lengths of frames, the SHA-1 key, console output, the number
of slots (1000 there, 2 here), the bytes a broadcast writes into `canvas.tmp`
when it goes through a descriptor that the file took over, and the functions
`destroy...`, which run after endless loops.

Of `chaeyoung_files`: its thread pool and queue, which are started and never
fed. It does not link as committed: `http_request` calls `send_json_response`
(`chaeyoung_files/server.c:178`), which nothing defines; the model takes
`send_cli_json` for it.

Not modelled at all: vendored headers (`uthash`, `utlist`): the hash map is a
function. Load tests and proxies. The handshake key (a library call without
state).

## 3. What is checked

### Runs that pass

| run | instance | properties |
|---|---|---|
| `task_queue` | 2 producers, 2 consumers, 2 tasks, ring of 3 | `TypeOK`, `MutexHeld`, `CheckStillTrue`, `NoLostWakeup`, `QueueDrains`, `ImplementsFifo` |
| `server_safety` | *reload*: 3 connections on 2 descriptors, a websocket that sends a close frame or just goes away, another, and a file request. *pieces*: halves of requests, fragments, an invalid color, a close frame. *split*: a file request in two pieces, broken off or not. *join*: one page draws while another, slow one joins and draws the same pixel. Queues of 4, buffers of 3 chunks, which both fill up | `TypeOK`, `PipelineOrder`, `ListMatchesSockets`, `CountNeverUnder`, `MessagesCurrent`, `ReplicaInSync`, `ModifiedMatchesCanvas` |
| `server_liveness` | 2 websockets, one may leave, queues large enough | `QueuesSettle`, `CanvasArrives` |
| `canvas_file` | 3 cells, 2 colors, 1 cell in the stream's buffer, short writes, kills at any step | `SavedWhole`, `ImplementsDurable`, `LastDrawingSaved` |
| `count_server` | 2 slots, 3 descriptors. *drawing*: 2 pages draw, in pieces too, and close. *closing*: a page goes on after its close frame, with a second one. *full*: a frame longer than the buffer. *refused*: 3 connections, one of them no page. *faults*: a page draws while another one closes, leaves, is reset or reads slowly; failing `epoll_ctl`, SIGINT. *saving*, *freeing*: with the saving thread, while a page draws, and while one leaves | `CountExact`, `PagesFollowCanvas`, `SlotsOwnSockets`, `PagesShowCount`, `PagesServed` |
| `usage_server` | 2 slots, 3 descriptors. *reuse*: 3 connections, one leaves, a close frame, a refused request. *fails*: a reset, failing `epoll_ctl`. *sync*: 3 pages, one slow. *quiet*: nobody leaves, several frames in one `recv`. *saving*: a page draws while another is there; saving thread, kills, restarts | `NumbersOwned`, `OpenPagesInSync`, `DrawingsApplied`, `UsageDurable`, `AllSettle` |
| `thread_per_client` | 2 slots, 2 descriptors. *drawing*: two pages draw two colors each on one cell. *going*: 3 connections, `pthread_create` may fail. *resets*: resets and a slow page | `SlotsHaveThreads`, `SameOrder`, `AllRead` |
| `shared_list` | 2 descriptors, 2 cells, a queue of 3. *drawing*: a slow reader, objects in pieces. *invalid*: no color, no pixel. *leaving*: 3 clients, two leave. *reset*: one leaves, one is reset. *quiet* | `ToldInSync`, `RemoveOnlyEnded`, `SegmentsRead` |
| `thread_pool` | 2 workers, 2 descriptors, a queue of 3, which fills up. *drawing*, *pieces*, *leaving* (3 clients), *failing* (a reset, a slow client, failing `epoll_ctl`) | `ListMatchesSockets`, `SameOrder`, `DrawingsApplied` |
| `lws_server` | 3 pages, one may leave; allocations of buffers or of messages fail | `ListLinked`, `LastDrawnShown` |
| `poll_server` | 3 connections on 2 descriptors. *clicks*: 3 pixels, a reset, kills and restarts. *pieces*: POSTs whose body comes late or in two halves. *headers*: a POST cut before its empty line, a page that goes away, failing `epoll_ctl`. *gets*: pages that are gone when they are answered | `FileMatchesAnswers` |

1.2v:

* `NoLostWakeup`: every queued task has an awake consumer or a signal on its way
  while others sleep. It fails if the signal is sent only on an empty ring.
* `ImplementsFifo`: the ring refines `BoundedFifo`. A push takes effect when
  `rear` moves, or when the full test succeeds; a pop when `front` moves.
* `ListMatchesSockets`: the open client descriptors are exactly those of the
  nodes, one each, through every way to leave and every reuse of a descriptor.
* `CountNeverUnder`: `client_count` may be too high (see below), never too low.
* `PipelineOrder`: from socket through queue, buffer and second queue, the chunks
  of a client stay in order and none appears twice, within a stage, between
  stages, and between nodes: no two of them hold parts of one connection.
* `MessagesCurrent`: for a pixel with no change waiting or dropped, the last word
  about it in `cm_queue` is the color on the canvas. This is why a join in the
  middle of drawing shows no stale color.
* `ReplicaInSync`: hence a browser that was sent everything shows the canvas,
  and what it painted itself gives way to what the server says of that pixel.
* `QueuesSettle`, `CanvasArrives`: under the fairness below the threads come to
  rest when browsers are quiet, and an opened websocket is sent the canvas.

3.epoll_clicnt:

* `SavedWhole`, `ImplementsDurable`: whatever is drawn during a save, however much
  `fwrite` takes and wherever the server is killed, it starts with a canvas as it
  was at one moment of an earlier save. `FlushFails` is off here: with it the
  first one fails (below). `LastDrawingSaved`: what is drawn last gets saved.
* `SlotsOwnSockets`: refused clients leave active slots with closed descriptors
  behind, whose numbers come back, and still no open slot has the socket of
  another or none.
* `CountExact`: without faults, and if no page sends a second close frame, the count
  is the number of open clients, whatever else comes behind a close frame;
  `PagesShowCount`: right or wrong, all pages show it; `PagesFollowCanvas`: they
  show the canvas but for its last cell, which the initial message lacks;
  `PagesServed`: a page that asks and stays is served when there is a slot left.

eunhye_files:

* `NumbersOwned`: every descriptor number in use is its user's.
  `TableMatchesSockets`: although descriptors are closed twice and events outlive
  their sockets, active slots and open sockets correspond. It fails when a failed
  send leaves its slot active. `StreamKeepsDescriptor`: without resets and close
  frames the event thread never closes the saver's file.
* `OpenPagesInSync`, `DrawingsApplied`: pages follow the canvas, and a drawing sent
  in two segments, or read together with others, arrives whatever the slot was used
  for before.
* `UsageDurable`: the server with its sockets still implements `DurableCanvas`.
  `AllSettle`: no edge-triggered event is lost.

The others:

* `SlotsHaveThreads` (2.multithreading): every active slot has a thread that will
  give it back, although slots and descriptors are handed on too early.
  `SameOrder`: if no pixel is drawn twice, no two pages are sent two pixels in
  opposite orders. (That what one page is sent is a part of what another is sent,
  in the same places, does not hold: a thread may close the socket of a page that
  has only its descriptor's number in common with its own client, and a page
  whose number a stale slot still has is sent pixels twice.) `AllRead`: nobody waits for
  the mutex for ever while nobody leaves.
* `ToldInSync` (1.1v): the newest color of a pixel on its way to a listed client is
  that of the canvas. `RemoveOnlyEnded`: whatever the unlocked list does, only a
  client that left is closed, until a third one leaves. `SegmentsRead`: what one `recv` can take is read.
* `ListMatchesSockets`, `SameOrder` (1.0v): every open descriptor is listed or in
  the hands of one worker; messages have one order. `DrawingsApplied`: what is
  drawn reaches the canvas, unless the queue was full when it was pushed (`dropped`),
  another thread draws the same pixel or the race about `sm->ev` hit (`NumbersRight`).
* `ListLinked` (1.libwebsocket): the links of the list agree. `LastDrawnShown`:
  messages are overwritten, but the last pixel drawn is shown in the end.
* `FileMatchesAnswers` (chaeyoung_files): the file ends in `]` and a newline after
  the first append, in a newline and `]` after the others, and each append
  writes over the last two bytes. Whatever kills come between and wherever requests
  are cut, every answered pixel is in it, once, in the order of the answers; and as
  long as every body came whole (`BodiesWhole`) it is one JSON array. A body that is
  late or cut damages the file for good, which `FileParses` states and TLC refutes (below).

**Bounds.** Nothing counts up without limit: every connection is made once and
sends its script once, so state spaces are finite without a state constraint;
`clientCnt` wraps at `CountSize`. Two descriptors for three connections, or two
slots for three, is the least that reuses one while another is in use. Queues of
3 or 4 tasks overflow, in 1.0v, 1.1v and 1.2v; in `server_liveness` they are large enough not to, so that
it speaks about the code's logic and not about dropped tasks (with full queues a
client can be left without its snapshot, as the code accepts). Buffers of a few
chunks overflow and also hold two halves. Two producers, two consumers and two
usable slots give every combination of waiter, signaller and full or empty ring;
two workers give every race of two tasks. Three cells with one in the stream's
buffer give short writes that end before, at and after what was flushed.

**Fairness.** Threads are weakly fair: the operating system schedules runnable
threads. So is the clock of 1.2v. Browsers promise nothing in 1.2v and in
`count_server`. In the properties about everything being read or drawn
(`AllRead`, `AllSettle`, `SegmentsRead`, `DrawingsApplied` of 1.0v), clients send
their scripts and close, reset or refuse nothing (`Quiet`).
`TaskQueue` assumes weak fairness of each thread inside `push_task` and
`pop_task`. Nobody has to call `push_task`; spurious wake-ups need not happen.
`CanvasFile` assumes that the saving thread runs, and that a disk that is full
has room again at some time (`SF` of the complete write and of the rename).
`LwsServer` assumes that the library serves every session that has something to
be served.

**Deadlock** is checked in `task_queue` and `canvas_file`. It is switched off in
the server runs: when all scripts are sent and browsers are quiet the server waits
for events that do not come. That it stops only then is what `QueuesSettle`,
`AllSettle`, `AllRead`, `SegmentsRead` and `PagesServed` say.

### What the code does otherwise than it says

`broadcast_reaches_all` is a run of its own: TLC finds a behaviour in which a
broadcast of 1.2v stops at the first client that is not open. The other statements
below were found to be refuted in the same way. They are in the modules, and
`MC<module>Claims.cfg` lists them: each, checked alone, gives a counterexample.

| claim | the code | the text |
|---|---|---|
| 1.2v `BroadcastReachesAll` | the walk ends at the first client that is not open; new clients come first | "send a message to all clients", `1.2v/client_manager.c:407` |
| 1.2v `CountIsConnected` | losing a connection does not decrement the count | "number of connected clients", `1.2v/client_manager.h:45` |
| 1.2v `NoNullClient` | the client of a snapshot may be gone; the pointer is not tested | "server stabilised: error handling", `README.md:34` |
| 1.2v `CloseOnlyEnded` | a close task can reach a new connection on the same descriptor | "client disconnected", `1.2v/main.c:182` |
| 1.2v `BroadcastPeriodically` | the timer is looked at only after a task | "broadcast at regular intervals", `1.2v/canvas.c:28` |
| 1.2v `EveryConnectionAccepted` | one `accept` per edge-triggered event | "handle a new client connection", `1.2v/main.c:170` |
| 1.2v `LastFragmentDelivered` | opcode 0 is dropped, so no task for a last fragment | "complete, or the last fragment", `1.2v/task_queue.h:16` |
| 3.epoll_clicnt `DefaultAfterBadLoad` | zeroed after a short read, 29 without a file | "default values", `server.c:157` |
| 3.epoll_clicnt `SavedWhole` with `FlushFails` | the result of `fclose` is not looked at | "prevents data loss", `server.c:75` |
| 3.epoll_clicnt `CountAlwaysExact` | failures and second close frames count down twice, or clients never counted | "number of concurrent users", `server.c:83` |
| 3.epoll_clicnt `RefusedOnlyWhenFull` | a failed handshake keeps its slot | "Maximum clients connected", `server.c:683` |
| 3.epoll_clicnt `InitialCanvasWhole` | one byte too few is sent | "+1 for message type", `server.c:716` |
| 3.epoll_clicnt `BroadcastEnds` | a failed send locks a mutex it holds | "broadcasts to all clients", `server.c:180` |
| 3.epoll_clicnt `SigintExits` | the handler wants a mutex the interrupted thread may hold | "SIGINT handler", `server.c:570` |
| eunhye_files `EndIsClients` | a full buffer looks like the end of the stream | "end of the client's connection", `server.c:575` |
| eunhye_files `HangupIsClients` | a stale event drops a new client | "Client disconnected", `server.c:584` |
| epoll_usage `UsageSavedWhole` | a second close hits the saver's file | "prevents data loss", `server.c:65` |
| 2.multithreading `ThreadOwnsSocket` | a failed send gives back slot and descriptor of a running thread | "a thread that handles the new client", `server.c:434` |
| 2.multithreading `PagesShowCanvas` | drawing and broadcasting are two steps | "broadcasts the change to all clients", `server.c:333` |
| 2.multithreading `FreedOnce` | `init_msg` is freed twice | `if (init_msg) free(init_msg)`, `server.c:343` |
| 2.multithreading `BroadcastEnds` | `send` blocks under the mutex | "broadcasts to all clients", `server.c:39` |
| 1.1v `EverythingReceived` | one `recv` per edge-triggered event | "receives data from the client's socket", `main.c:39` |
| 1.1v `ListsEveryClient` | the list is changed by two threads | "sends to all clients", `client_manager.c:238` |
| 1.1v `NextIsClient` | a node is freed while another thread has read it as the head | "the next client", `client_manager.h:11` |
| 1.1v `ListedWatched` | `EPOLL_CTL_DEL` after `close` hits a new client | "registers the client's socket", `client_manager.c:183` |
| 1.1v `EndedRemoved` | an end that is reported before the client is listed | "removes the client", `client_manager.c:211` |
| 1.1v `RemovesOnlyIt` | the node found was freed, and becomes another client's before its descriptor is closed | "removes the client", `client_manager.c:211` |
| 1.0v `RemoveOnlyEnded` | workers share `sm->ev` | "Client disconnected", `main.c:49` |
| 1.0v `EndedRemoved` | an end that is reported before the client is listed | "removes the client", `client_manager.c:50` |
| 1.libwebsocket `ListsEverySession` | a session that was never linked drops the list | "the list of all clients", `server.c:24` |
| 1.libwebsocket `PicturesCurrent` | one message per session, overwritten | "sends the current state", `server.c:82` |
| chaeyoung_files `FileParses` | a body that is late or cut leaves an empty place or half an object in the array | "returns the pixel data in JSON form", `server.c:108` |

## 4. What is proved

For every value of the constants (sets of threads and tasks and rings of at least
two slots; numbers of cells and colors; sets of sessions; connections with any
scripts, descriptors, slots, workers, sizes of queues and buffers, and faults):

| module | theorem | statement |
|---|---|---|
| `SharedMemoryProofs` | `TypeCorrect` | `Spec => []TypeOK` |
| | `MutualExclusion` | `Spec => []MutexHeld` |
| | `ChecksStayValid` | `Spec => []CheckStillTrue` |
| | `WakeupsKept` | `Spec => []NoLostWakeup` |
| | `Refinement` | `Spec => ImplementsFifo`, that is `Fifo!Spec` |
| | `ListTypesCorrect` | `ListSpec => []ListTypeOK` |
| | `OnlyEndedRemoved` | `ListSpec => RemoveOnlyEnded` |
| | `ClientsTold` | `ListSpec => []ToldInSync` |
| `CanvasFileProofs` | `TypeCorrect` | `Spec => []TypeOK` |
| | `SavedWholeAlways` | `~FlushFails => (Spec => []SavedWhole)` |
| | `Durability` | `~FlushFails => (Spec => ImplementsDurable)`, that is `Durable!Spec` |
| `PrototypeProofs` | `TypeCorrect` | `LwsSpec => []TypeOK` |
| | `LinksAgree` | `LwsSpec => []ListLinked` |
| | `FileKept` | `Spec => []FileMatchesAnswers` |
| `ServerProofs` | `TypeCorrect` | `Spec => []TypeOK` |
| | `ListAndSockets` | `Spec => []ListMatchesSockets` |
| | `CountedAll` | `Spec => []CountNeverUnder` |
| | `NothingOvertakes` | `Spec => []PipelineOrder` |
| | `ModifiedCorrect` | `Spec => []ModifiedMatchesCanvas` |
| | `MessagesStayCurrent` | `Spec => []MessagesCurrent` |
| | `ReplicasInSync` | `Spec => []ReplicaInSync` |
| `ThreadPerClientProofs` | `SlotsKept` | `Spec => []SlotsHaveThreads` |
| | `PixelsInOrder` | `Spec => []SameOrder` |
| `ThreadPoolProofs` | `ListAgrees` | `Spec => []ListMatchesSockets` |
| | `MessagesInOrder` | `Spec => []SameOrder` |
| `SlotProofs` | `TableAgrees` | `SlotSpec => []TableMatchesSockets` |
| | `PagesAgree` | `SlotSpec => []OpenPagesInSync` |
| | `UsageNumbersOwned` | `UsageSpec => [](Tame => NumbersOwned)` |
| | `UsagePagesAgree` | `UsageSpec => [](Tame => OpenPagesInSync)` |
| | `DrawingsArrive` | `UsageSpec => [](Tame => DrawingsApplied)` |
| | `UsageDurability` | `UsageSpec /\ Tame => UsageDurable`, that is `File!Durable!Spec` |
| `CountProofs` | `OpenSlotsOwn` | `ServerSpec => [](Tame => SlotsOwnSockets)` |
| | `CountReachesPages` | `ServerSpec => [](Tame => PagesShowCount)` |
| | `PixelsReachPages` | `ServerSpec => [](Tame => PagesFollowCanvas)` |
| | `CountIsExact` | `ServerSpec => []CountExact` |

`Tame` leaves out the worlds in which both a thread saves and a number may be
closed twice: in `SlotProofs` it is `~Saves \/ ClosedOnce` (no connection is reset
or stops reading, no page sends a close frame), in `CountProofs` `~SaverRuns \/
SoundCount` (no connection is reset or stops reading, `epoll_ctl` does not fail, no
page sends a second close frame). The
others are in the runs: there a double close can hit the file of the saving
thread, and what these theorems say is false (`UsageSavedWhole`).

**The queue.** Assumptions (`TaskQueue`): `Size >= 2`, as `push_task` keeps one slot free;
producers and consumers are disjoint; there are finitely many of both; `None`
is neither a thread nor a task. In the server the client manager produces for
one queue and consumes from the other, so within one queue the sets are disjoint.

* **Invariant.** `IInv == TypeOK /\ MutexHeld /\ WaitersWait /\
  CheckStillTrue`. `CheckStillTrue` alone is not inductive: a consumer about to
  load relies on `front` staying put, which only another consumer past its own
  test could change. `MutexHeld` says there is none. `WaitersWait` (a thread in
  the wait set stands at `pthread_cond_wait`) keeps a wake-up from touching a
  thread elsewhere. The proof has one step per action.
* **Wake-ups.** `NoLostWakeup` is inductive relative to `IInv`. A push adds one
  task and one signalling producer (`CountGrows`); the signal removes that
  producer and makes at least one more consumer awake; a consumer blocks only on
  an empty ring (`FullEmpty`). `WakeupFrame` covers all other steps.
* **Refinement.** `Carried` strengthens `IInv`: what threads hold and the ring
  contains are tasks, and the task about to be stored or just loaded is the one
  in the slot. `StoreFree`, `AppendRear` and `TailFront` say what the three
  writes do to the contents of the ring read as a sequence. `FifoStep` maps
  `AdvanceRear` to `Enqueue`, the early return to `Drop`, `AdvanceFront` to
  `Dequeue`, `Work` to `Finish`, and everything else to a stutter.
* **Arithmetic.** `ModSize` and `CountCases` replace remainders by cases.

**The saved canvas.** Assumptions (`CanvasFile`): what fits in the stream's buffer
is less than a canvas, the two start colors are colors, no file is not a file.
`IInv == TypeOK /\ Accounted /\ (~FlushFails => SavedWhole)`: `SavedWhole` is not
inductive alone, since `Rename` publishes whatever is in `canvas.tmp`.
`Accounted` says what is there at each place of the saving thread: what the file
and the stream's buffer hold is as long as what `fwrite` was given, so that
`written = Cells`, the test the code makes, means a whole canvas. `TypeCorrect`
holds whatever fails; the other two need that `fclose` can flush, as the code does
not look. `DurableStep` maps the complete `WriteTmp` to `Snapshot`, `GiveUp` to
`Abandon`, `Rename` to `Commit`, `Restart` to `Restart`.

**The list of sessions.** `ListLinked` with the types of the links is inductive.
Linking at the head (`LinkedKeeps`) and unlinking (`UnlinkedKeeps`) touch only
neighbours, so that the list has no cycle is not needed.

**What browsers of 1.2v show.** `IInv == Shapes /\ ModifiedMatchesCanvas /\ MessagesCurrent /\ NothingSent /\
ReplicaInSync`. Each of the three properties is what the next one needs when
something is handed on: a broadcast queues what `modified_pixels` holds, and a
delivery shows what the queue held. So a step that changes the canvas
(`PixelUpdateKeeps`), one that queues a message (`SendCanvasKeeps`,
`BroadcastUpdatesKeeps`, both from `PushMessage`, which covers the full queue) and
one that takes a task (`TakeStepKeeps`, `DeliverKeeps`) each have a lemma; all other
steps queue no message and deliver none (`QuietStepKeeps`, `PushStepKeeps`).
`NothingSent`, that a browser still waiting for its handshake counts as behind on
every pixel, is what makes the first snapshot, or its loss, harmless. `Shapes`
gives domains only; the full `TypeOK` is not needed here.

**The list and the sockets of 1.2v.** Tasks name clients by descriptor numbers,
which are closed and handed out again while the tasks wait. `ListMatchesSockets`
becomes inductive with three facts about connections (`SocketsFit`): one is in the
backlog at most once, was made before it is there, and one the server has not been
handed yet is behind no descriptor. Whatever node a task finds by its number,
`removeClients` closes the descriptor of each node it removes, and only those.
`TypeOK` is proved first, one lemma per handler, and used by the rest: `CountNeverUnder`
needs that open nodes are finitely many, and that a node becomes open only in the
branch that counts.

**The order in 1.2v.** What a client sends passes four stages: the socket, the
client manager's queue, the buffer of its node, the canvas's queue. `PipelineOrder`
says that each stage is in order and that later stages hold earlier chunks.
It is inductive with `OneDescriptor` (no connection is carried by two descriptors:
by a socket, in a node or in a task about it) and `NotAhead` (nobody holds what was
not sent). Without the first a buffer could get the chunks of a client from two nodes.
A step that drops, removes or empties leaves less in a stage (`PipeKept`). Two kinds of
steps hand on: `recv`, which splits what the socket holds (`ReceivedPiece`), and the
handlers that move a piece from task and buffer to the canvas's queue (`NodeUpdatedPipe`).

**Slots of 2.multithreading.** The thread of a slot is found through the connection
it was made for, so `SlotsHaveThreads` could break only if a connection was placed
twice. `Newcomers` (a connection is in the backlog once, and has no thread while it
is there or between `accept` and its slot) says it is not. A thread that ends gives
back its own slot in the same step, and a failed `send` of another thread can only
make a slot inactive.

**The order of the pixels of 2.multithreading.** After a failed send the thread of
a client goes on with a slot and a descriptor that may be another's, so that which
page a thread reads from cannot be said. What can be followed is each drawing. If
no drawing is sent twice, it is in one place (`OnePlace`): unread, with one thread
that read it, or shown. A thread sends only under the mutex (`OneSender`), what is
being sent is the last thing any page was sent (`Newest`), so no two pages come to
disagree (`Agree`).

**The list of 1.0v.** `OnePlace` restates the property descriptor by descriptor;
`OneHolder` adds that two workers never hold the same one and which places hold
none. `TakeKeeps`, `DropKeeps`, `AddKeeps` and `RemoveKeeps` follow a descriptor from
`accept` to `close`; the number in `sm->ev` and the one an event carries may be
wrong, as they are used only to look in the list. That `accept` finds the lowest
free number needs the well-ordering of the naturals (`LowestAvailable`).

**The order of the messages of 1.0v.** While a worker broadcasts, the clients it has
reached are one message ahead. `InStep` appends that message to what the others were
sent (`Now`), and then any two streams are the end of one another at every step. A
client that is not listed was sent nothing (`NothingSent`), so that it may be added at
any time; nobody but the holder of the mutex sends (`OneSender`).

**The slots of eunhye_files.** Here one handler may close a descriptor twice: a
failed `send` drops a client, and the loop goes on with the event of that client.
`CurrentOwns` says why the second close takes nothing: from the event to the end
of its handling nothing is accepted, so the number is either still the client's or
no socket's. It is kept by `SendFails` and `Hangup` because both work on the slot
in hand or on a slot with another number, which is `TableMatchesSockets` itself;
the two are inductive together.

**The slots of 3.epoll_clicnt.** A refused client leaves its slot active with a
number that the next `accept` gives to somebody else, so two active slots can have
one number and `TableMatchesSockets` is false. What holds is that an open slot is
the first active one with its number (`FirstOwns`), and that the slot of the event
being handled is, too (`CurrentFirst`): searches by number start at slot 0, and
the broadcast of the count, which may run in the middle of a handler, deactivates
slots but never makes one active.

**What the pages of both are told.** `Delivery` is the second half of the invariant,
in `SlotProofs` and in `CountProofs`. `Reaches` says that an open page shows what it
should, or the broadcast under way still has its slot ahead: `i >= call.at`. Every
step that draws or counts starts such a broadcast, every `Send` takes the first
slot left, and what it tells one page changes no other page only because no two
open slots share a connection. That is where the first half is needed, with
`AcceptedOnce`: a connection is accepted once, so two numbers never mean one
socket. A handshake may find other bytes on the wire than its page expects, so
`Fresh` says that its slot is not open. In `CountServer` a failed `writev` removes
a client in the middle of a broadcast, which broadcasts again and waits for
`clients_mutex`, which the thread holds already: `Control` says that `held` outside
`send` means it has stopped (`Halted`) and so never waits for events with a page
behind.

**What is drawn.** `DrawingsApplied` speaks of moments when all was read; `Drawing`
says what holds between. `Streamed`: what is unread is the end of what was sent.
`Kept`: the buffer of a slot is the last part of what was read of its client.
`Applied`: what has left the buffer and nobody drew over is on the canvas. `Partial`:
only the slot the loop is at has a whole frame in its buffer, and what fills a buffer
is the last thing in it. `Whose`: the frames that are processed after their slot was
given back are of one connection, which has no slot any more. `DataRead` and `RecvDrawing` say that what `recv` takes moves
from the stream to the end of the buffer, `FrameDrawing` that a processed frame moves from the
front of the buffer to the canvas, with frames before and behind it. That a new
client finds its buffer empty needs that it sent no frame before (`Unframed`): a page
sends frames only after the handshake, and the handshake reads, and throws away,
only what came before it.

**The saving thread.** `Consistent` adds to all this what the thread has in hand:
the number of its stream refers to `canvas.tmp` until it closes it (`Stream`). In a
world with a saving thread that needs that the loop never closes a number twice,
and `Gentle` is the reason: the ready list has every socket at most once and only
sockets that are there (`Listed`), nobody's connection was reset (`Live`), every event
left in a batch is the one event of an active slot (`Expected`), and a handler works
on the slot of its event (`InHand`), so that it closes what it was told of, once.
`PickedOnce` gives the events of a batch without repetition; a handler that has
closed its client finds no other event of it. `NumberKeeps` shows that a number
that is no client's may change hands under everybody else. The two servers are
proved alike, in `SlotProofs` and `CountProofs`; in `CountProofs` the same argument
carries the count (`Counted`): each open slot is counted up once and counted down once,
because it leaves through one handler. A close frame does not end the
processing of frames; `Orderly` follows the close frame of a page through socket and
buffer, so that where a page sends one at most (`ClosesOnce`) none is left behind it.
The count fits its integer as there are
fewer slots than values (`MaxClients < CountSize`).

**The durable canvas of the whole server.** `SlotProofs` takes the proofs of
`CanvasFile` as an instance, `Saving`. `FileStep` says that what any part of the
server does is a step of `CanvasFile` or none: the loop draws (`EventFile`), the thread
saves (`SavingConsistent`), a restart loads. `DurableStep` composes this with the
refinement proved there, so that the server with its sockets and pages implements
`DurableCanvas`.

Assumptions of these four paragraphs, beyond sizes and distinct constants: what a
connection sends is a sequence; a drawing has a color; the rest of a frame comes
right after its head; the open `canvas.tmp` is not taken for a closed number.

**The file of chaeyoung_files.** `append_json_file` writes over the last two bytes,
whatever they are. `FileShape` says what they are: the file is empty, or ends in `]` and a newline, or in
a newline and `]`; and while no body in it is missing or cut, it is an array. `NewEntry`
shows that from either ending one append leaves the second, with the entries there were
and one more, whatever was appended, and an array if it was a pixel and there was one.
As what `JSON.parse` sees of a file is a selection of its characters
(`Tokens`), this goes through lemmas about `Picked`: it depends only on the part it
is taken from (`PicksAgree`) and grows at the end (`TokensAppend`, `FrontNext`).
The other half is that no pixel is appended twice. `Streams` says that what is
unread is the end of what a page sent, so that each thing is read once; a restart
throws away what was not read. `Taken` counts what was read, `InRequest` says that
the request in hand is a piece of that, `LoggedOnce` that a pixel in the file
was read before (`Known`), and is there once. `Answering` says that what is
about to be answered, if it is a pixel, is the last one in the file, so that answers come in the order of the
entries; a kill between append and answer leaves an entry that was never answered.
Assumptions: clicks are different (`RequestsAssumption`: no two requests have the
same pixel; a connection sends one request, at most in two pieces, since the answer
closes it), and bodies, whole, cut or
empty, are different from each other and from the characters around them
(`PixelsAssumption`).

**Who is closed in 1.1v.** Event loop and manager share the list without a lock,
and an address may be freed, handed out again by `malloc` and still be in a local
variable of the other thread. `Basic` is what holds in spite of it: one descriptor
per connection, one event per descriptor in a batch (`EventsOnce`, from `PickedOnce`
as in the servers above), and no more allocated nodes than accepted connections
(`Enough`), so that there is memory for `Insert`. `EventsSound` says that an
event not yet handled is about the client that has its number now. It is kept
because a number changes hands only when its client is closed, in the handling of
its own event, and that needs `FoundNode`: the node that `removeClient` found holds
the number of the event when its descriptor is closed, although the node may have
been freed, and its memory given to a new client, in between. While the server has
closed only one client (`~TwoAway`), at most one node was freed (`FreedOnce`), and
its number is a live client's only while the manager inserts that client, into
this very memory, or while `EPOLL_CTL_DEL` is still to come (`Reused`). So the second
client that goes is still closed by its own number. For a third, two nodes may have been
freed, and `RemovesOnlyIt` is refuted: `Few` (at most two are gone) is the truth
about the code, and the theorem has no other bound on clients, nodes or descriptors.

**What clients of 1.1v are told.** `ToldInSync` speaks of worlds in which nobody
leaves. Then recv never ends a stream (`Calm`, which takes `EventsSound`: a stale
event would look like an end), nothing is freed, and the list changes only by
`Publish`, which puts a node no other node has the number of before the others
(`List`, `PublishList`). `BehindFrame` says that what is behind a node depends only
on a chain it is in, so that `Insert`, which writes the new node's memory, does not
disturb a walk. On top of that `Current` follows a color: what the hash map holds
is what the canvas shows (`InMap`); if it holds nothing for a pixel, the last task
with that pixel does (`InTasks`); if there is none, the message of the walk does for
the clients it has yet to reach (`InWalk`), and the others were told it (`InTold`). A
client that was just added was told nothing, a send that fails ends what can be
said of its client, and a broadcast that met a full queue puts its pixels in `lost`.

`ListTypesCorrect` is proved with `Types`: whatever clients send, `Drawn` lets only
pixels and colors of the canvas through (`DrawnColors`, where the last object of a segment for a
pixel exists because segments are finite), and `push_task` keeps a queue below its size.

Assumptions (`SharedListServer`): there are finitely many connections and
addresses, and as many addresses as connections: `malloc` does not fail.

**Only model-checked.** Every safety property of the passing runs has a theorem.
Liveness (`QueueDrains`, `QueuesSettle`, `CanvasArrives`, `LastDrawingSaved`,
`PagesServed`, `AllSettle`, `AllRead`, `SegmentsRead`, `DrawingsApplied` of 1.0v,
`LastDrawnShown`) stays with TLC for good: fairness and ENABLED are outside what the
prover handles. What the recursive function in `Picked` returns is proved by the
well-ordering of the naturals (`Minimum`, `Induction`), as far as it is needed.
`RemoveOnlyEnded` shows what a bound can hide: without its first condition it
holds for two clients that leave and is false for three (`RemovesOnlyIt`), which
was found by asking what an inductive invariant would have to say of the node
that the event loop has found.

## 5. Plan

Done: all servers, in the order task queue, 1.2v, saving, 3.epoll_clicnt, the older
epoll servers, 2.multithreading, 1.1v, 1.0v, 1.libwebsocket, chaeyoung_files; proofs of
all safety properties that the runs check.

What would add most next:

1. Frames cut by `recv` in 1.2v (`main.c` drops the head and classifies the tail
   by its first byte): chunks with halves, as `SlotServer` has them.
2. The moment `epoll_wait` of 1.2v returns 2048 events and leaves the rest.
3. Theorems about 1.0v and 2.multithreading under fewer faults, as those of
   `CountProofs` have them: which page a thread serves, and that `sm->ev` is right.

## 6. Running

In this directory: `tlc -workers 2 -config MCServerSafety.cfg MCServer`
(deadlock checking follows the cfg), `tlc -config MCCanvasFile.cfg CanvasFile` for the
one run without an MC module, and `tlapm SharedMemoryProofs.tla`. Each run
takes between a few seconds and two minutes. Of a `...Claims.cfg` leave one
property in at a time.
