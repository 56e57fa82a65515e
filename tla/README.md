# coroutine-http in TLA+

Models, model-checking runs and machine-checked proofs for the coroutine HTTP
server in this repository: its scheduler, channel, TCP layer, connections, HTTP
parser, router and keep-alive loop, the WebSocket codec and the chat room. Every
definition is written from the C++ source; `PROJECT.json` gives the lines for
each (`map`).

To repeat a check: `tlc -workers 2 -config <run>.cfg <module>.tla` for a run of
the tables below, `tlapm <module>Proofs.tla` for the proofs.

## The system

| Component | Source | State | Operations | Interacts with |
| --- | --- | --- | --- | --- |
| Scheduler | `core/coroutine.cpp` | ready queue, `running_coro`, `waiting_map`, timer heap, epoll, post queue and pipe | `create`, `post`, `yield`, `sleep`, `wait_event`, `run`, `~Scheduler` | everything; other threads through `post` only (so the README) |
| MultiScheduler | `core/coroutine.cpp` | the schedulers, `rr_index_` | `post` in turn, `run` | calls `Scheduler::post` |
| Channel | `core/coroutine.h` | one waiting sender with its value, one waiting receiver with its slot | `send`, `recv` | works directly on the scheduler's ready queue and `running_coro` |
| TcpServer | `net/tcp_server.cpp` | listening socket, handler, dispatcher | `start`, `accept_loop` | posts a task per client; the task builds a Connection on its own thread |
| Connection | `net/connection.cpp` | descriptor, `closed_`, `read_buf_` | `read`, `read_until`, `read_exact`, `write`, move, `close` | suspends in `wait_event` |
| HTTP | `http/*.cpp` | routes, middlewares; per connection the request | `parse`, `url_decode`, `dispatch`, `Route::match`, the keep-alive loop | reads and writes its Connection |
| WebSocket | `ws/websocket.cpp` | none but the connection's | `handshake`, `recv_frame`, `send_frame` | `read_exact` and `write` of its Connection |
| ChatRoom | `ws/chat_room.h`, `main.cpp` | `clients_` and `mutex_`, shared by all threads | `join`, `leave`, `broadcast`, the handler of `/ws` | writes to the connections of all clients, on whatever thread they live |

What is hard here: the wake-up protocol between `post()` and `run()`; one-shot
epoll registrations that are added, changed, disarmed and deleted while
`waiting_map` changes; what an error of `epoll_wait` leaves behind; direct
manipulation of the scheduler by Channel; reuse of descriptor numbers across
threads; partial reads and writes with a peer that may stop anywhere; text that
is cut and decoded in several passes, and lengths in three formats; and a mutex,
raw pointers and foreign connections held across a suspension in the chat room.
The list with lines is under `hazards` in `PROJECT.json`.

What would make each part correct: nothing posted, asleep or waiting is lost,
resumed twice or left behind (Scheduler); turns are dealt evenly
(MultiScheduler); a send meets one receive (Channel); a descriptor has one owner
(TcpServer); the byte streams stay whole (Connection); one request, one handler,
one answer, in order, and the handler sees what the client meant (HTTP); a frame
comes out as it went in, and none is held back (WebSocket); all members hear the
same (ChatRoom).

## Modules

* `Scheduler` models one thread in `run()` step by step, the running coroutine,
  threads that `post()`, the kernel and the clock. A coroutine is identified with
  its closure: it is in `postQueue` before `create()` ran. The state `DONE` lasts
  only from `co_entry` to the `delete` in `run()` and is not visible. The timeout of
  `epoll_wait` is cut to an int as `run()` cuts it (`ToInt`, `NextTimeout`, `Wait`).
  `PollError` is an error other than EINTR, which ends `run()`; then the destructor
  frees what the queues and maps still hold (`Destroy`). `wait_event` looks at no error
  but EEXIST: an `EPOLL_CTL_ADD` that is refused (`refused`), a `MOD` of a descriptor
  that is not in epoll any more, a `DEL` that takes away the registration of another
  coroutine (`cut`), and a map entry that is overwritten (`replaced`) are steps of the
  model. `Executor` is what the
  scheduler promises: a first-in first-out line of tasks, until it shuts down. The
  refinement is `Scheduler!ExecutorSafety`.
* `MultiScheduler` has the atomic turn as an int that wraps, with the remainder of
  C++; an index out of range stops the model.
* `Channel` is `send` and `recv` with the frames they are suspended in, for
  coroutines created in any order; `Rendezvous` is the unbuffered channel that it
  implements: a queue of waiting senders, one of waiting receivers, and what has passed.
* `TcpServer` has the descriptor table of the process, the accept coroutine, tasks
  in flight and the chain of moved Connection objects of each client.
* `Connection` has a reader and a writer on one object, the kernel's two buffers and
  the peer. A read call is answered from `read_buf_`, or goes through `recv`. Of the
  scheduler it has what the two coroutines share there: the one entry of `waiting_map`
  and the one registration of the descriptor (`WaitEvent`, `Report`, `Unregister`).
* `Routes` says when a path has the shape of a pattern; `Router` is the loop of
  `Route::match`, with its parameters.
* `HttpText` is the text of a request: request line, splitting at `/`, `?`, `&` and
  `=`, URL decoding, and the ways a client may spell a target.
* `HttpServer` is one connection's keep-alive loop, from the client's bytes to the
  responses: parsing through `HttpText`, middlewares, and `dispatch` with `Router`
  stepped route by route. The bytes come in units, each numbered by its request and
  its place in it; `at` is the one that comes next. Methods come in capitals or not. It takes from `Connection` what is
  checked there.
* `WebSocket` is the handshake and the frames byte by byte, with bytes of as few
  bits as the configuration likes, so that the formats of 7, 16 and 64 bits have
  boundaries that can be reached. `wire` is what has arrived and `taken` how much of it
  was read; the histories `starts` and `at` tell where frames begin, of the client and
  of the server. `^` is the constant `BitXor`, of which only the law that a mask can be
  undone is assumed; a run gives it the operator of the library.
* `ChatRoom` is the handler of `/ws` for several clients on several threads. A frame
  is two units, so that the send buffer can be full in its middle. Where `wait_event`
  is called on the scheduler of another thread while a coroutine runs there, the
  program's behaviour is undefined and the model stops (`foreign`). The history `turn`
  numbers the broadcasts in the order in which they take the mutex.
* `MC*` give the constants values; `*Proofs` hold the theorems.

How they fit together: `Scheduler` lets any number of coroutines wait on one descriptor.
`TcpServer`'s `OneOwner` gives each connection to one coroutine (`ExclusiveFds`), and then
nobody disturbs a waiter (`Undisturbed`); the chat room lets others write to it, which is
where its findings come from. `Connection` has a reader and a writer on one descriptor
likewise. `HttpServer` and `WebSocket` read from a stream that `Connection` keeps whole.
`Channel` has its own ready queue, since `send` and `recv` touch no other part of the
scheduler.

## Runs

Passing runs:

| Run | Instance | Shows |
| --- | --- | --- |
| `scheduler` | 2 coroutines that share a descriptor, one of them with another, 2 posters, pipe of 1, `evs[]` of 2, largest int 1, clock to 2, `EPOLL_CTL_ADD` and `epoll_wait` may fail | `OnePlace`; no lost wake-up or post; no coroutine lost, unarmed or left by `~Scheduler`, unless it was replaced or cut off, or its ADD refused; no sleep past a timer, timers in order, implements Executor; what is posted, asleep or ready in epoll runs |
| `multi_scheduler` | 3 schedulers, 3 callers, 13 posts | even turns; each task where it was dealt to |
| `channel` | a pipeline of 3 coroutines and 2 channels, created in any order, 3 sends on each | nobody stranded, send returns after recv, implements Rendezvous, sends return |
| `tcp_server` | 3 clients, 2 schedulers, 2 numbers | one owner per number, own socket; clients are served unless all numbers leaked |
| `connection` | 3 bytes in, 3 out, chunks and buffer of 2, delimiter of 2 bytes, `read_exact` of 0 and 2 | streams intact in both directions, calls get what they asked for; reads return, while reader and writer were not both suspended |
| `websocket` | bytes of 3 bits (lengths 0 to 1 in 7 bits, up to 63 in 16, limit 66), masked and not, needlessly long forms, all cuts, 3 kinds of handshake key | frames received as sent, replies readable; every frame handled, the handler ends |
| `http_server` | all pairs of 7 kinds of request, followed by a plain one; a Content-Length beyond int; targets in all spellings; routes of `main()` and 3 that overlap; 1 middleware | answers in order, bodies not taken for requests, fields as meant, right handler and parameters; nothing read, handled or answered behind a request that ends the connection, whatever became of it; the coroutine ends |
| `chat_room` | 3 clients on 2 threads, buffer of 3 units, frames of 2 | pointers valid, broadcasts not torn, everybody hears, each client in the order in which the mutex was taken and nothing twice |

Why the bounds are enough: two posters and a pipe of one reach the full pipe, a
byte dropped and a post between read and swap; two waiters and the pipe do not fit
into an `evs[]` of two; two deadlines and two ticks reach equal and different
deadlines, and a largest int of 1 cuts the longer one; three callers and 13 posts go
more than four times round; the middle of the pipeline is blocked as a receiver and
as a sender, with fast and slow paths on both sides; fewer numbers than clients are
closed and given out again with tasks that hold old ones, and run out; three bytes
hold a delimiter of two bytes at every place, two that overlap, and one that is left
over behind an earlier call, cut by chunks of two and of one; three bytes out and a
buffer of two suspend the writer in every state of the reader; two coroutines on
one descriptor of the scheduler replace, change and delete each other's registration in
every order, so that all branches of `wait_event` are taken; payloads lie on both sides of every boundary of the length, and a
second frame shows what the first leaves to it; so does the second request of a
dialog; two characters of a field hold every pair of the special ones, a `%` at the
end and one with a single digit behind it; a buffer of three units fills in the
middle of the second frame. What the small instances of most modules say of safety
is proved for all instances (below).

Runs that end in a violation, one per disagreement between the code and what the
repository says of it (`findings` in `PROJECT.json` has the quotations):

| Run | What the code does |
| --- | --- |
| `tcp_leak` | descriptors of clients that disconnect first stay open |
| `http_truncated` | a request cut off by a hang-up reaches its handler |
| `room_foreign` | a broadcast enters another thread's scheduler |
| `room_deadlock` | a suspended broadcast holds the mutex its thread needs |

Further disagreements that TLC finds with these modules, without a configuration
of their own here:

| Property | Instance | What the code does |
| --- | --- | --- |
| `SleeperRuns` | `scheduler.cfg` under `FairSpec` | a coroutine that goes on yielding starves timers |
| `LoopCondition` | `scheduler.cfg` | `run()` polls every 50 ms for ever, with nothing to wait for |
| `InRange` | `multi_scheduler.cfg` with `MaxPosts = 16` | the index is negative after 2^31 posts (here 16) |
| `NobodyStranded` | `Channel` with two senders on one channel | the second sender overwrites the first |
| `OnlySent` | `http_server.cfg` | a Content-Length beyond int counts as none, and the body is read as a request |
| `ReadResumes` | `connection.cfg` | a writer that waits for its buffer takes the place of the reader of the same connection in `waiting_map`, and the reader never goes on (`connection.h:45`: "数据就绪后恢复", resumed when there is data) |
| `ReaderWakes` | `room_deadlock.cfg` | a broadcast replaces a reader in `waiting_map` |
| `FramesIntact` | `chat_room.cfg` | the reply to a PING lands inside a suspended broadcast |
| `LatestList` | `room_foreign.cfg` with `SndBuf = 20` | an older user list is broadcast last (`main.cpp`: "附带最新用户列表", with the latest list) |

## Fairness

* `Scheduler`: the operating system runs the threads and the clock (WF); each
  descriptor that `epoll_wait` can report again and again is reported in the end (SF),
  since signals do not interrupt it for ever and what did not fit into `evs[]` stays at
  the head of epoll's queue; and a coroutine that has the thread gives it up: the
  scheduler is cooperative and cannot force it. `CooperativeSpec` adds that a coroutine
  does not come back with `yield()` each time; without it `SleeperRuns` is false. An
  error of `epoll_wait` ends `run()`: the promises hold until then (`Stopped`).
* `Channel`: besides the thread, receivers go on receiving (SF).
* `TcpServer`: the threads run; `accept()` does not fail for ever while it could
  succeed (SF); every handler ends in the end, and its frames are unwound, which is
  the client's decision. A descriptor that leaks is never given back, so `Served`
  excepts the state in which all have leaked.
* `Connection`: the two coroutines go on when they have the thread, and a descriptor
  that is armed and pending is reported (WF each); nothing of the peer. `ReadReturns`
  excepts two cases in which the code forgets the reader: it and a writer were suspended
  at the same time, or epoll refused the descriptor.
* `HttpServer`, `WebSocket`: only that the coroutine is resumed; nothing of the peer.
* `ChatRoom` is checked for safety only: `room_deadlock` shows that its threads may
  stop.

Configurations say `CHECK_DEADLOCK FALSE` where the system comes to rest: clients
that have nothing more to do, connections that ended, a bound that is reached.

## Proofs

All theorems hold for every value of the constants that the named assumptions allow.

* `SchedulerProofs`. The invariant `Placed` says of each coroutine, by its state, the
  one place that holds it (queued, on the thread, awaiting a descriptor, asleep,
  posted, or on its way back through a `wait_event` frame). `OnePlace` alone is not
  inductive: it does not say that a `WAITING` coroutine with no map entry must be
  asleep, nor that a fresh one is nowhere. None of the theorems but `UndisturbedAlways`
  needs an assumption beyond the module's.
  `WaiterIsArmed` is inductive with one fact more (`Armed`): there are reports in hand
  only while they are handled, so that a new batch drops none. `NoLostCoroutineAlways`
  and `NothingLeaksAlways` rest on `Held`: who suspends is held by the structure that its
  frame names, until another coroutine takes its place there. The three make exceptions
  for coroutines that share a descriptor, which the code does lose (`ReadResumes` and
  `ReaderWakes` above); `UndisturbedAlways` shows that under `ExclusiveFds` these do not
  occur, and all that is left is a refused ADD.
* `MultiSchedulerProofs`. `InRangeAlways` and `BalancedAlways` assume that the bound
  on posts does not exceed the largest int (`Fits`); beyond it `InRange` is false.
  `NothingLostAlways` needs no such bound.
* `ChannelProofs`, for one coroutine at each end of a channel (`SingleEnds`).
  `NobodyStranded` is inductive with `OwnSlots`: who overwrites a slot is the coroutine
  that was in it. `SyncOnReturn` follows from `Sync`, which says of each suspended
  sender where its value is (taken; in the frame of a receiver that runs first; or in
  the slot), and which needs `Once`: nobody is queued twice, so that the order in the
  ready queue is the order of running. `ImplementsRendezvous` adds `Linked`: which frame
  points into a slot, and which of the abstract queues its coroutine is in.
* `HttpServerProofs`. `AnswersInOrderAlways`: from `Ordered`, the calls of handlers are
  fresh, without gaps and in the order of the requests. `InStepAlways`: `Aligned`, the
  stream is between two units, and when a request is to be read it is before the first
  unit of the one after the last that was answered. `NothingAfterEndAlways`: `AsSaid` and
  `NoRefusal` follow the client's wish from the header to the end of the loop, and `Stays`
  says that all requests in front of the one under way keep the connection. It rests on
  `NoneSkipped`: no request is passed over, so that each of them has gone round the loop,
  whatever was done about it. `RightHandlerAlways`: `Tried`, `Chosen` and `Told`, with the loop invariant
  of `Route::match` at every route that is tried. `RightAnswerAlways` and
  `RightParamsAlways` are about `Route::match` itself (`Router`), for all patterns and
  paths: everything before `ri` agrees and is bound; `MatchedRightAlways` says the same
  of the server, which matches again and again.

  What a handler gets is what the client meant: `AsMeantAlways` rests on `SaidAsMeant`,
  which is about one request and all of parsing. It follows the client: what it escapes
  is decoded (`DecodedAsWritten`; a text that is sent bare decodes to itself), a
  separator that the client put in is the only one of its kind where the parser looks,
  since escaping leaves none, so the pieces that come out are the segments and fields
  that went in (`SaidPath`, `QueryRead`), and the header lines that are skipped carry
  neither of the two names that are asked for (`SaidKeep`, `SaidLength`).
  The operators are recursive functions. A function over `1 .. Len(s) + 1` that is
  defined by its later values exists and is unique, which `WalkExists` proves once, and
  what it yields for every text is proved by supposing a least text, or a least suffix,
  for which it is false: `Least`, from the well-foundedness of `<` on the naturals.
  `ClientAssumption` says which requests clients write (any texts; names without `/`; a
  body has a length), `NumeralAssumption` that a number has one spelling. TLC evaluates
  both on the clients of the runs.
* `TcpServerProofs`. `OneOwner` and `OwnSocket`, which are inductive only together: a
  closed number has no other owner because there was only one, and a number that
  `accept()` hands out has none because an owner's number is in use.
* `ConnectionProofs`. Type correctness, `StreamIntact`, `CallsHonoured` and
  `WireIntact`, for any alphabet, delimiter and sizes; the strengthening is on the
  writer (`WriterOK`: a call under way has something left to send, and, with `Behind`, whoever
  the map entry names is suspended for it).
* `WebSocketProofs`. `Received` and `RepliesReadable`, for bytes of any even number of
  values from 6 on, any limit, and clients that send any frames. `Received` alone is not
  inductive: it does not say where in the stream a read begins. `Streamed` says that the
  bytes which arrived are the frames of the script, one behind the other, `Placed` that
  each call of `read_exact()` begins at the field of the frame that it is about and what
  the fields before it have told, and `Returned` what was returned. `Replied` does the
  same for the other direction: a frame in `out` is whole and begins where the one
  before it ends, or a write has failed and no frame from there on ends. Both use
  `NumberRead`, that a length of two or eight bytes is read as it was written, and
  `ReplyIs`, that the server's frame is the one a client would send in the shortest form.
* `ChatRoomProofs`. `NoDangling`, `BroadcastsIntact`, `EverybodyHears` and `SameOrder`,
  for any clients, threads, scripts and buffers. The invariant has six parts: types; `Placed`
  (a handler's place in its code and its membership agree); `Awaited` (who is named in
  a `waiting_map` waits, for one descriptor); `Exclusive` (a suspended broadcast still
  holds the mutex, and its iterator is inside the list); `Wires` (what a broadcast
  sent so far, and to whom); `Numbered` (what is on a wire is older than
  the broadcast under way, and that one than `turn`). The mutex across the suspension is what makes these hold,
  and what makes `NoSelfDeadlock` fail. The model stops when a thread enters a foreign
  scheduler, so the theorems speak of the time before.

Every invariant and every safety property of the passing runs is one of these theorems.
Only model-checked is what speaks of fairness, which the prover does not do:
`PostedRuns`, `SleeperRuns` and `WaiterRuns` of `Scheduler`, `Delivered` of `Channel`,
`Served` of `TcpServer`, `ReadReturns` of `Connection`, `EveryFrame` and `HandlerEnds` of
`WebSocket`, and `Ends` of `HttpServer`.

## Not modelled

* Contexts and stacks as memory; errors of the constructors, `bind` and `listen`,
  which end the program before anything runs; `~TcpServer`, which runs after the
  threads have ended.
* An overflow of `now_ms() + ms` in 64 bits.
* A refused `EPOLL_CTL_ADD` outside `Scheduler` and `Connection`: what the runs of
  `TcpServer`, `HttpServer`, `WebSocket` and `Channel` say of progress presumes that epoll
  takes each descriptor and that nobody else waits on it, which are the conditions of
  `ReadReturns`. A `MOD` of a descriptor that is in epoll is taken to succeed.
* `Connection::read` called directly, which would pass over `read_buf_`, and move
  assignment: nothing in the repository uses them.
* A request line in which a prefix of the previous body contains blanks; a raw `+` in a
  path, which becomes a blank, and `%2F` in a segment, which separates segments, are
  outside the spellings a client uses here. Chunked bodies, which the parser does not
  know.
* Headers and texts of responses, `HttpResponse::send()` without a Content-Length
  (unused). A handler that throws after it has answered, which no handler of `main.cpp`
  does and which `send_error` would answer a second time. The reading of files.
* The hash of the handshake: it is a function without collisions.
* The page in `static/`, scripts and the build. The README's Database has no source.

Noted while reading, without a run: fragmented WebSocket messages are taken frame by
frame (`main.cpp:86`); frames without a mask are accepted; after CLOSE or a refused
frame the connection returns to the HTTP loop (`main.cpp:81`); what a client says is
put into JSON unescaped (`main.cpp:89`); `accept_loop` spins when no descriptor is
left; `/static/*` does not match `/static/`, since the wildcard needs a segment;
`test/bench.sh` asks for `/ping`, and the server has `/api/ping`.

## Plan

Done, in this order: Scheduler with its proofs, MultiScheduler, TcpServer, Channel,
Connection with its proofs, ChatRoom, Router with its proof, HttpServer; then
WebSocket, the text of HTTP requests, the scheduler's shutdown and errors, and the
proofs of TcpServer, Channel and ChatRoom; then the refinement of Rendezvous, the order
of broadcasts and the proofs of HttpServer and WebSocket; last the proofs about the text
of requests.

Left:

1. A composition of TcpServer, MultiScheduler and Scheduler that derives the assumption
   `ExclusiveFds` of `UndisturbedAlways` from `OneOwner`.
2. Liveness of ChatRoom for clients that do not fill each other's buffers.
