# thunder-rs in TLA+

thunder-rs is a server library in Rust: a WebSocket server (frames, fragments,
Ping and Pong, closing, rooms) and an HTTP router with static files and
middleware, on one port, over tokio and Hyper. The crate is
`src/src/thunder-rs`; paths below are relative to it unless they begin with
`src/`.

These modules model what its tasks do to the state they share, TLC checks them
on small instances, and TLAPS proves every safety property that a passing run
checks, for every number of tasks, frames, rooms, routes and middlewares.

    tlc -config FrameWriterAll.cfg MCFrameWriter     # one run
    tlapm Rooms_proofs.tla                           # one module of proofs

`PROJECT.json` lists the runs with their modules and configurations, a mutation
of the model for each checked property that the run detects, the source lines
every definition stands for, the hazards of the code, the findings and the
theorems.

## The system

| Component | State | Operations | Shares it with |
|---|---|---|---|
| Server (`server/server.rs`, `server/parser.rs`) | none of its own; one task per TCP connection | accept, `peek`, choice between WebSocket and HTTP by the request line | the client, both servers |
| WebSocket server (`ws/server.rs`, `ws/handshake.rs`) | `connections`: a table id -> socket behind one lock; callbacks | handshake, `handle_ws`, `on_connect`, `close_connection`, `..._with_delay` | connection tasks, tasks of the application |
| Socket, sending (`ws/frame.rs`, `ws/socket/write.rs`) | the writer half behind a lock | `send`, `send_large`, ping, pong, Close | any task that has the socket: callbacks, broadcasts |
| Socket, reading (`ws/frame.rs`, `ws/socket/read.rs`) | the reader half behind a lock; the fragments and the decoder are local to a call | `read`, `read_frame`, `handle_close_frame`, `handle_error_close` | the serving loop; `internal_close`; whoever else reads |
| Socket, closing (`ws/socket/socket.rs`) | `clean_status`; both locks | `close`, `internal_close`, `perform_close`, `shutdown_stream`, `status` | all of the above |
| Rooms (`ws/socket/room.rs`) | a map room -> members behind one lock | create, remove, join, leave, list, broadcast (two forms) | the callbacks of all connections |
| Reconnection (`ws/socket/socket.rs`) | a channel of commands; both halves of the socket | `send_command`, `handle_commands`, `reconnect` | readers and writers of the socket |
| HTTP router (`http/routes.rs`, `http/stfile.rs`) | the table of routes, fixed when the server starts | `add_route`, `router`, `serve_static`, `handle_http` | requests, which only read it |
| Middleware, headers, CORS, data (`http/routes.rs`, `http/server.rs`) | per request: its body, `data`, the `Res` that comes back | `call_last`, `NextWrapper`, `get_data`, `set_data`, `process_body`, `create_response`, the merge of headers | the middlewares and the handler of one request |

How they interact: `Server::start` accepts, peeks at the first bytes and hands
the connection to `perform_handshake` and `handle_ws`, or to Hyper, which calls
`handle_http` for each request. `handle_ws` makes a `Socket`, puts it in the
table and calls the application's callback, which as a rule spawns a loop around
`Socket::read`. Callbacks put sockets in rooms and broadcast; a broadcast takes
the lock of the rooms and then, member by member, the writer lock of each
socket. A close takes the writer lock for the Close frame, perhaps the reader
lock to wait for the client's, then the writer lock and inside it the reader
lock to shut the stream down. `close_connection` does all of that under the lock
of the table. `reconnect` puts the halves of a new connection in the place of the
old ones, under the same two locks, while all of them go on. `handle_http` finds
the route of a request, takes the request through the route's middlewares to the
handler, and the answer back through those that wait for it, and merges headers.

What is hard about it:

- **Interleaving.** The writer lock is taken per *frame*, not per message; the
  reader lock per *header* and per *payload*. What keeps messages whole is who
  calls, not the locks.
- **Locks kept over awaits.** Broadcasts keep the rooms lock and
  `close_connection` the table's while they wait for clients.
- **Look, then act.** `create_room` looks and inserts under two guards.
- **Failure halfway.** A client that goes away in the middle of a message, of a
  broadcast, of a close, of the handshake; a directory that is refused at a file
  in its middle; an error or an early answer in the middle of a chain.
- **Ordering.** Close frames, shutdown and status; first match in the route
  table against registration order; broadcasts at several members; a middleware
  is given a function *and* what that function goes on with, twice over for a
  chain in a chain.
- **Replacement.** `reconnect` swaps a half of the socket for another while tasks
  wait for its lock, and the two halves one after the other.
- **Retry.** The delay between two attempts doubles up to a maximum that also ends
  them.
- **Sequences.** Fragments with control frames between them; text that is UTF-8
  only over several fragments.
- **Liveness.** Nothing has a timeout: what returns, returns because a client is
  polite.

What makes each part correct: a client can put together what it is sent, in the
order in which one task sent it (sending); a sequence of frames that is no
sequence of messages is rejected, one that is goes through, and nothing is lost,
doubled or left unanswered (reading); what `close` and `status` report is what
happened to the stream, and
no order of the locks blocks (closing); one order of broadcasts for all, to the
room as it was (rooms); each connection goes where it should, whole, and is
closed once (server); both halves of a socket are of one connection, and nobody
works on a half that was replaced (reconnection); the first route that has path
and method answers (router); the handler runs after all middlewares and only if
they let it, with the newest data, and what CORS and the handler set is in the
answer (middleware).

## Modules

| Module | Models | Checked by | Proved in |
|---|---|---|---|
| `MessageChannel` | abstract: a connection as a channel of whole messages | through `FrameWriter` | |
| `FrameWriter` | `send`, `send_large`, `send_frame_inner`, broadcasts as far as one connection sees them, and a client that reassembles | `frames`, `frames_mixed` | `FrameWriter_proofs` |
| `RoomRegistry` | abstract: a map of rooms with atomic operations | through `Rooms` | |
| `Rooms` | every operation on the rooms, lock by lock | `rooms`, `rooms_create_race` | `Rooms_proofs` |
| `FrameReader` | header and payload reads, fragments, validation, Ping, error codes, Close payloads | `reader`, `reader_pong` | `FrameReader_proofs` |
| `SocketClose` | the serving loop, `close`, `internal_close`, senders, two locks, a client with a window | `close`, `close_status` | `SocketClose_proofs` |
| `Reconnect` | `send_command`, `handle_commands`, `reconnect`, beside a serving loop, senders and closers | `reconnect` | `Reconnect_proofs` |
| `ThunderServer` | accept, peek, handshake, table, callbacks, `close_connection` | `server` | `ThunderServer_proofs` |
| `HttpRouting` | `router`, `serve_static`, the loop of `handle_http` | `http`, `routing_others` | `HttpRouting_proofs` |
| `Middleware` | chains of middlewares, CORS, the data of a request, `process_body`, headers on the way back | `http` | `HttpServer_proofs` |
| `HttpServer` | composes `HttpRouting` and `Middleware`: a request from its route to its response | `http` | `HttpServer_proofs` |

Each `MC*` module holds the instances of one module for TLC.

### State and actions against the code

**FrameWriter.** `call[t]` is the stack frame of a call: `lo`/`hi` are the chunk
of `send_large` and `pos` the `start` of `send_frame_inner`. `WriteFrame` is one
turn of its loop: the slice, FIN and opcode, the writer lock, `write_all` and
`flush`. The lock is held for the whole of that, so the step is atomic; between
two steps any other task may write. `Frame` keeps of a header what a decoder
needs: FIN, opcode and the part of the payload. `Receive` is the client, with
the rules `read_frame` applies to the client's frames. Tasks come as
*direct* (they call `send` themselves), *broadcast* (under the rooms lock) and
*control* (Pong and Close, never more than one frame).

**Rooms.** `holder` is the task that keeps the lock over an await: only a
broadcast does. Operations without an await are one step; `create_room` is two,
`CreateLooks` and `CreateInserts`. `SendFails` ends a broadcast as the code does:
`unwrap` in `broadcast_to_room` (the task panics, its guard is dropped),
`return Err` in `broadcast_json_to_room`. A client that has gone may swallow
writes before one fails. Nothing removes it from its rooms, as in the code.

**FrameReader.** `stream` holds headers and payloads, the two units a reader
lock protects. A payload is a class (`Bodies`): empty, whole, the head or the
tail of a character, longer than 125, or a kind of Close payload. What the code
asks of a single frame (its opcode, its key, the length of a Ping) is in the
actions; the property `SequenceJudged` is about how frames follow each other, by
the rules of RFC 6455 for fragments and text, and speaks of frames to which
neither the code nor the RFC objects (`Ordinary`). `message[t]`
is the buffer of fragments of one call of `read`; `Decoder` is the UTF-8 decoder
as `read` uses it. A second reader may begin at any time; when one takes the
half of a frame that belongs to the other, `torn` is set and the model stops:
what a payload says when it is taken for a header is not modelled. The
properties speak of a connection one task has read (`Alone`), and for two
readers of the type and of what the tear does not touch.

**SocketClose.** `pc` follows a task through `perform_close`: `write`/`writing`
(the Close frame), `read`/`receive` (the wait of `internal_close`), `shutdown`/
`shutting`/`closing` (`shutdown_stream` with its two locks), `store`. The
serving loop is the same program with other branches (`ReaderGets`). A Ping
outside of a message is answered by `read`, whose error leaves the connection as it
is; one between fragments ("inner ping") by `read_frame`, for the loop and for the
wait of `internal_close` alike, and if that fails the loop closes with 1011 and
`internal_close` returns an error (`AfterInnerPong`). `Window`
is what the client has not read: a write waits while it is full. Codes are
*early* (1002, 1003, 1007, 1009, for which `perform_close` returns before the
wait and the store) or not. A whole frame is one read here.

**ThunderServer.** A request comes in pieces; a piece is the set of the parts it
completes (request line, the two headers, the end); a cut inside the value of
`Sec-WebSocket-Key`, whose first half the handshake would answer, is not among
them. The application is one that has an `on_connect` callback. `Peek` sees any prefix of
what has come and decides, `PeekFails` when the connection is gone, whatever had
come; `Handshake` reads once and decides. The close of a
socket under the table's lock is one step, with the condition under which
`SocketClose` lets it end: while the serving loop sits in a read it holds the
reader lock that the shutdown wants.

**HttpRouting.** The table is filled by `Router` and `ServeStatic` in any order,
then fixed (`Start`: the server goes behind an `Arc`). `ServeStatic` adds the
routes in the order of the code: pages while the directory is listed (in any
order), the favicon, style sheets and scripts that pages refer to (from hash
sets, so in any order), the URL itself, the other files. `TryRoute` is one turn
of the loop of `handle_http`, with its shortcut for `/static`. A request that
is answered by a route is handed on to `Middleware`.

**Reconnect.** Connections are numbered as they are opened; `readHalf` and
`writeHalf` are the numbers of the halves that the socket's two fields hold, and
`on[t]` the half a task has under its lock: what counts is the half that is in its
place when the lock is *got* (`LockReader`, `LockWriter`). `Handles` is the task of
`handle_commands`: `Connect` or `ConnectFails` and `Wake`, with the delay and the
test of it in the order of the code, then `SwapReader` and `SwapWriter`, each
under a lock that is given back at the end of its statement. `SendCommand` is
`try_send`. The loop, senders and closers have the order of locks of
`SocketClose`: the writer for a frame, the writer and inside it the reader for a
shutdown. A frame is one read and one write here, and whether a connection is
shut down is left to `SocketClose`.

**Middleware.** A `NextWrapper` holds one function; a function is "go on behind place
`at` of this chain, then with that function", so it is the sequence of such
places, `<<>>` for the handler. `func` is the function in the wrapper that the
current middleware is given, or that is being called, and `given` what is in the
wrapper handed to it. `CallLast` is `call_last`; `HandleChain` is the `handle` of a
chain, which makes a wrapper around the function it was given itself.
`UserMiddleware` is any code of an application that uses this interface: it may
take the data, set it, and go on with its wrapper, go on with
`NextWrapper::default()`, answer, or fail. Data that it sets "fit" when they are a
`String` or JSON and the handler's type can be made of them under the request's
content type (`extract_request_data`); in place of others the handler gets the
default of its type. `CorsMiddleware` looks at method,
requested headers and origin on the way in and, through `awaiting`, sets its
headers on the way back, innermost first. `CallHandler` is the wrapper that
`add_route` puts around a handler: `process_body` first. `Finish` merges the headers
of the response with those of `Res`, and makes a bare 500 of an error.

**HttpServer.** `Register` is a call of `router` with a middleware or with `None`;
`RegisterFiles` gives each route of a directory `default_middleware`, alone, where
it does no harm. `Search` is the loop of `HttpRouting`, `CallRoute` the call of the
handler it found, with any headers and body, `SendResponse` the end of a request,
whose state goes with it. Requests share nothing but the table, so one request at a
time stands for all.

## Runs

The instances are small, and TLC explores each completely.

| Run | Instance | Shows |
|---|---|---|
| `frames` | one direct task, two broadcast tasks and one that answers Pings; payloads of none or three frames of 2 bytes, `send_large` with chunks below and above a frame; 2 calls each; in each behaviour the data come from the direct task or from broadcasts | the client decodes everything, in order; every call and every broadcast returns, also on a broken stream; the connection implements `MessageChannel` |
| `frames_mixed` | two direct tasks, payloads of two frames | violation: a text frame inside a fragmented message (see Findings) |
| `rooms` | three connections, one room, one creator, one client that may leave, two broadcasts | one order for all, audience frozen, all members reached, `create_room` replaces nothing, the map implements `RoomRegistry`, every operation returns |
| `rooms_create_race` | two connections that both create | violation: the second insert replaces a room with a member |
| `reader` | two readers, three frames of seven legal kinds, eight that the code refuses for themselves and Pong, ends and resets anywhere | whatever the frames, those that break the order of fragments or leave a text that is not UTF-8 end the connection, and ordinary frames in sequence never do; nothing is lost, Pings are answered once and in order, everything is read |
| `reader_pong` | a Pong between fragments | violation: the connection is failed |
| `close` | serving loop, `internal_close` (early and not), a sender; two frames of any kind, a Ping inside a message among them, window of one | no open connection is left behind, Ok means shut, the status and the shutdown come in their order, no deadlock of the two locks, every Close is answered |
| `close_status` | a bad frame | violation: `status()` still says clean |
| `reconnect` | the serving loop, a sender, a closer; two Reconnects in a channel of one, up to three connections, one frame of the client, delays up to 60 s | the halves come to be of the newest connection and nobody works on a replaced one, a reconnect that finds nobody gives up in time, the locks and the swap stop nobody for ever |
| `server` | two clients, five requests in pieces cut before, between and behind the lines that count, two closers | a close happens once and takes effect for all that asked, everyone is served, the table's lock stops nobody for ever |
| `http` | 10 paths, two routes of the application before, behind or around the static ones, a directory with five files or one with a refused file; one route with one of six chains (empty, with `default_middleware`, with two CORS middlewares, with a chain in it), a middleware or CORS alone; two origins, lengths below and above the limit | the first fitting route answers, 405 and 404 are exact, pages and what they refer to are reachable; middlewares come in order and the handler last, headers arrive, the handler gets the newest data |
| `routing_others` | a page and a text file | violation: the text file's URL gives the page |

Bounds, all named in the modules: `MaxLen`, `MaxCalls` (a task needs a second call
to follow a broken first one; five bytes make three frames of two, so a first, a
middle and a last), `MaxBroadcasts` (two are enough for a wrong order),
`MaxFrames` and `MaxUnread` (three frames hold a beginning, something in
between and an end; one unread frame lets the client run ahead of the
reader and keeps the order of arrival), `Window` (one frame: writes do block),
`MaxRoutes` (two routes of one path with different methods or shapes, before,
behind and around the static ones), `MaxCommands` (two Reconnects: the second waits
in the channel while the first is carried out, or is refused), `MaxOpened` (three
connections: a swap, and another of what was swapped in), `Alone` and `Plain` (a
route with middlewares stands alone in its table, and other tables get requests
without origin, length and body: routing does not look at these, and the
middlewares do not look at the table). `DisciplinedSpec` keeps `frames` to the
discipline under which the messages stay whole; `frames_mixed` is what happens
without it. The theorems have none of these bounds where
there is one for the property.

`CHECK_DEADLOCK FALSE` stands where the system may come to rest: the calls of
tasks and the client's frames are bounded and tasks finish, panic or sit in a
read of a silent client. `http` and `routing_others` check deadlock: the
server takes requests for ever. That nobody waits for a lock in vain is stated
as liveness instead (`EveryCallReturns`, `EveryOpReturns`, `ClosersReturn`,
`CloserReturns`, `CallsEnd`).

### Fairness

- Tasks that can go on are polled: tokio's scheduler. `tokio::sync::Mutex` is a
  FIFO queue, so a task that waits for a lock which is given back again and again
  gets it: strong fairness for the step of a task as a whole (`SF`), where locks
  are waited for; weak fairness for a reader, which waits for bytes.
- Nothing makes a client send, read or leave; the code has no timeout. Liveness
  of closing is stated for a *polite* client, a separate conjunct of the
  specification (`PoliteClient`, `PoliteClients`): it reads what it is sent and
  ends or answers after a Close. `EveryOpReturns` assumes that a send to a
  member ends, with or without success. `EveryCallReturns` assumes that the
  client reads: the write is one step. `CallsEnd` assumes `ConnectionsEnd`: each
  connection ends at some time by itself, because nothing in the server ends a
  read of a silent client, and a Reconnect waits for such a read.
- A Reconnect that was taken out of the channel goes on (`SF` of `Handles`), which
  includes that its sleep ends and that connecting succeeds or fails.

## Proofs

Assumptions are the named `ASSUME`s of the modules (sizes are positive where the
code divides or loops by them, the kinds of tasks are disjoint, `Null` is no
task, a chain is made of middlewares, the names of constant segments begin with no
colon, headers are sequences of sets of items) and, for eight theorems, what the
application does:

- `Discipline` (`Decodes`, `Refinement` of `MessageChannel`): who may send at once;
  `frames_mixed` shows what happens without it.
- `OneCreator` (`CreatesOnlyMissingRooms`, `Refinement` of `RoomRegistry`): one task
  creates rooms; `rooms_create_race` shows the other case.
- `NumberedRoutes` (`HandlerComesLast`, `HeadersCarried`): the middleware of a route
  is a single one, a chain of them, or a chain of such chains, and they carry the
  numbers by which the properties name them, in the order of the chains. Chains of any
  length; a third level of chains is left out.
- `OrdinaryNames` (`FilesFound`, `ServerFiles`): no file is named with a colon in
  front, which would make a placeholder of its route, or with `..` in it, which
  `handle_http` answers with 400.

- **FrameWriter_proofs.** `Typing`. `Decodes` and `Refinement` (of
  `MessageChannel`) under `Discipline`: no payload needs a second frame, or one
  task sends all the data of the connection, or all is sent under the rooms lock.
  The invariant `IInv` says what the client's decoder holds: between two
  messages nothing, inside one exactly the part of a payload that its sender has
  written, and (`Exclusive`) no second task is inside a payload then. `CallOK` is
  needed for the chunks of `send_large`: a chunk begins where the last one ended.
  `InOrder` (`DeliveredInOrder`) needs no discipline: `OrderInv` says that all that
  was decoded from a task lies before what the task has yet to write.
- **Rooms_proofs.** `Typing` (with: the lock is held exactly by who broadcasts).
  `Ordered`: the invariant bounds every number in every inbox by `broadcasts`,
  and strictly below the running broadcast's for members it has still to reach.
  `CreatesOnlyMissingRooms` and `Refinement` (of `RoomRegistry`) for one task
  that creates rooms: its room stays missing between looking and inserting.
  `Frozen` and `Reached` (`AudienceFrozen`, `ReachesAll`) rest on
  `StepsDuringBroadcast`: while a task is inside a broadcast, no step but its own
  touches the rooms or an inbox of its audience.
- **FrameReader_proofs.** `Typing`, for any readers and frames. `ReaderInv` is about the
  whole sequences of results and answers;
  `Reaction` says what any answer to a frame may change, and each branch of the
  match in `read_frame` is shown to be one. `Sequencing` (`SequenceJudged`),
  `Reassembly` (`NothingLost`) and `Answering` (`PingsAnswered`) speak of all that one
  task has read, for histories of any length, from one invariant, `HistoryInv`: while
  the task reads on, what it took is what the code lets pass (`Passes`), its buffer
  holds what the sequence says is open, the Pings are the Pongs, and what it delivered with the
  buffer is the data it took (`Quiet`); once it has stopped, its last result is an
  error if a frame did not pass, and otherwise only at the end of the stream or with
  the code 1011 (`Stopped`). None of the three is
  inductive without the others: which error a continuation gets hangs on the
  buffer. `Accepts` is the test of one frame against that buffer, and `Verdict` compares
  it with `Passes`, which reads the whole sequence. The code's `Passes` and the
  `InSequence` of the RFC are two things: `PassesInSequence` says that what passes is
  in sequence, `SequencePasses` that ordinary frames in sequence pass.
- **Reconnect_proofs.** `Typing` with the two locks, `OneConnection`
  (`HalvesAgree`), `GivesUp` (`WaitsBounded`). `Halves` adds where the swap is: the
  reading half is of the newest connection once `SwapReader` is done; `Backoff` ties
  what was slept to the delay: one less than the delay as long as that is below its
  maximum, as in 1 + 2 + 4 = 8 - 1.
- **ThunderServer_proofs.** `Typing`, `OneCloses`, `CloseWorks`, for
  any clients, requests and closers. The invariant ties the table to the history
  `closes`: a connection that was put in the table is there exactly as long as no
  closer has had it, and once one has, the connection is shut down, or its client
  gone, or that closer is still at it. The last case is why the table's lock
  matters: a closer that finds the table without its connection has the lock free
  before it, so nobody is still at it.
- **HttpRouting_proofs.** `Typing` and `FirstRouteAnswers` (`RoutesExactly`) for
  tables of any length. `Searched` is what the loop of `handle_http` knows at its
  `n`-th turn: no route before `n` has path and method, and the flag for 405 is set
  if and only if one of them has the path. `FilesFound` (`PagesReachable`) for any
  directory in any order of listing: all that `serve_static` adds in front of the URL
  are routes in the root that take requests for their own file only (`RootFirst`,
  `OwnFile`), so between a file's route and the beginning of the table only routes
  of the application can take its requests (`SiteInv`), and the first match decides.
- **HttpServer_proofs.** `ImplementsRouting`: the composed server, its `Middleware`
  hidden, is an `HttpRouting`, so `ServerRoutes` (`RoutesExactly`) and `ServerFiles`
  (`PagesReachable`) need no proof of their own.
  `HandlerComesLast` (`HandlerLast`): `RequestInv` says where in its route a request is,
  from what `func` and `given` hold: at a place of the outer chain, or at a place of a
  chain at such a place, or behind the last one; how many middlewares lie before that
  place is how many ran, and all CORS middlewares among them have admitted the
  request. `HandlersData` (`DataFlows`) for any middlewares: `DataInv` ties `body` and
  `data` to who read and who set last.
  `ServerTyping` (`ServerTypeOK`), for any middlewares: `MethodInv` is why the request of
  a route has a method that `HttpMethod` knows, and `JoinedItems` why the merge of two
  lists of values is one.
  `HeadersCarried` (`HeadersArrive`): `AwaitInv` says that the middlewares that wait
  were called, the outermost first, and `ResInv` that the answer on its way back has
  no item from anyone but the handler and them, and, when nobody waits any more, what
  the outermost set. `MergedItems` is the lemma about the merge in `handle_http`:
  what it keeps of the old and of the new values.
- **SocketClose_proofs.** `Typing`, with the two locks and their holders;
  `LoopClosesConnection`, `CloseShuts`, `StatusComesLast`, `CloseComesFirst` from
  one invariant (`Inv`) that says, for each place of a task in `perform_close`, what
  has happened to the stream by then and, for a task that will store the status,
  that its Close was written. `OrderOfTasks` takes it apart into what it says of each
  task, and `OthersKeepOrder` shows that what is known of a task that does not move
  stays, because a stream that is shut, broken or has had its Close remains so; a
  step is then about the one task that takes it.

Induction over data appears twice, for recursive functions of a sequence: `FlattenSeq`
of the library, through which the histories of `FrameReader` are read, and `Joined`,
the merge of list headers. The induction theorems of the library take an operator as a
parameter and cannot be used; `NatInd` states induction over a *set* of numbers, and follows
from `WFMin`, the least element of a nonempty set. `FlattenSeqAppend` then says what one
more element adds.

Only model-checked: the liveness properties (`EveryCallReturns`, `EveryOpReturns`,
`EverythingRead`, `ClosersReturn`, `CloseAnswered`, `CloserReturns`, `EveryoneServed`,
`CallsEnd`), as fairness and ENABLED are outside the provers' reach. All invariants and
action properties of the passing runs, and both refinements, are theorems.

## Findings

Runs that expect a violation state what the repository says of itself:

- `frames_mixed`: two tasks that send on one connection, one payload longer than
  1024 bytes: their frames interleave (`ws/frame.rs:90`).
- `rooms_create_race`: `create_room` twice at once replaces a room
  (`ws/socket/room.rs:126`).
- `reader_pong`: a Pong between fragments is a protocol error
  (`ws/socket/read.rs:102`).
- `close_status`: `status()` stays true after 1002, 1003, 1007 and 1009
  (`ws/socket/socket.rs:188`).
- `routing_others`: `/static/<file>` gives the page for files that are no page,
  style sheet or script (`http/stfile.rs:343`).

`src/README.md:49` calls the error handling "RFC 6455 compliant". Besides the Pong
of `reader_pong`, the reading side differs from the RFC on single frames, in both
directions: a masking key of four zero bytes, which the RFC allows, is refused
(`ws/frame.rs:207`), and a Pong or a Close without FIN (`ws/socket/read.rs:98`,
`85`), a Pong of more than 125 bytes (`read.rs:98`) and a Close with the code 1015
(`read.rs:125`) are taken. The model has
these frames and does with them what the code does; `SequenceJudged` makes no claim
that they are judged rightly, and says of the rest that they are.

A comment promises an answer to preflights (`http/routes.rs:1042`) and
`src/README.md:58` CORS support, but no route can be registered for OPTIONS and the
router answers 405 before any CORS middleware is asked (`routes.rs:1043`).
`RoutesExactly` checks that answer among those of the other methods.

Seen while modelling and left as text: two readers of one socket tear frames
apart (`ws/frame.rs:195`); a broken member ends a broadcast for the members after
it (`room.rs:106`); the end of the stream is tested with code 10054, which
nothing returns, so `internal_close` ends in an error and leaves the stream open
(`socket.rs:166`); the writer lock is free between the Close frame and the
shutdown, so data may follow a Close (`socket.rs:184`); `on_close` is stored and
never called (`ws/server.rs:45`); a request line in two segments sends a `/ws`
request to HTTP (`server/server.rs:103`); of two values added for one access-control header
the merge loses the first (`routes.rs:506`); a middleware that passes
`NextWrapper::default()` on, at the end of a chain, hides the handler, and
`default_middleware` is one (`routes.rs:1130`, `1073`); an `Err` of a handler becomes a
bare 500, without the headers of the CORS middlewares around it (`routes.rs:473`);
data that a middleware set and that is neither a `String` nor JSON, or does not go
with the handler's type and the request's content type, never reach the handler, and
no error says so (`routes.rs:747`); a `get_data` that fails has emptied the body all the same
(`routes.rs:1179`).

About `reconnect` (`ws/socket/socket.rs:121`): between the two swaps a frame that is
sent goes to the old connection, and the frames of one message may go to both, or
be read from both; a close whose connection was replaced meanwhile shuts the fresh
one down; a Reconnect that waited in the channel replaces a live connection; the
attempts end at the seventh failure, after 63 seconds, and the delay of 60 is
computed and never slept; a full channel gives the command back to the caller of
`send_command`; the task of `handle_commands` holds the socket, which holds the sender
of its channel, so neither ends; the new connection goes to the client's own port,
with no handshake.

## Not modelled, and the plan

Not modelled, and why:

- Masks, header bytes, the texts and conversions of errors, query parameters, the
  conversions of `serde`: data without state; what the properties tell apart of
  them (FIN, opcode, codes, whether data fit the handler) is in the modules.
- The answer to a preflight: the CORS middleware has one, but no route can be
  registered for OPTIONS. Header values that are not ASCII, which make the merge
  panic. `set_max_size` behind the registration of a route, which has no effect on it.
- Memory, sizes of buffers, the time a client may take: there are no timeouts.
- Tasks that are dropped in the middle of a write: nothing in the library drops one.
- What the bytes of a frame mean when two readers tear it apart: `FrameReader`
  stops there. `Reconnect` reads and writes whole frames.
- The examples and the recorded Autobahn results under `src/`: they are programs
  and data beside the library.

The state machines of the crate are all modelled. What could be added, in this
order:

1. **Handshake and FrameReader together**: what a client sends right behind its
   headers is read with them and lost (`ws/handshake.rs:20`).
2. **Proofs**: `HandlerComesLast` and `HeadersCarried` for chains of any depth, by an
   induction over the depth; for `FrameReader`, what holds of two readers until one
   tears a frame.
