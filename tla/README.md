# A TLA+ model of the tinyfcgi HTTP server

The repository is a small HTTP/1.1 server in C++ (`src/serv`): eight worker
threads, keep-alive and pipelining, a WebSocket echo endpoint, an MCP endpoint,
static files, and a gateway that runs a FastCGI program (`src/app`, linked with
`src/fcgi/libfcgi`) for `/app`.  This directory holds TLA+ modules of its parts,
TLC configurations that check them on small instances, and proofs that TLAPS
checks for every instance.  Paths below are relative to the root of the
repository; `httpserver.cpp`, `main.cpp` and `FcgiProcess.cpp` are in
`src/serv`, `fcgiapp.c`, `fcgi_stdio.c` and `os_unix.c` in `src/fcgi/libfcgi`.

## 1. Inventory

| part | state it keeps | operations | talks to | module |
|---|---|---|---|---|
| socket buffer, `struct SocketBuffer` | one byte vector, `length`, `offset`, `connected` | `readline`, `read`, `clear` | the client's socket; read by the HTTP connection and the gateway | `SocketBuffer` |
| HTTP connection, `HTTP_Thread::run` | the request, `content_consumed`, the response, keep-alive | header, body, handler, response, drain, upgrade, close | socket buffer, handlers, gateway, WebSocket loop | `HttpConnection` |
| FastCGI gateway, `invoke_fastcgi` | `proc` and `proc_expired`, **shared by all workers** | launch, connect, write records, read records, disconnect, reset | `FcgiProcess`, the client's body, the response | `FcgiGateway`, `FcgiRecords`, `FcgiExchange` |
| backend process, `FcgiProcess` | `pid`, socket file, `sock_io` | launch, connect, read, write, disconnect, destructor | fork/exec, a unix socket | `FcgiGateway` |
| WebSocket, `WebSocket::feed` and the loop at `httpserver.cpp:708` | `buffer`, `current_message`, `message_opcode` | feed, echo, Close | the client's socket, past the socket buffer | `WebSocket` |
| server, `HTTP_Server::run` | `listening_socket`, the threads; globals of the signal handler | bind, install handlers, start, poll, shutdown, close, join | workers (through the listening socket), signals | `ServerLifecycle` |
| response, routing, files, CGI headers, environment | the header lines a handler has written | parse, route, read a file, sanitize, send | HTTP connection, gateway | `Endpoints` with `HttpText`, `Encodings` |
| MCP, `do_post`, `mcp.cpp`, `jstream.h` | the tools; a reader's stack of states and keys | read a document event by event, dispatch, answer | response | `Endpoints` with `Mcp`, `Json` |
| FastCGI library: streams and requests, `fcgiapp.c` | a stream's pointers and counts, the request | accept, read, write, finish | the gateway, over the unix socket | `FcgiLibrary`, `Streams`, `Printf` |
| FastCGI library: processes and descriptors, `os_unix.c` | listening descriptor, lock, `shutdownPending`; a table of posted operations | accept, close, asynchronous reads and writes | other processes on the socket, the process manager | `AppProcess`, `AsyncIo` |
| application, `src/app` | its socket file | bind, serve, signals, exit | libfcgi | `AppProcess` |
| texts and numbers | the formatter's parts, a digest's context, the keystream | format, escape, digest, draw an id, take a form apart | everything above | `Formatter`, `Codecs`, `Digest`, `SessionIds`, `Forms` |

What is hard in this code, and what makes each part correct:

* **Bytes arrive in any segments.**  The socket buffer, the gateway's record
  loop, `FillBuffProc`, `feed()` and the digest each keep a buffer with offsets
  and must give back exactly the peer's bytes, cut into lines, records, messages
  or blocks, whatever the segmentation.
* **A connection is used again**, by HTTP clients and by the web server of a
  FastCGI application.  Each handler may leave a body unread, half read or read;
  the next reader has to stand on the next request.
* **Two ends of a connection both write before they read.**  The gateway writes
  the whole body first; an application may answer first.
* **Eight workers share one handle.**  `proc` is replaced, used and dropped
  without a lock.  What a request launches must be gone when it returns.
* **Peers fall silent or go away**, clients and backends alike.  Timeouts have
  to bring the worker back; a closing application must not destroy its answer.
* **Signals.**  The server's handler closes a descriptor that other threads
  block on; SIGUSR1 tells an application process to stop, between any two of its
  steps, and others share its socket and its lock.
* **Texts inside texts.**  A path decides between a file and a program; a field
  of a JSON document counts only at its own level; a header of the application
  must not become one of the connection.

`PROJECT.json` lists the components with their status and every hazard at its
line, with the properties that cover it or the reason why none does.

## 2. The modules

Abstract specifications: `ByteStream` (what a reader may rely on), implemented by
`SocketBuffer`; `RequestResponse` (one answer per request, in order, while the
connection is open), implemented by `HttpConnection` up to the answers named
below.  `FcgiExchange` composes the gateway and the library, `Endpoints` extends
`Mcp` and `Encodings` and takes one request through all of them, `MCUtilities`
puts eight small modules side by side.  The other `MC...` modules hold the
definitions that TLC's instances use, the `...Proofs` modules the theorems.

A definition whose name extends another's and whose comment begins "Mutant of"
is a plausible bug in that definition; nothing uses it.  `PROJECT.json` names the
property that notices each one.

### SocketBuffer

State: the members of the struct (`size` and `buffer` are the vector, with its
stale bytes), the call in progress (`op`, `maxlen`, `result`), the peer's stream
(`sent`, `received`) and the history variable `taken`.  One step is one turn of
the loop in `readline()` or `read()`, up to the `recv()` it ends in.  Only the
owner touches the buffer, so nothing can be observed between two `recv()` calls.

`InBounds`: no index leaves the vector and `recv()` is never given a length of
0.  `ImplementsStream` is the refinement of `ByteStream`, which has no buffer: a
caller gets the peer's bytes, in order and once, and loses its connection only
when it is starved, the line is too long, or the peer reset.

### HttpConnection

The stream is a sequence of units `[id, place]`, header blocks (place 0) and body
units; `SocketBuffer` justifies it.  `pc` is the place in `HTTP_Thread::run`; a request is a record of
its kind (what decides its way through the code), its body units and whether it
ends the connection.  A client may pipeline, stop in the middle, close or reset,
or stop reading, which the send timeout ends (`SendFails`).
Body units in the place of a header are read as header lines (`garbled`), as the
code does, and what they make is any request there is (`Misread`), with a body of
its own that may end in the middle of a unit (`TakeUnit`).  Nothing in `src/serv`
ignores SIGPIPE: a `send()` to a client that has gone ends the whole server
(`ServerDies`), whichever worker makes it.

Three answers leave body bytes behind (`LeavesBody`): a request refused before
its Content-Length is stored (`httpserver.cpp:577-609`), a body the backend
stopped taking half-way (`content_consumed` is set with the first chunk,
`main.cpp:999-1005`), and a POST to `/app`, whose body is read twice.
`RequestsInStep` (its part `Aligned`) and `AnswersInOrder` hold up to the first
of them, and say so; behind it, body bytes are taken for a request.
`TimeoutHasCause`: a request that has arrived whole does not time out, except a
POST without a body and a POST to `/app`.  `WorkerReturns`: a worker comes back
to `accept()`, unless the server dies or a record of the backend keeps it in the
loop of `FcgiRecords` (`GatewaySpins`).

### FcgiRecords, FcgiGateway

`FcgiRecords` is the read loop of `invoke_fastcgi`.  A byte is
`<<record, place>>`; the reader cannot see which record a byte is of and takes
the first `HeaderSize` bytes for a header.  `upto` is a history of the backend:
the bytes, and the STDOUT, of the first n records it sent.  `AnswerRecovered`: an answer is every
STDOUT byte before the first END_REQUEST and nothing else, and is refused only
past a limit.  `Terminates`: reading ends, unless the loop stands on an empty
record other than STDOUT, which it takes for its own header for ever
(`Spinning`); `LoopBounded`, without the exception, does not hold.

In `FcgiGateway` one statement that goes through `proc` is one step of a thread;
accesses of the `shared_ptr` itself are taken as atomic, which is kinder than the
data race the code has.  Every object, process and connection is named by the
request that made it.  An `m->pid` that `launch()` has not set holds anything, so
killing it kills any of the processes or none.  A backend may answer as soon as
it has the parameters, whatever of the body is still to come, and close
(`BackendCloses`).  The server can die of a call through a null handle and of
`SIGPIPE` in `write_all_fd`, and `CrashHasCause` names when.  `overlap` is the set
of requests that were not alone: `RequestsIsolated` and `NothingLeft` are about
the others, whatever happened to the handle before them; `NobodyStuck` is about
all.

### FcgiLibrary

`fcgiapp.c` from `FCGX_Accept_r` to `FCGX_Finish_r` on a connection whose bytes
are numbered, so that the pointers `rdNext`, `stop` and `buffStop` are numbers.
`fill` is the place in `FillBuffProc`; `inner` the parser of a record that is not
stream data (`ProcessBeginRecord`, `ProcessManagementRecord`).  A header that is
taken from the wrong place is any header there is, or a bad one.  Writers pack
their buffers, and the records that end them, as `EmptyBuffProc` and
`WriteCloseRecords` do.

`RequestArrives`: the application gets the first of the parameters, all of them
unless there is an error to find, and then the first of each stream, the whole at
its end, whatever records of other requests come between.  Behind an error no more
is promised of the streams: the reader may stand anywhere (section 7).
`AnswerIntact`: every character is sent once, in order, and END_REQUEST behind
both streams.  `NextRequestFound`: a connection is kept with the reader behind the
end of the last stream, if the application has read that far.  Their preconditions
(`Plain`, `Serving`) name what the library takes for granted of the web server;
section 7 says what happens otherwise.

### FcgiExchange

One request between gateway and backend over sockets that hold `CapIn` and
`CapOut` records.  What a record holds is left to the two modules above; who
waits for whom is kept: the gateway's phases with its timeouts of 30 s, the
application that reads and writes in any order, `write_it_all`, `FCGX_Finish_r`
and the lingering close of `OS_Close`.

`OkIsWhole`: a success is the whole answer.  `GivenUpForCause`: a backend is
given up only when it failed, wrote more than the socket holds before it had
read the request, or lingered while the client's body was silent; and the
server dies of SIGPIPE (`gw = "dead"`) only when the backend failed or lingered
like this.  `ExchangeEnds`: a request comes to an end, also when both ends wait to
write, but for the loop over an empty STDERR record (section 7).

### AppProcess

`src/app/myfcgi.c` and `OS_Accept`: several processes with the socket they made
at a path or inherited, the lock around `accept()`, the address check, the two
seconds of the silent-client check, SIGUSR1, SIGTERM and crashes between any
two steps.  `late` counts the connections a process took after SIGUSR1, `alone`
is the process that started while no other ran.

`AtMostOneMore`: one connection at most is taken after the signal, in the window
the source comments on.  `Restartable`: whatever a crash left at the path, a new
process gets its socket.  `ClientsServed` and `ShutdownEnds` name the cases in
which a client is not served or a process does not end.

### Endpoints, HttpText, Encodings, Mcp, Json

`Endpoints` takes one request through `http_process_request`, `do_get` or
`do_post` and the response, in stages: parse, dispatch, open the file, read it
(it may have changed), write and read the JSON, assemble.  `HttpText` has the
paths and header blocks, `Encodings` Base64 and the name-value pairs of the
environment, `Json` the writer and the reader of `jstream.h` on tokens, `Mcp` the
tools and replies.

`AnswerFramed`: an answer is delimited as its headers say, and they say how the
connection goes on; a 101 is given for what RFC 6455 asks for (its part
`Handshake`), up to the keys of section 7.  `StaysInside`: no file outside the
document root is opened.  `AppExchange`: an application reads the method, the URI, the
query, the type and the length that the client sent, each name once, and no
header of the connection comes from the application.  The variables that the
server leaves empty (section 7) are outside it.
`DocumentsUnderstood`: what the
writer wrote is read back, and a JSON-RPC field counts at its level only, in any
order.

### WebSocket, ServerLifecycle

In `WebSocket` a frame is two header units and its payload units, cut anywhere.
`ReadOn` defines, from RFC 6455 and independently of `feed()`, the messages that a
sequence of frames makes; the history `upto` keeps them for each number of frames
sent.  `ClientServed` compares the echo with it, and the refusals.  A client may
stop reading (`ClientDeaf`), which ends the session when a send times out, or go
away, and then a send may end the server (`BrokenPipe`).  `FeedFails` drops the messages decoded from the same read, as the
code does.

In `ServerLifecycle` the number `L` of the listening socket is a resource: after
`close()` it may be given to a client (`fdL`, `onL`), while the socket lives on
as long as a thread is blocked in `accept()` on it.  A signal handler runs in
three steps on any thread, which does nothing of its own meanwhile.
`ServerResponds` joins two liveness properties: connections are taken up, and a
signal ends the server or leaves it joining workers it cannot wake.

### The utilities

| module | models | property |
|---|---|---|
| `Formatter` | `string_formatter` with its arena, advance, argument and width rules | `WellFormatted`: the text with its arguments in, integers readable as they went in |
| `Printf` | `FCGX_VFPrintF`, lengths only | `PrintedWhole`: it counts what it writes and keeps to its buffers, as far as its bound looks |
| `Codecs` | JSON strings and numbers, URL and HTML encoding | `TextsSurvive`: decoded to what was encoded |
| `Digest` | `SHA1Input` and padding | `DigestOfWhole`: every octet digested once, in order, however handed over |
| `SessionIds` | `uuidv7` and the mutex around the keystream | `IdsUnique` |
| `AsyncIo` | `OS_AsyncRead`, `OS_DoIo` and the others | `CalledOnce`: an operation is carried out once or cancelled, until a close overwrites memory behind the table |
| `Streams` | `FCGX_GetStr`, `FCGX_GetLine`, `FCGX_PutStr`, ... | `StreamsFaithful`: order kept, short counts mean what they say |
| `Forms` | `parse_multipart` and its helpers | `FormUnderstood`: parts arrive as sent |

## 3. Runs

| run | instance | states |
|---|---|---|
| `socket_buffer` | three bytes (newline, blank, other), buffers 1, 2, 3, streams of 5, blocks of 0, 1, 4 | 331 000 |
| `http_connection` | two requests of ten kinds | 1 290 000 |
| `fcgi_records` | header of 2 bytes, four records of seven kinds, limits of 12 bytes and 3 records | 67 000 |
| `fcgi_gateway` | two threads, three requests, one fault | 2 358 000 |
| `fcgi_library` | eleven scripts of one or two requests, header of 2 bytes, read buffer 2, write buffer 1 | 778 000 |
| `fcgi_exchange` | body and answer of 3 records, sockets of 2 | 4 500 |
| `endpoints` | requests in six groups (connection, refused, files, application, WebSocket, MCP), eleven JSON-RPC documents, a root of four files | 603 000 |
| `app_process` | two processes, two clients, two requests on a kept connection, two signals or crashes | 443 000 |
| `websocket` | three frames of ten kinds, messages of at most 2 units | 154 000 |
| `server_lifecycle` | two workers, three clients, two signals, one error | 43 000 |
| `utilities` | eight small modules, one at a time; among them two threads with three ids and blocks of three words, four operations on three descriptors and a table of two places | 416 000 |
| `fcgi_records_endless` | an empty STDERR record in an answer | `LoopBounded` violated |

Why the bounds are enough.  A buffer that grows 1, 2, 3 takes the doubling, the
cap that cuts it short, and a full buffer; streams of 5 are longer than the
buffer and hold two lines.  Two requests are the one that leaves something
behind and the one that suffers; what body units are taken for is any request, so
a third would only repeat them.  In the gateway the third request comes behind two that collided.  Four
records and limits of 12 bytes and 3 records pass both limits.  libfcgi's buffer
of 2 is as long as a header, so each header, content and padding is cut at every
place.  Bodies of 3 over sockets of 2 fill the sockets both ways.  Two processes
are one that holds the lock and one that waits for it, or an old one and its
successor.  Three frames make a fragmented message with a control frame inside.
Two workers are one that the signal hits and one that is blocked; a third client
can get the freed number.  The requests and documents of `MCEndpoints` are the
ones on which the code branches.  The formatter's integers have 4 and 8 bits,
the digest's blocks 5 octets, so that the least integer and the blocks that are
nearly full are all there.  With bounds like these nothing in the code looks at
the absolute numbers.

`fcgi_records_endless` is a finding: `FCGI_MAX_RECORDS` is there "to bound loop
iterations" (`main.cpp:812`), but an empty record other than STDOUT leaves the loop
where it was and never comes to be counted.  Where else the repository says
something that the models do not bear out, section 7 quotes it, and the property
that comes nearest names the case as an exception.

Deadlock is checked in `socket_buffer`, `fcgi_records` and `fcgi_records_endless`.
Elsewhere the system really stops: requests and documents run out, a crash, a
signal or SIGPIPE ends a process, or joined threads are really blocked.

## 4. Fairness

Weak fairness of a thread's or a process's own steps.  The code justifies it:
they are scheduled by the kernel; every client socket has receive and send
timeouts of 30 seconds (`set_socket_timeout`), and so has the backend's socket
(`FcgiProcess.cpp`), so each blocking call returns; a signal handler runs to its
end.  HTTP clients, backends and signals need not do anything, and where a write may
return or raise SIGPIPE, neither is promised.  Two assumptions
go further, and both are about the other end.  `FcgiExchange` lets an
application that is not in a loop go on (`AppStep`); one that is, is the action
`AppFails`.  `AppProcess` lets a client that has a request send it, and one that
keeps its connection leave in the end; the silent client is a kind of its own.
`ServerLifecycle` takes from `HttpConnection!WorkerReturns` that a connection
ends, in a server that has not died and with backends that send no record the
gateway reads for ever.

## 5. Proofs

`BufferProofs` holds the proofs about the two buffers between a stream and its
reader.  `SocketBuffer`, for every alphabet, buffer size, limit and stream, from
`ByteAssumption` and `SizeAssumption` (the initial sizes are positive and not
above `max_line_length`, as 1024, 4096 and 8192 are):

* `Invariance`: `Inv`, the conjunction of `TypeOK`, `InBounds` and
  `StreamIntact`, is inductive.  `InBounds` alone is not: the room for `recv()`
  follows from `size <= MaxLine`, which needs the types, and `StreamIntact` needs
  the bounds to know what the array holds.  `GrownBuffer` does the arithmetic of
  compaction and growth once.  `TypesHold`, `BoundsHold` and `StreamHolds` are
  its corollaries.
* `Refinement`: every step maps to a step of `ByteStream` or to a stutter
  (`ImplementsStream`).  Turns that only fill the buffer stutter; `LineFound` is
  `TakeLine`, `ReadTake` and `ReadNothing` are `TakeBytes`, the failures are
  `GiveUp`.

`Streams`, for every content, buffer, part and sequence of calls, from
`StreamAssumption` (what may be read are texts, the bounds are numbers):

* `StreamInv` is inductive.  `ReaderInv`: what the call that runs has moved, what
  the buffer holds from `rdNext` on and what is not in it yet make up what a
  reader should find, in the middle of a call too; and a character can be pushed
  back, but for the moment between a refill and the first character taken from
  it, where no call can return.  `WriterInv`: what calls claim to have written,
  with what the one that runs has moved, is numbered without a gap, and until
  something fails it is sent or in the buffer.  `Answered` is what the last call
  returned, for which the counts and the line ends in `ReaderInv` are needed.
* `StreamFaithful` (`StreamsFaithful`) follows.

`ServerProofs` holds the proofs about the server beside its connections.
`ServerLifecycle`, for any number of workers, clients, signals and errors, from
`LifecycleAssumption` (finitely many workers, none of them the main thread or one
of the marks for "no connection" and "nobody"):

* `Invariance`: `IInv` is inductive.  It adds three facts to the types and the
  properties.  `Untouched`: until run() publishes the descriptor, nothing has
  happened to the socket, no worker runs, and a handler can only be running on
  the main thread; so `ResetFlag` cannot erase a request to stop that somebody
  already acted on.  `FlagFirst`: whoever touches the socket has set the flag
  before.  `Renumbered`: a number that was used again belongs to a client, and
  run() calls shutdown() before it closes.
* `NoThreadSurvives` (`ThreadsJoined`), `ShutdownIsQuiet` (`QuietShutdown`) and
  `SuccessIsReal` (`SuccessFindsListener`) are its corollaries.

`SessionIds`, the ids that the threads draw, for any number of threads and ids
and any size of a block, from `IdAssumption` (a block has a word at least, no
thread is the mark for nobody).
`Word` gives different words for different places of the keystream: the
theorem is about the places, chance is left out.

* `IdInv` is inductive.  `Alone`: who draws a word holds the mutex.  `Ahead`: the
  counter is one block ahead while words are left in the buffer, so that a
  refill is a new block.  `Upcoming` numbers the word that is drawn next, across
  refills; `Distinct`: every word that a thread or an id has taken, in part of
  an id or all of it, has a smaller number than that, and no two the same one.
  `Dated`: the first groups of an id tell its time.
* `NeverTwice` (`IdsUnique`) follows; `TimedEarlier` compares two ids by the
  places of their times that differ.

`Digest`, for any octets, portions and messages and all sizes of a block and of
the two words of the length, from `DigestAssumption` (a block has room for the one
and the length, the lower word wraps at a multiple of 8).  A word of the length
takes one place of a block, and the rounds are left open: the hash is the sequence
of the blocks that went into it.

* `Holds`: the blocks processed and the one begun are the first n octets of a text;
  `Counts`: the two words are 8n, carry and all.  `Sound` asks both of a context
  without an error.  The lemmas `HoldsStored`, `HoldsProcessed`, `HoldsZeros` and
  `HoldsLength` carry `Holds` through the single steps, `PortionSound` through one
  call, by an induction over its octets (`Stepwise`, `UpTo`, see `Endpoints`).
* `PadSound`: `SHA1PadMessage` makes the blocks of the padded message, whether the
  length fits into the block begun or needs another one; `PaddedIs` says what is at
  each place of the padded message.
* `DigestsWhole` (`DigestOfWhole`) follows.

`Endpoints`, for any set of requests and any document root, from
`EndpointsAssumption` (the root and the URIs are texts):

* `FilesInside` (`StaysInside`).  `validate_url` refuses two dots in a row
  (`Dotless`).  Cutting a URL at its query and its
  fragment, trimming slashes, taking off quotes and the parts of
  `normalize_path`, which a request goes through twice (in `GetPath` and in
  `FileOf`), make none out of none (`PartsDotless`, `WalkDotless`,
  `NormalDotless`, `PathDotless`).  So no part of the path behind the root is
  "..", the walk along it never leaves the root again (`Behind`, `FileBelow`),
  and a file is opened for a checked request only (`OpensBelow`).
* What is defined step by step along a text is a recursive function: `Stepwise`
  shows that there is one and `UpTo` is the induction over its places, both by
  the least place at which a fact fails.  `Characters` is STRING with the two
  characters that the definitions name, which the provers do not know to be in
  it.

`LibfcgiProofs` holds the proofs about the library of the applications.
`AppProcess`, for any number of processes, clients, requests and signals:

* `OneMoreAtMost` (`AtMostOneMore`).  `late` moves only in `accept()`, so the
  invariant says where a process with a pending shutdown can still be: behind the
  look at `shutdownPending` only with `late = 0`.
* `StartsAgain` (`Restartable`).  `Solo` follows the process that started alone
  through `unlink`, `bind` and `listen`; a process that ends takes a file with it
  only while it runs, and none but the one alone runs.

`AsyncIo`, for any number of operations and the descriptors that `select()`
takes, from `AsyncAssumption` (0 to 1023, and a table of 16 places at first, in
the code):

* `AsyncInv` is inductive.  `Placed`: an operation that waits has one place of the
  table, which `select()` is asked for or has reported.  `Called`: no operation
  is called twice or behind its cancelling.  `Undropped` holds until a posted
  operation is cancelled: the counts are those of the posted places, all of which
  are still ahead of the place OS_DoIo has come to, so that none is left when it
  is through.  A close of a descriptor behind the table that overwrites memory
  ends the behaviour (`ended`): nothing is claimed of what follows.
* `EachCalledOnce` (`CalledOnce`) follows.

`FcgiLibrary`, for all sizes of buffers and records and whatever the web server
sends or fails to take (`LibraryAssumption` asks no more than that the sizes are
positive and that what is sent is records):

* `LibraryInv` is inductive.  `Counted`: while a request is served, `nWriters` is
  the number of open writers; END_REQUEST depends on it, and it is set only when
  the parameters have been read.  `Whole`, until a write fails: what the records
  hold of a stream, with what is in the writer's buffer, is what was written to
  it, and END_REQUEST is there exactly when both are closed, with nothing of the
  request behind it.
* What records hold is a fold over a sequence of any length.  The lemmas in front
  do the induction: `LeastNumber` gives the shortest sequence for which a fact
  fails (from the library's well-foundedness of the naturals, no operator is
  passed), `FlattenStep` and `SentInBoth` take folds apart.
* `AnswerWhole` (`AnswerIntact`) follows.
* `RequestArrives` says what the application has; it is not inductive, because
  nothing in it says where the reader is.  `ReaderInv` keeps `rdNext`, `stop` and
  `buffStop` in order, within the buffer and within what was sent, and gives the
  types.  `Follows` says, unless there is an error to find, in which record n the
  reader stands: `Stands`, what it has read, what is left of the content and the
  padding end where record n ends; `Within`, whether the record is the request's
  own, and that the reader is closed exactly at the end of the stream; `Kept`, how
  far FCGX_UnGetChar can go back.  `InBegin`, `InParams` and `InStream` are the
  stages, each with what has been parsed or read so far as `Partly` the content of
  the stream's records.  `Staging` keeps the stages apart, and `Prefixed` keeps the
  parameters a prefix behind an error, where `Follows` is silent.
* `ReadParams` works on bytes, `Environment` on the whole content: `ParsedAs` says
  that the pairs so far, with the one begun, are the pairs of what has been read,
  and `PairsFirst` that more content only adds pairs.  Both go by the least
  counterexample, as above.
* `RequestServed` (`RequestArrives`) and `NextFound` (`NextRequestFound`) follow;
  `LibrarySafe` is the invariant of both.

`Printf`, for every format and all arguments, from `PrintfAssumption`: an item of a
format is a record of the right kind, a width or precision that is written out has
no sign, and an integer, a character or an address takes 46 characters at most by
itself, the number with which the code bounds them (`fcgiapp.c:592`):

* `FastFits` and `SlowFits` do the arithmetic of the buffers, conversion by
  conversion: 100 characters are enough without flags, width and precision, and
  `Reqd` bounds what `sprintf()` writes with them, unless the field is wider than
  what the bound looks at or a long double has more digits than DBL_MAX.
* `PrintfInv` is inductive: `PrintedWhole` with the types.  `PrintsWhole`
  (`PrintedWhole`) follows.

`FcgiExchangeProofs`, for every length of body and answer and every capacity of
the sockets, from `ExchangeAssumption` (both sockets hold something):

* `Invariance`: `IInv` is inductive.  `OkIsWhole` alone is not: that the answer
  is whole needs `Conserved` (while the gateway's end is open, STDOUT records are
  taken, on their way or still to be written) and `EndLast` (END_REQUEST is
  behind all of them).  `RequestInOrder` and `ClosedForCause` do the same for the
  request and for the lingering close.  The lemmas in front count the records of
  a queue.
* `AnswersWhole` (`OkIsWhole`) and `NoneGivenUpInVain` (`GivenUpForCause`)
  follow from it, the second with one case per way to 502 and to the server's
  death.

`FcgiGatewayProofs`, for any number of workers, requests and faults, from
`GatewayAssumption` (finitely many workers):

* `Invariance`: `IInv` is inductive.  Of requests that have met it says nothing
  but that whatever one of them holds belongs to another of them (`Linked`, with
  `Met`), since with one handle between them anything else can happen.  Of a
  request that is alone `Stages` says, place by place, what it has made and sent.
  The two meet in `Quiet`: no statement reaches the objects of a request that was
  alone, not even the kill of a process number that was never set, since such a
  request has left no process that runs (`Left`).  `Expiring` is why the handle
  is reset on every return path; `Carried` reduces a thread's step to its own
  request.  For `CrashHasCause`, `Stages` and `Own` say how much of a request its
  backend had been sent when a write fails.
* `Isolated` (`RequestsIsolated`) and `LeavesNothing` (`NothingLeft`) follow.

`HttpConnectionProofs`, for every set of requests, any number of them and any
length of body, from `RequestsAssumption` (the requests are records of the right
kind):

* `Invariance`: `IInv` is inductive.  `Aligned` says where the worker stands only
  between two requests; in the middle of one it follows from three facts.
  `StreamOK`: what is buffered, in the kernel and still to be sent is the rest of
  the client's stream with nothing missing, doubled or out of place.  `Place`:
  for each `pc`, how many body units of the request are unread; this is where
  every handler's way to leave the body is accounted for.  `HeadsPassed` and
  `Rising`: header blocks are passed in order, desynchronised or not, so none is
  answered twice.  `Continuing` is why nothing follows an answer that closes;
  `Counting` ties the number of answers to the requests while they are in step.
* `Invariant`, and from it `StaysInStep` (`RequestsInStep`), `InOrder`
  (`AnswersInOrder`, the refinement of `RequestResponse`: only the answer to the
  next request is a step there, everything else stutters or closes) and
  `NoIdleTimeout` (`TimeoutHasCause`).

`FcgiRecordsProofs`, for every size of a header, all records and limits, from
`RecordsAssumption` (a header has a byte at least) and, as a hypothesis of the
theorem, `NoPaddedEmpty`: an empty STDOUT record has no padding.  libfcgi sends
it so (`fcgiapp.c:1340`), the instance has no other, and without it the theorem is
false (section 7).

* `IInv` says that the reader stands in some record n + 1 (`Standing`): what it
  has read is `Before(n)` and `pos` bytes of that record, what it delivered is the
  STDOUT of the first n, what it counted are the filled ones among them, and once
  it has parsed a header this is the header of that record.  `Aligned` is what is
  left of it between two records.  `HeaderRead` and `ContentRead` are the
  two places where the bytes in `tmp` are looked at.
* `Recovered` (`AnswerRecovered`) follows.

`WebSocketProofs`, for every set of frames and all limits, from
`WebSocketAssumption` (the frames are records of the right kind):

* `IInv`: `History` (the reading of n frames goes on from that of n - 1),
  `Assembled` (`current_message` and `message_opcode` are the message begun, by
  RFC 6455), and the parts of `ClientServed`.  `EchoesIntact` alone is not
  inductive: which message a last fragment completes, and that `feed()` refuses
  none of a conforming client, is in `Assembled`.  The lemmas in front count the
  messages that are to be echoed.
* `Served` (`ClientServed`) follows.

Model-checked only: liveness under fairness (`CallsEnd`, `WorkerReturns`,
`Terminates`, `SessionEnds`, `ServerResponds`, `ExchangeEnds`, `ClientsServed`,
`ShutdownEnds`) and `NobodyStuck` (it uses ENABLED), which TLAPS does not prove.
The rest of `Endpoints` (the documents, the answers, the exchange with an
application), `Formatter`, `Codecs` and `Forms` work on texts and documents by
recursive functions and folds (`Formatter` by RECURSIVE operators, which tlapm
does not take): what they compute for every text would need an induction for each
of them, as the ones for `AnswerWhole`, `RequestServed`, `FilesInside` and
`DigestsWhole`, and is checked on bounded texts only.

## 6. Not modelled

* `HTTP_Server::start`, `join`, `stop`, `WebSocketThread` and the `unix:` and
  `inet:` branches of `invoke_fastcgi`: nothing calls or selects them.
* Two signal handlers at once; descriptors that a forked backend inherits; the
  reuse of process numbers (`FcgiProcess.cpp:342`, `:375`).
* In `ServerLifecycle` and `FcgiGateway`, a SIGPIPE that another worker raises with
  a client: the process is gone, with nothing left to say of it.
* The data race on `shared_ptr` itself, below the statements that use it.
* WebSocket bytes that arrive together with the handshake: a client may not send
  before it has the 101.
* The masking of WebSocket payloads, the rounds of SHA-1 and ChaCha20 and the
  digits of a double: arithmetic without state.  Logging and the status table.
* `picojson.h`, which nothing includes, and the pages of `src/app/main.cpp` and
  `src/app/fcgiapp.c`, which only print.
* Windows variants (`os_win32.c` among them) and sources that no project file of
  the build names.

## 7. What the models show besides

Behaviour that the models contain and the properties have to name as exceptions.
Most contradicts no line of the repository; where it does, the line is named.

HTTP and WebSocket:

* SIGPIPE is ignored nowhere in `src/serv`: a `send()` to a client that has gone
  (`httpserver.cpp:257`) or a `write()` to a backend that has (`FcgiProcess.cpp:203`)
  ends the server with all its workers.
* A POST to `/app` has its body read by `do_post` (`main.cpp:1399`) and again by
  `invoke_fastcgi` (`main.cpp:994`): the second reader waits for bytes that do not
  come, and the request is answered 400 after the timeout, or it takes those of
  the next request.
* A POST without a body, to anything: `read()` of 0 bytes waits in `recv()`
  (`httpserver.cpp:205`) for 30 seconds.  `test/error_cases.sh:15` sends one to
  `/index.html`, waits 5 and expects 405.
* Body bytes that are left behind are read as the next request, whatever they
  spell; a request with an unknown method that they make keeps an HTTP/1.1
  connection (`httpserver.cpp:541-575`).
* `feed()` labels a ping 0xa and the loop answers only 0x9: no ping is answered.
* After SIGTERM the handler has closed the socket, `shutdown()` fails, and `run()`
  joins workers that nothing wakes.
* A message directly in front of a Close is echoed or not, depending on the
  segments.
* `valid_websocket_key` also accepts keys of 17 and 18 bytes.
* An answer of the application with status 204, 304 or 1xx and a body is sent
  with its body; an empty one below 400 sends no bytes at all.  Headers of the
  same name replace each other.
* `validate_url` refuses `..` in a query too; `do_post` compares its path without
  normalising it; both pass on `/app` itself only, so that a GET of `/app/foo` is
  looked for among the files and a POST to it is answered 405.  `test/basic.sh:22-24`
  and `:32-34` expect the application's answers.
* Of the variables that `makeEnvironment` makes (`main.cpp:583-646`) only the method,
  the protocol, the gateway interface, the URI, the query, the type and the length
  get a value.  HTTP_HOST, HTTP_USER_AGENT and SCRIPT_NAME stay empty and PATH_INFO
  is not made, all of which `test/basic.sh:27-30` looks for.

Gateway and library:

* Two requests to `/app` at once share `proc`: one writes to the other's backend.
* A backend may answer as soon as it has the parameters (`src/app/main.cpp` reads no
  body) and close when nothing has come for two seconds (`os_unix.c:756-775`): a
  record of a slow client's body that is written later kills the server.
* An empty record other than STDOUT without padding is parsed for ever, outside
  the limit that bounds the loop (`main.cpp:1063-1079`), on a worker that does not
  come back.  libfcgi sends one when an application has
  written to STDERR.
* An empty STDOUT record is skipped with its header only (`main.cpp:1066`): a
  backend that pads it has its padding read as the next header.
* `skip` in `FillBuffProc` stays set behind an empty record of another request
  (`fcgiapp.c:1648-1662`); `SetReaderType` forgets padding; an unknown management
  record's content is delivered as stream data; FCGI_GET_VALUES without padding
  blocks.
* PARAMS that end between two pairs are served as if they were all; bytes that
  were read ahead are dropped with the reader (`fcgiapp.c:1712`); an application
  cannot tell a truncated body from its end without looking at the error.
* An error closes a reader in the middle of a record.  The next `SetReaderType`
  (for STDIN behind the parameters, `fcgiapp.c:2249`, or FCGX_StartFilterData
  behind STDIN) opens it there again, and what it reads as a header is content: an
  application that does not look for the error reads anything.
* FCGI_GET_VALUES inside STDIN: while `ProcessManagementRecord` reads the record,
  `isClosed` is that of the record, not of STDIN.
* `OS_Accept` keeps the number of a connection it has closed; with
  `shutdownPending` set it then goes round for ever.  A process that is to shut
  down waits for the lock of one that is blocked in `accept()`.
* A process that ends removes the socket file that another has made meanwhile.
* `OS_Close` of a posted descriptor leaves `numRdPosted` counted, and `OS_DoIo`
  never selects again.  `OS_Close` and `OS_CloseRead` index the table of operations
  without its size (`os_unix.c:732-741`, `:794`): with a descriptor behind it they
  read, and may set to 0, memory that is not theirs.
* `src/app/main.cpp:66` looks CONTENT_LENGTH up in the environment of the
  process, not of the request, and so never reads a posted body.

Texts:

* `Printf`: `%lf` fails; a width within ten of the bound, or a negative `*`
  width, is not in the bound of the buffer (the assertion at `fcgiapp.c:836`), nor
  is a long double above DBL_MAX, which is narrowed to a double before its
  exponent is taken (`fcgiapp.c:612-615`): hundreds of digits go into 100.
* `Formatter`: `%X` of a `uint64_t` is in lower case, `%+d` of 0 has no plus,
  "018" is read as 1, `%` before what is no letter uses an argument up.
* `Codecs`: `encode_json_string` drops control characters, `html_decode` cuts a
  text at an `&` without `;`, `url_encode` passes NUL.
* `Json`: keys that contain a brace are ambiguous to `match()`, and malformed
  documents are read without an error that anyone looks at (`main.cpp:284`).
* `SessionIds`: ids are in the order of time only while the clock is not set back;
  `main.cpp:1443` accepts any id of the right form.
* `Forms`: compiled, called by nothing; quotes around a boundary become part of
  it, and a boundary is found anywhere, not only at the start of a line.

## 8. Plan

1. `FcgiGateway` with process numbers that are used again and inherited
   descriptors.
2. A refinement of `FcgiExchange` by `FcgiGateway` and `FcgiLibrary`, record by
   record.
3. The inductions over tokens that `DocumentsUnderstood` and `AnswerFramed` of
   `Endpoints` need, as the one over paths for `StaysInside`.
