# Simple File Transfer Server in TLA+

Models, model-checking runs and machine-checked proofs for the server and
client of this repository (`src/`).  The program is a single-threaded epoll
server that serves two protocols on one port -- its own `sft` protocol (upload,
download, message) and HTTP -- with one C++20 coroutine per request, and a
blocking command-line client.

Checked with TLC and tlapm 1.4.5.  To repeat a run, from this directory:

    tlc -workers 2 -config MCEventLoop_sft.cfg MCEventLoop
    tlc -workers 2 -config MCHttp.cfg MCHttp
    tlapm EventLoopProofs.tla
    tlapm UploadProofs.tla
    tlapm DownloadProofs.tla
    tlapm HttpProofs.tla
    tlapm HttpWakeupProofs.tla
    tlapm ThreadPoolProofs.tla
    tlapm BytesProofs.tla
    tlapm StartupProofs.tla

`PROJECT.json` lists the components, the runs, for every property a mutation of
the code that breaks it, the source lines each definition models, the hazards,
the findings and the theorems.

## 1. Inventory

### The parts and their state

| part | source | state it keeps | operations |
|---|---|---|---|
| event loop | `src/src/server.hpp` 68-248, `src/src/epoll_utility.hpp` | `connections` (number -> `data_info`), `clock`, the epoll set and the 32 events of one `epoll_wait`, the socket pair for signals | accept, disconnect, tick, dispatch of EPOLLIN and EPOLLOUT |
| `data_info` and the coroutine handle | `server.hpp` 50-66, `src/include/coroutine.hpp` | the socket, the request text, the coroutine, `is_read_awaiting`, `is_write_awaiting` | move-assign a socket, start, resume, destroy |
| idle timer | `src/include/util.hpp` 154-190 | number -> time of the last event | `insert_or_update`, `erase_value`, `clear_expired` |
| descriptor owners | `src/include/io.hpp` | one descriptor number each | open, read, write, close, destructor |
| upload | `server.hpp` 280-365 and `client.hpp` `send_file_to` | the coroutine's frame: File, buffer, counts | request, code `1`, bytes, flushes |
| download | `server.hpp` 375-456 and `client.hpp` `get_file_from` | the frame: File, offset, what is left | request, size, flag `1`, sendfile |
| message | `server.hpp` 367-373 and `client.hpp` `send_msg_to` | none | request, code `1` |
| HTTP session | `server.hpp` 470-614, `src/include/http.hpp` | the frame: File, offset, headers | request, range, 200/206/304/403/404, keep-alive, `Connection: close` |
| configuration | `src/include/json.hpp`, `server.hpp` 108-141 | `json_conf`, the port | parse `sft.json`, take the settings, find `LogPath` |
| log | `src/src/logger.hpp` | the log file, its day | open, open anew on a new day, write a line |
| HTTP parsing, utilities, exceptions | `http.hpp`, `util.hpp`, `exception.hpp` | none | pure functions; which `catch` takes what |
| thread pool | `src/src/thread_pool.hpp` | task queue, workers, shutdown flag | submit, work, shutdown; included by nothing |
| command line | `src/src/main.cpp`, `src/test/test.cpp` | none | one transfer, or the test's sequence of transfers on one connection |

### How they interact

The kernel hands out edges; the loop turns an event *number* into a `data_info`
by looking the number up in `connections`, and either resumes the coroutine
stored there (a flag says that it waits for that direction) or reads a request
and starts a new one.  A coroutine keeps references into `connections`, owns a
`File` in its frame, closes the socket itself on several paths and leaves the
entry and the timer behind.  The timer closes connections by number.
Everything that names a connection uses its descriptor number, which the kernel
gives away again as soon as it is closed -- to the next connection, or to a
`File`.  The client blocks in `read`, `write` and `sendfile`.

### What is hard about it

* *Reuse of numbers.*  Four parties hold a number (event, entry, timer, frame)
  and none learns that it changed hands.
* *Edges.*  A handler that does not read until EAGAIN, or an accept that stops
  early, waits for an edge that never comes.
* *Order of tests.*  The hang-up branch precedes the readable one; the mask of
  one event carries both.
* *Flags left set.*  Early `co_return`s and swallowed exceptions leave
  `is_read_awaiting`/`is_write_awaiting` as they were.
* *Stream boundaries.*  TCP merges and splits; the handlers take one `read` for
  one request, and a large upload reads past the end of the file.
* *Stale `errno`*, sizes of 0, a buffer that is flushed at `MAXARRSZ-NUMSTOP`.
* *Files that change.*  `FileReceived`, `FileToSend` and `HttpPath` are one
  directory by default: an upload truncates the file somebody else is being
  sent.
* *Two families of exceptions.*  The program's own are no `std::exception`; a
  handler for one lets the other pass, and a coroutine swallows both.

`PROJECT.json` lists 40 such places with the property that watches each, or the
reason why none does.

### What makes each part correct

* Event loop: every open descriptor is recorded where the loop will close it
  (`Tracked`); events resume only live coroutines (`ResumeSafe`), of the right
  connection (`OwnSession`), whose File is still theirs (`HoldsItsFile`); no
  hang-up and no connection is missed (`HangupReleased`,
  `EveryConnectionAccepted`).
* Upload: what is on disk is what was sent, in place, whatever the arrivals,
  reads, yields and flushes (`NothingLost`, `StoredWasSent`,
  `CompleteIsStored`), the loop never blocks over one that can go on
  (`BlocksOwingNothing`), and it gets there (`UploadCompletes`).
* Download: the same for the client's file (`NothingLost`,
  `EveryByteInPlace`), success is printed for a file that is there
  (`SuccessMeansFetched`), no edge is lost on the way (`BlocksOwingNothing`),
  and it comes to an end (`DownloadEnds`).
* Both transfers keep one promise, `Delivery` (`Delivers`).
* HTTP: one answer per request, in order, as long as its Content-Length says
  (`Framed`, `NeverUnasked`, `Answered`), no edge is spent on what is then left
  undone (`BlocksOwingNothing`), and neither the loop nor the connection is
  lost over one answer (`OnlyOddRangesSpin`, `ClosedForCause`).
* Configuration, log and command line: the file means what its text says
  (`SettingsRead`), the server has all of its settings or none (`Configured`),
  the log lies where they say (`LogsWhereConfigured`), and whatever else is in
  the file, the server comes up unless a string holds a quote (`StopsForCause`);
  options do what the usage says (`OptionsAsDocumented`), and a page is found by
  its name (`PagesFound`).
* Thread pool: no task is lost or called twice (`Accounted`), the queue is
  emptied while a worker is awake (`AwakeWorkerDrains`), shutdown ends
  (`ShutdownEnds`, with the exception it names).

## 2. Modules

### `EventLoop`

The loop with all its connections, the kernel beside it and the life of each
coroutine.  The bytes a handler moves are abstracted to how it leaves the
loop's branch: it yields, ends, throws or closes.  State and code:

| variable | code |
|---|---|
| `fdt` | the process's descriptor table: free, the socket of a client, or the File opened for a client's request |
| `entry`, `conn` | keys and values of `connections`; `conn[n].of` is a history value: the connection the coroutine was started for; `file` is the number in the File of its frame |
| `timer` | `clock`: absent, touched since the last alarm, or not |
| `ev`, `evListen`, `evAlarm` | the events of the current `epoll_wait` not yet dispatched |
| `peer`, `backlog`, `input`, `full`, `ready`, `listenEdge`, `alarmByte` | the kernel: what clients did, accepted queue, unread bytes, full send buffers, epoll's ready list, the byte in the socket pair |

| action | code |
|---|---|
| `Connect`, `Send`, `HangUp`, `Drain`, `Alarm` | clients, kernel, `alarm_handler` |
| `EpollWait` | `wait_for_epoll`: takes the whole ready list, edges are spent |
| `AcceptOne`, `AcceptEnd` | the accept loop; EAGAIN or the exception of EMFILE |
| `Disconnect` | the branch on EPOLLRDHUP/HUP/ERR |
| `Tick` | the SIGALRM branch: `clear_expired` with its early stop, then close and erase of each |
| `ResumeReader`, `ResumeWriter`, `IgnoreWritable` | the flags decide |
| `StartFile`, `StartGet`, `StartHttp`, `Message`, `UnknownRequest` | `decide_action` and its switch |
| `StartUpload`, `ResumeUpload`, `StartDownload`, `ResumeFlag`, `ResumeSend`, `HttpRound`, `ResumeHttpIdle`, `ResumeHttpSend`, `ResumeHttpRefused` | the handlers between two suspensions, one disjunct per way out |

One action is one dispatched event, because the program has one thread and a
handler runs to its next `co_yield` without giving it up; clients and kernel
act between events.  (What the kernel may do *inside* a handler is what
`Upload` models, one system call a step.)  The events of one batch are
dispatched in any order, which includes the kernel's.  The accept loop is the
one loop that is split into steps; no other event is dispatched before it ends.

Two ways out of the `sendfile64` loop of `handle_http` depend on the client
alone.  A range that ends before it starts has a negative length, which the
kernel refuses: the handler closes the socket of a client that is still there,
and yields (`"httpRefused"`).  The constant `Backwards` says whether clients
ask for such ranges.  An empty range, or one that starts past the end of the
page, makes `sendfile64` return 0 for ever: the coroutine never yields again
(`"httpSpin"`) and the one thread with it, so that under `Spinning` no action
of `Server` is possible any more.  A page that has become shorter ends the same
way.

Abstractions: the 32 events of one `epoll_wait` and the backlog of 5 never bind
(with 3 clients they cannot); the descriptors of the log, the epoll instance,
the listening socket and the socket pair are outside `Fd`, since they are open
for ever; a file does not change while it is sent, but for a page that becomes
shorter (a file that an sft client is sent is replaced in `Download`); SIGALRM
comes from `alarm` alone; an age is counted in alarms, not in seconds; the accept order is any; a
`read` or `write` on a number that no longer is a client's socket fails, as on
a broken connection.

### `MCEventLoop`

`EventLoop` with the symmetry of clients of one kind.  Descriptor numbers are
not symmetric: `Lowest` orders them.

### `EventLoopProofs`

The proofs about `EventLoop` (section 5) in three parts, each built on the one
before: what descriptors are recorded, the Files of suspended transfers, and
sessions.

### `UploadProofs`, `DownloadProofs`, `HttpProofs`, `HttpWakeupProofs`, `ThreadPoolProofs`, `StartupProofs`, `BytesProofs`

The proofs about the other five state machines, each of which `EXTENDS` the
module it is about and holds its inductive invariant; `HttpWakeupProofs` builds
on `HttpProofs`.  `BytesProofs` has the lemmas that upload, download and HTTP
share: what reading a piece off a stream, padding with zeros and taking a
prefix of the file do to lengths and places.

### `Upload`

One upload over one accepted connection, one system call a step: the client's
request, code, `sendfile` and what it does afterwards (`sft.out -f` exits,
`test.cpp` asks for a file, or it stays), the receive buffer and its edges, the
loop's dispatch, `decide_action`, and both paths of `handle_sft_upload` with
their buffers, flushes and counts.  A byte of the file is the token of its
position, so a lost, repeated or moved byte is visible.  It says what the
`"upload"` task of `EventLoop` does with the bytes.

Abstractions: disk writes are complete; a read takes all there is up to the
room in the buffer (a smaller read is the same read before the rest arrived); a
reset is left to `EventLoop`, and so is an alarm that closes the File of the
upload for the old entry of another connection (`HoldsItsFile`, finding 4).  The client can be killed at any point before it
has finished (`ClientAbort`).

In `Upload`, `Download` and `Http` the idle timer is that of the one
connection: `aged` says that no event has renewed its entry since the last
alarm.  `Tick` is an alarm, alone or in the batch of an event; it ages the entry
(`Ages`), or, if it is aged, closes the connection and destroys its coroutine
(`Expires`), whether the client is idle, slow or gone.  Every dispatched event
renews the entry.  `clear_expired`'s early stop is in `Ages`: an old entry may
survive an alarm.

`Delivers` says that all this implements `Delivery`: `offered` is what the
client's `sendfile` has handed over, `stored` the file on disk, and `verdict`
what the handler logged (`Success on receiving file` is `"complete"`).

### `Delivery`, `Bytes`

What a transfer of one file promises, whichever end receives it: the stored
file grows by bytes that were offered, each in its place, and is taken for
complete only when the whole of it is stored.  A transfer that breaks off may
leave zeros, and bytes that follow a complete upload may be stored behind it:
the code does both, so the promise allows them and nothing more.  `Bytes` holds
the tokens of bytes that the three modules share.

### `Download`

One download over one accepted connection, one system call a step:
`get_file_from` with its two paths, the kernel, `decide_action` and
`handle_sft_download`.  Beside them the client may be killed, a signal may stop
the server (`stop_loop` calls `exit` in the handler), an alarm may close the
connection (`Tick`), and an upload of the same name may truncate and rewrite the
server's file.  If an alarm closes the File of a download for an old entry of
its number (finding 4), what is left to send is nothing or something else, as
for a file that is replaced.

| action | code |
|---|---|
| `AskFile`, `ReadSize`, `NotFound`, `OpenFails`, `ReadFails` | `get_file_from` up to its loops |
| `SmallRead`, `SmallEmpty`, `SmallEnd`; `LargeRead`, `LargeEnd` | the two loops; `Spinning` is the small one behind the end of the stream |
| `StartDownload`, `StartDownloadFails`, `StartDownloadThrows` | the handler up to its first `recv`, with what opening the file throws |
| `FlagYield`, `ReadFlag`, `FlagMissing` | the flag |
| `SendSome`, `SendYield`, `SendDone`, `SendStaleErrno`, `SendGivesUp` | the `sendfile` loop; the last two are `sendfile` returning 0 with an old `errno` in either state |

It implements `Delivery` with the client as receiver; the promise is void from
the moment the file is replaced.  Left out: short writes to the client's disk;
a read takes all there is up to the room (a smaller one is the same read
earlier).

### `Http`, `MCHttp`, `Exceptions`

One persistent connection: a client that reads answers by Content-Length, the
kernel, `decide_action` and `handle_http`.  A request is a record of what
decides its answer (its kind, the page's size, the bounds of a range,
`Connection: close`); a header is one token that carries the number of its
request, the code and the announced length; each byte of a page is the token of
its place.  The client may pipeline, a request may come in two segments, and
the page may be replaced under way.

| action | code |
|---|---|
| `Ask`, `AskRest`, `Receive`, `Leave` | the client; `Verdict` is what it makes of the next token |
| `Decide`, `Unknown` | `decide_action` and `task = handle_http(fd)`, which replaces a suspended coroutine and keeps its flags |
| `ReadRequest`, `ReadEnd` | the read loop of a later round |
| `Tick` | the SIGALRM branch: a connection without an event since the last alarm is closed |
| `AnswerPage`, `AnswerFresh`, `AnswerError`, `AnswerSegment`, `AnswerFails` | one request to its header, by code |
| `SendSome`, `SendYield`, `SendFails`, `SendDone`, `NextRound` | the `sendfile64` loop and the end of a round; `Spinning` is the loop that is never left |

`Put` is a `write` to a socket with little room: what does not fit is lost,
since EAGAIN is no exception.  `Exceptions` has the hierarchy of
`exception.hpp` and of the standard library; the code of an error page follows
from which `catch` takes what was thrown.  Left out: the wording of headers; a
request is one or two segments, never more; a `write` fits whole tokens.

The properties name what the code cannot do rather than leave it out.  `Framed`
is about a `Careful` client: one that waits for each answer, in one segment,
with ranges that end where the page does; so are `BlocksOwingNothing` and
`Answered`.  The other properties hold for every client.

### `JsonParser`, `Documents`, `Url`, `Startup`, `MCStartup`

`JsonParser` is `json_parser` as operators on sequences of tokens: `Value`,
`Items`, `Members` and `Str` are the four parse functions; a result is a value
and where it ends, or how the call fails -- an exception, a null pointer, a
loop without end, a scan that leaves the buffer.  `Documents` has what a user
writes: settings as a list of members, the ways to write them down (`Render`),
which of these the parser copes with (`Legible`), and the value that is meant
(`Meaning`).  A string or a name may hold an escaped quote (`HasEscape`), at
which `parse_str` takes it to end (`json.hpp` 87-95).  `Url` is `decode_url`.

`Startup` runs from the command line to the first page: `getopt` and the choice
of a mode (`ParseOptions`), `init_log`, the settings in the order of a hash
table (`LoadSettings`, `ApplyPort`, `ApplyPath`, `ApplyFaults`), the socket,
a new day's log (`NewDay`), and the name of the page that a GET asks for.
The settings are chosen as a document and a style, so that what was read can be
compared with what was meant.

`Startup` takes the writer and the parser as constant operators (`TextOf`,
`Readable`, `Escaped`, `MeantBy`; `JsonParse`, `FindIn`), and `MCStartup` gives
them the definitions of `Documents` (`Render`, `Legible`, `HasEscape`,
`Meaning`) and `JsonParser` (`Parse`, `Find`).  Those two are RECURSIVE and stay
with TLC; what `Startup` owes to them is one formula, `SettingsRead`, the
contract of `json_parser` with its callers: a text in a style it copes with is
read as it was meant, any other is refused, one cut short is never taken for
settings, and of one with a quote in a string nothing is owed but that its
numbers are numbers.  TLC checks it on every text of the run; in the proofs it is a
hypothesis.  `getopt`, a browser's escaping (`Encode`) and `decode_url` are
recursive functions of `Startup` and `Url`, and are proved about.

A scan that leaves the buffer goes on in the heap: it ends with any of an
exception, a fault and a hang.  A fault before the signal handlers are set ends
the process (`"faulted"`), one behind them calls `exit(0)` (`"stopped"`).
`"aborted"` is an exception that nobody catches over the command line or
`sft.json`, `"unlogged"` one over a log file that cannot be opened, and
`"taken"` one over a port that cannot be had, so that a property can say which
of them it allows.  `"mute"` is a server whose coroutines lose their answers to an exception of the
log.

### `ThreadPool`

`sync_queue` and `thread_pool`: submitting threads, workers, the owner.
Nothing in the program uses the pool, so its callers are any that use it
legally: nobody submits while it is destroyed.  A step is one call on a shared
object (`push`, `notify_one`, `is_empty`, `wait`, `pop`, the flag); `m_mutex`
is a variable because the code's trouble is who does *not* take it.  The
condition variable is the set of workers at `"asleep"`; `WakeSpuriously` is
what the standard allows of `wait`.  `m_shutdown` is a plain `bool` read
without a lock; it is taken as one atomic access, because the calls around the
read keep a compiler from moving it.

Two hazards are the code's behaviour and not excluded: a push between a
worker's `is_empty` and its `wait` strands its task, and a `notify_all` there
leaves `shutdown_pool` in `join` for ever.  No document of the program promises
otherwise, so they are no findings; the two liveness properties state exactly
how far the code goes.

## 3. Runs

| run | instance | shows |
|---|---|---|
| `loop_sft` | 3 sft clients, 3 numbers, FIN and RST | sft sessions never mix, keep their Files and are resumed only while suspended |
| `loop_http` | 1 sft and 1 HTTP client that leave by FIN, empty ranges and ranges past the end included; weak fairness of the server | coroutines are resumed only while suspended, with HTTP and pipelined requests too; every hang-up is handled, every connection accepted, unless a coroutine spins |
| `loop_ticks` | 1 sft and 1 HTTP client, FIN and RST, backwards ranges, 2 alarms | nothing is leaked or forgotten, with the timer and every failure path together |
| `loop_reuse` | 1 sft and 1 HTTP client that leave by FIN, backwards ranges | *violation* of `OwnSession`, without a reset or an alarm |
| `loop_idle` | 2 sft and 1 HTTP client, 2 alarms | *violation* of `HoldsItsFile` |
| `upload` | sizes 0, 1, 3, 4, 7 with buffer 4 and room 1, window 3; all three kinds of client, an abort, the idle timer | what is stored is what was sent; the loop never blocks over an upload that can go on; it completes if its client stays and the timer does not close it |
| `upload_close` | size 2, the client exits | *violation* of `SuccessMeansStored` |
| `upload_get` | size 2, another request follows | *violation* of `EveryRequestAnswered` |
| `download` | sizes 0, 1, 3, 4, 7 with buffer 4 and room 1, window 2; killed clients, a stopped server, a replaced file, the idle timer | the client's file is the server's, in place; who prints success without it; the loop never blocks over a download that can go on, and it ends; it is a `Delivery` |
| `http` | 12 requests to a page of 3 bytes, two on a connection, window 2, the idle timer | the stream is framed for a careful client; who breaks it for others; what hangs the server or closes the connection; the loop never blocks over a waiting client; every request is answered |
| `startup` | 504 settings in 12 layouts, 6 more documents, 4 of them with a quote in a string, whole and cut, no file and a directory, command lines of up to 3 arguments | what the server is configured with, and what stops it |
| `thread_pool` | 2 workers, 2 submitters, 3 tasks | missed and spurious wakeups lose no task and run none twice; the queue drains while a worker is awake; shutdown ends unless a worker misses it |

**Bounds.**  Each client connects once; what repeats in the program is the use
of a number, and three clients over three numbers use one number up to three
times, as socket and as File, while others hold the rest; three sockets and
three Files want six numbers, so `open` and `accept` also fail.  Two alarms are
the fewest after which an entry is old. A File can only take the number of a
forgotten entry while another connection is open, so `loop_idle` needs three
clients.  In `Upload`, `Max` = 4 and `Stop` = 1 put sizes below, at and above
the buffer: 0 (the empty array), 1 and 3 (small path, one token and several), 4
(the first large one) and 7 (one flush at 3 tokens or at 4, and a last buffer).
A window of 3 is smaller than the buffer, so every buffer takes several reads;
the request that follows may exceed it by one.  `Download` has the same sizes;
its window of 2 makes the server yield in every file from size 3 on and the
client read every buffer in parts.  In `Http` a page of 3 does not fit the
window of 2, two requests are a first round and a later one (a third repeats
the second), and the ranges lie at, below and past both ends of the page.  In
`Startup` every setting has an ordinary, an empty and a wrong value, the port
every kind of value that `at<long long>` tells apart, one a
duplicate, one nests; six documents are cut at every token; quotes stand in a
last string, in one that others follow, in a name and deep down; three
arguments are an option, its argument and an address.  In `ThreadPool` two
workers are enough for one to take the task the other was woken for, two submitters for two
notifications under way, and three tasks for a queue that outlasts both
workers.

**Deadlock.**  `CHECK_DEADLOCK FALSE` in all runs: the clients are finitely
many and each does finitely much, and then the server rightly blocks in
`epoll_wait` for ever, and the pool is gone or its workers sleep.

**Fairness.**  `WF_vars(Server)`: the loop is the whole program, `epoll_wait`
returns when something is ready, sockets are non-blocking, and no handler waits
for anything inside an action.  A handler may fail to return all the same: then
`Spinning` disables `Server`, fairness asks for nothing, and `HangupReleased` and
`EveryConnectionAccepted` name that as their exception.  No fairness is
assumed of clients in `EventLoop`, but in `loop_http` they neither reset nor
ask for backwards ranges: with these `ResumeSafe` is false there, as a
consequence of finding 3.  `Upload` also assumes `WF_vars(Client)`: the client is a sequential
program whose calls return when the kernel can serve them; `ClientAbort` is not
in it, so a killed client is possible but never required.  `Download` and `Http`
assume the same two; nothing of `Download`'s environment, no request and no
replaced page is ever required.  `ThreadPool` assumes
that the operating system runs every thread that can run: weak fairness of each
worker's code, of `notify_one` and of the owner once in `shutdown_pool`;
neither submitting, nor shutting down, nor a spurious wakeup is fair.
`UploadCompletes` is about clients that finish.

**What the liveness properties say.**  `EveryConnectionAccepted` asks nothing
while the table is full: then `accept` fails with EMFILE and spends the edge
(listed as a hazard).  Both it and `HangupReleased` end where a coroutine spins.
`UploadCompletes` excepts an upload that an alarm closed.  `DownloadEnds` names three exceptions, all of them the
code's: a file that shrank, a name that is no regular file, and `Spinning`.
`Answered` is for careful clients.  The three modules each have a
`BlocksOwingNothing`, the safety behind `UploadCompletes`, `DownloadEnds` and
`Answered`.

## 4. Findings

Four disagreements between the program and what its documents, messages or
tests say; each is a run that must find its violation.

1. **A closing client loses its upload** (`upload_close`).  The loop tests
   EPOLLRDHUP before EPOLLIN (`server.hpp` 180) and drops the unread bytes.
   `sft.out -f` exits as soon as `sendfile` returns, so bytes and FIN are
   normally reported together.  The client has printed its success (`main.cpp`
   161).
2. **A request behind an upload is not read** (`upload_get`).
   `handle_sft_upload` reads to the last byte of the file, not to EAGAIN
   (`server.hpp` 301).  `test.cpp` 40-42 sends such a request.
3. **A coroutine survives its connection** (`loop_reuse`).  After a failed
   `sendfile64` `handle_http` closes the socket and yields with
   `is_write_awaiting` set (`server.hpp` 569).  A client that asks for a range
   that ends before it starts is enough (517-520); one that resets its
   connection does it too.  The client is still there, so no hang-up removes the
   entry; `data_info::operator=` keeps task and flags (line 52); and the events
   of the next connection with that number resume the old coroutine, which
   closes it.  If that connection starts an upload instead, the flag survives the
   upload as well, and the next EPOLLOUT resumes a coroutine that has ended.
4. **The timer closes somebody else's File** (`loop_idle`).  Handlers that
   close their own connection leave entry and timer behind; when these expire
   the loop closes the number again (`server.hpp` 193).

`loop_sft` says where 3 and 4 do *not* happen, among sft connections as long as
no alarm fires; the theorems of section 5 say it for connections of both kinds,
3 if no HTTP connection is reset and no range runs backwards, and 4 even if
some are and do.

**Observations.**  Behaviour of the code that the models contain and that no
document clearly promises otherwise; properties name these as their exceptions.

* Without `sft.json` the server aborts: `file_exception` is no
  `std::exception`, so neither handler around the settings takes it
  (`server.hpp` 140, `logger.hpp` 71).  README.md 28 promises defaults for
  settings, and says nothing of a missing file.
* Legal JSON that the parser does not read: a tab before a colon, a blank in an
  empty array or object, negative numbers.  The server then runs without any
  setting, not even the default page, since the defaults are set behind the
  parser (`server.hpp` 121), although README.md 28 promises them for settings
  that the user does not make.
* A quote with its backslash inside a string ends the string (`json.hpp` 87-95).
  What follows is taken for the rest of the file: the settings are refused, or
  the parser runs off the end of its buffer and may hang or fault.
* A setting other than `ListenPort` that is no string ends the server with
  `exit(0)`; a file cut inside an array may hang it.  `ListenPort` is cut to 16
  bits; one that is an array or an object is port 0, any number the kernel
  likes, because a new `Val` holds a 0 (`json.hpp` 16, `server.hpp` 127-130).
* A `LogPath` inside another member may be taken for the log's (`json.hpp` 57).
* `sft.out -n` with an option and no address reads a null `argv`; one argument
  that is no option starts a server; a client with an address and no option
  prints success.
* Ranges: with an end before the page's last byte the body runs past its
  Content-Length; with an end past it the header announces too much; an empty
  range, or one that starts past the end, never leaves the `sendfile64` loop
  and hangs the whole server; one that runs backwards closes the connection and
  leaves its entry to the next one of that number (finding 3).
* The idle timer looks at events only: at the second alarm without one it closes
  a keep-alive connection, a paused upload or a slow download whose client
  waits.  A large download then prints its success for what it has.
* A header line without a value throws before the text is cleared: every later
  request of the connection is answered 403 unread (`http.hpp` 256).  Requests
  in two segments are answered twice.  `Connection: close` is not looked at
  behind 304, 403 and 404.
* `decode_url` takes lower-case hex digits for others (`util.hpp` 217).
* A small download whose server stops in the middle never ends (`client.hpp`
  79); a large one prints success for what it has.
* On the first line of a new day the log reads `sft.json` again; if it is gone
  by then, the server aborts, or a coroutine loses its answer.

## 5. Proofs

`EventLoopProofs` proves, for every set of descriptor numbers, every set of sft
and HTTP clients and any number of alarms:

* `TypeCorrect`: `Spec => []TypeOK`.
* `NothingUntracked`: `Spec => []Tracked` (checked on an instance by
  `loop_ticks`);

and for every set of numbers and clients and every way of leaving, as long as
no alarm fires (`MaxTicks = 0`):

* `FilesKept`: `Spec => []HoldsItsFile`;

and, for every set of descriptor numbers and clients, under
`Calm` -- no alarm fires, and there are no HTTP clients or none of them resets
its connection or asks for a range that ends before it starts:

* `OnlyLiveResumed`: `Spec => []ResumeSafe`.
* `SessionsApart`: `Spec => []OwnSession`.

Neither condition is a convenience: with alarms `loop_idle` is a counterexample
to `FilesKept`, and with backwards ranges `loop_reuse` is one to
`SessionsApart` (with resets instead, so is the same instance).  The runs
`loop_sft` and `loop_http` are the two instances of `Calm`.

**Assumptions**: the named ones of `EventLoop` -- descriptor numbers are
natural numbers, `NoClient` is no client, no client speaks both protocols on
one connection (`sft.out` and browsers do not), `HangUps` holds only the two
hang-ups, `Backwards` is a Boolean, `MaxTicks` is a number -- and `MaxTicks = 0` or `Calm` where it is said.

**Argument of the first part.**  `Tracked` alone is not inductive.  If an ended
coroutine could still name a File, destroying its entry would close a number
that is somebody else's; and if an idle HTTP coroutine could, resuming it would
forget an open File.  `FileInScope` excludes both: only the six tasks whose
code has a `File` in scope (`HoldsFile`, the one that spins included) hold one.  The invariant is `IInv == TypeOK /\
FileInScope /\ Tracked`.

The handlers have some thirty ways out, but touch the server's state in one
shape: they leave one `data_info`, close a set of numbers and open at most one.
`Effect` states what every way out respects: a File that is opened goes into
the frame of a coroutine left suspended; the File found in the frame is closed
or kept in the frame; and an ended coroutine has none.  One lemma per handler
shows `Effect`; `DispatchInv` shows that `Touch /\ Effect` keeps `IInv`,
`EraseInv` that closing and erasing any set of entries does (the disconnect,
the unknown request and the tick), and `NextInv` puts them together.

**Argument for the Files.**  A File can be lost in three ways: another frame
shares its number and ends, a handler closes the socket number of its own
connection when that has become a File, or the timer closes it.  `FileInv` adds
to `HoldsItsFile` what excludes the first two: `FilesApart` (no two frames hold
one number) and `Occupied` (an undispatched event belongs to a number that is a
socket now).  Both hold because only the connection's own handling closes what
it holds; `Keeps` says so of each way out of each handler, those on a broken
HTTP connection and a refused range included, and `KeepsFileInv` that it is enough.

**Argument for the sessions.**  `SessionInv` adds what ties the four holders
of a number together:

* `Placed`: a connection has one socket, or waits in the backlog;
* `EventsCurrent`: EPOLLIN belongs to a socket with input or without a peer;
* `FlagsMatch`: the flags are those the suspended coroutine set, and an ended
  one has none -- except a `Doomed` one.  This is the heart of the proof: an
  early `co_return` on a broken connection does leave a flag set over a
  finished coroutine, and it is harmless only because the next event of that
  socket must be the hang-up, which erases the entry before the flag is looked
  at;
* `OnItsSocket`: a suspended coroutine's connection still has the number it was
  started for;
* `Silent`: a client that is being sent a file has nothing under way, so that
  no request starts a second coroutine over the first;
* `NoHttpReset`: where there are HTTP clients, no connection is reset.  (That no
  range is refused is said of the constant `Backwards`, by `Calm`.)

`Outcome` sharpens `Effect`: a handler run on the socket of `c` closes nothing
but its own number and the File of its own frame, and leaves a coroutine that
has ended with clear flags, was broken off, or waits for `c`.
`OthersUntouched` shows that then no socket of another connection changes,
`StepSession` that the invariant holds again, and one lemma per
handler that it has an `Outcome`.

### The transfers

`UploadProofs` proves, for every set of file sizes, every `MAXARRSZ` and
`NUMSTOP`, every window and every kind of client:

* `Typing`: `Spec => []TypeOK`, which includes that the receive buffer never
  holds more than the window and the one request behind it.
* `NothingIsLost`, `OnlySentIsStored`, `SuccessIsStored`: the three invariants
  that the run `upload` checks (`NothingLost`, `StoredWasSent`,
  `CompleteIsStored`).
* `NeverAsleep`: `Spec => []BlocksOwingNothing`.
* `UploadDelivers`: `Spec => Delivers`, the refinement of `Delivery`.

`DownloadProofs` proves the same for the other direction, with a client that
may be killed, a server that may be stopped and a file that may be replaced at
any step: `Typing`, `NothingIsLost`, `EveryByteIsInPlace`, `SuccessIsFetched`,
`NeverAsleep`, `DownloadDelivers`, and

* `EndedStaysEnded`: `Spec => EndedIsNotResumed`, an action property.  Where
  `sendfile` gives up on a file that has become shorter, the coroutine ends
  with `is_write_awaiting` still set; resuming it would be undefined behaviour.
  No event does so before the client's hang-up, which erases the entry.

**Assumptions**: a size is a natural number, `NUMSTOP` is at least 1 and less
than `MAXARRSZ`, a window has room for one byte, and `Afters` (what a client
does behind its upload) holds only what the model knows.  The code's constants
satisfy them.

**Argument.**  `NothingLost` says that disk, buffer and socket, put together,
are what was sent.  That is not inductive: it needs to be known *which* of the
handler's code can run when bytes move.  `Protocol` (upload) and `Asking` with
`Resuming` (download) say so: one request, one code or size, one flag; the
coroutine is the only reader and is resumed until it has an outcome; the
counters agree with the lengths of file and buffer.  In the download the
delicate part is `Resuming`: which edge is still to come follows from whether
the last `sendfile` ran out of room, and a coroutine that has ended is never
resumed because none is to come but the hang-up's.

The streams are taken apart through `Cat`, an opaque concatenation: a step
moves a piece from the front of one sequence to the end of the one before it,
so the stream is the same or shorter, and only lengths and places are compared.

`NeverAsleep` is what liveness leaves to be shown when fairness is taken away:
`epoll_wait` returns if there is an edge, so it must never block over something
to do.  The invariants above say which bytes exist, not who will move them;
`Attended` adds that.  In the upload: the end of the stream and every byte that
is unread while the loop waits have an edge to come (`EndSeen`, `Roused`; a
byte that arrives during a read does, although the read takes it), the first
request is in the socket or in hand (`Requested`), and only an end breaks an
upload off (`Grounded`).  Then an upload that waits with an empty socket is
short of bytes the client still has to send (`WaitingIsShort`).  In the
download the client waits for the server, so it is the room in the send buffer
that must not be missed: `Sending` says that the handler sends, or has sent
everything, or is suspended over a full buffer or an edge to come; `Answered`
that a client without a size has its request in the socket; `Short` that a
client that reads is short of bytes.

The refinement splits the steps by what they do to the abstract state: `Unmoved`
(offering more, or nothing), `Grows`, `Succeeds` and `BreaksOff` in the upload,
and each of the four is a step of `Delivery` (`PromiseNext`); that every step is
one of the four (`StepKinds`) is where the invariant is used.

### HTTP

`HttpProofs` proves, for every set of requests (pages and ranges of any size),
any number of them on a connection and every window, with the client leaving,
pipelining or splitting its requests and the page replaced at any time:

* `Typing`, `FramedAlways`, `UnaskedNever`, `OddRangesSpinOnly` and
  `ClosesForCause`: the five invariants that the run `http` checks.

**Assumptions**: requests are records of the stated form (sizes and the bounds
of ranges are natural numbers), `MaxRequests` is a number and the window has
room for one token.

**Argument.**  None of the five is inductive, nor is the type invariant: a
resumed coroutine goes where it was suspended, and only `Resuming` says that it
was suspended at all.  The flags survive the coroutine: when `AnswerFails` ends
one, or `decide_action` replaces one, they stay up.  `Resuming` shows that this
is harmless on one connection: a flag that is up while its coroutine is gone
implies that the client has left, and then the next event is its hang-up.  (On
the *next* connection of that number it is not harmless; that is finding 3.)

`Numbered` is behind `UnaskedNever`: the headers on the wire, the requests in
`data_info::requests` and those in the socket carry rising numbers, in that
order, and all of them are among those the client still waits for.  A lost
header (`EAGAIN` on `write`) leaves a gap, never a surplus.

`LastAnswer` is behind `FramedAlways`: for a careful client the bytes it has
received, the tokens on the wire and what `sendfile64` has still to send are
the front, the middle and the end of *one* answer, the one to its last request,
and `off` is where the wire ends.  A careful client never makes `Put` run out
of room in the middle of an answer of which more would come, because a new
request finds the wire empty (`Idle`); that is what makes the loss of tokens in
`Put` invisible to it.  (With a window of one token the end of an error page,
its second write, is lost; the client then waits for it, which `Framed`
allows.)

`HttpWakeupProofs` proves `NeverAsleep`: `Spec => []BlocksOwingNothing`.  It is
the safety behind `Answered`; what it leaves to fairness is that `epoll_wait`
returns and that the client reads.  **Assumptions**: those above and
`ErrorPageFits`, that the window is not one token: a socket with room for half
an error page would lose the other half, for `Put` does not retry (in the code:
two `write`s of a few hundred bytes to a socket that is empty, because the
client waits for each answer).

**Argument.**  `HttpProofs`'s invariant says which bytes exist, not who will
move them; `Attended` adds that, for a careful client.  A request that is not
read has an edge to come, is in the batch being dispatched, or is being read
(`Roused`).  A coroutine suspended in the `sendfile64` loop has its `writing`
flag up and bytes to send (`Yielded`): without the flag the EPOLLOUT that comes
is ignored, and with edge triggering none comes again.  And once the last
request is read, its answer is complete on the wire, is in the `sendfile64`
loop, or waits suspended with an edge to come -- now, or, since the socket
reported no space and something is on the wire, when the client next reads
(`UnderWay`).  If `epoll_wait` blocks with an empty wire, the first and the
third leave only a complete answer.

### Thread pool

`ThreadPoolProofs` proves, for every set of workers, submitters and tasks,
finite or not, `Typing` and `AccountedAlways` (`Spec => []Accounted`).
`Accounted` counts how often a task occurs; a count is not what a step
preserves.  The inductive invariant `Exclusive` says it place by place: a task
has one position in the queue, or one worker that holds it, or has been called
(`ExclusiveAlways`).  **Assumptions**: `NoWorker` and `NoTask` are none.

### Start and settings

`StartupProofs` proves, for every set of command lines, of documents, styles and
page names:

* `PagesAlwaysFound`: `Spec => []PagesFound`, for names of any length and every
  choice of the characters that are escaped.

and, of a parser that keeps its contract, `Spec /\ []SettingsRead => []P` for

* `ConfiguredInFull` (`Configured`), `LogInPlace` (`LogsWhereConfigured`),
  `OptionsHold` (`OptionsAsDocumented`) and `Typing` (`TypeOK`).

So whatever is wrong between `sft.json` and a running server, as these say it,
is wrong in `json_parser`; and that TLC checks on the texts of `startup`.
`ConfiguredInFull` says nothing of a document with a quote in a string, of which
the contract owes nothing; `OptionsHold` needs no more of the contract than how
a reading can come out.

**Assumptions**: `InputsAssumption` -- a command line is a sequence of words, a
document a list of names and values, written down as some text; `MeantBy`
leaves alone what is no container, and makes a container of one --
and `NamesAssumption`: a page has a name, of bytes other than 0.

**Argument for the settings.**  `Configured` speaks of a server that answers;
nothing in it survives the loop over the hash table, which takes the members in
any order.  `Applying` says where that loop stands: the members still to be
looked at are among the document's, with the document's values; a setting whose
member is still to come has its default, and one whose member is done, or that
has none, is what the document says.  This holds after any subset of the rounds
in any order, and with no member left it is `Configured`.  `LogInv` says of the phases between `init_log` and the first
page what `LogsWhereConfigured` says of the last two; a new day's log keeps
it because what can have changed by then is only that the file is gone.
`OptionsInv` adds that a process that became a server had at most one argument,
without which a later failure of a server could be that of a client.

**Argument for getopt and the URLs.**  A recursive function has the value that
its definition gives only if such a function exists, and the library's
theorems to that effect take operators.  `Recursion` is proved instead from
what can be cited: in every set of sequences one is shortest (`Shortest`, from
the well-foundedness of strict inclusion on finite sets), so that a function
given by its values at shorter sequences exists.  `GetOptDef`, `EncodeDef` and
`DecodedDef` are its three uses.  Given these, `OptionsHold` unfolds `GetOpt` on
the command lines of the usage text, and `PagesAlwaysFound` is `RoundTrip`: what
`Encode` makes of a name, `Decoded` turns back into it.  That is an induction
from the end of the name, on the shortest that is not turned back, with one
lemma for an escaped character and one for a plain one.  It needs the upper-case
digits of `UpperHex` for the one and `MustEscape` (`%` and `?`) for the other.

### What is only model-checked

* Liveness (`HangupReleased`, `EveryConnectionAccepted`, `UploadCompletes`,
  `DownloadEnds`, `Answered`, `AwakeWorkerDrains`, `ShutdownEnds`): fairness is
  out of the prover's reach.
* `SettingsRead` and `StopsForCause`, the two invariants of a run that no
  theorem states.  The
  parser and the writer are RECURSIVE operators, and what they do to a document
  of any depth is an induction over data, both out of reach; it is a hypothesis
  of four theorems above, and the run `startup` checks it on every document,
  style and cut of the instance.  `StopsForCause` is mostly about what the
  parser does with a text it does not cope with (whether it returns, and to
  whom); a theorem with `SettingsRead` as its hypothesis would assume that.
* `OwnSession` and `ResumeSafe` outside of `Calm`, and `HoldsItsFile` with
  alarms, are not theorems: `loop_reuse` and `loop_idle` are counterexamples to
  the first and the last.

Every invariant above was checked by TLC on the runs' instances before it was
proved; for `Http` also with a window of 1 and three requests.

## 6. Plan

In this order; all of it is done.

1. `EventLoop` and its runs: all descriptors, all coroutines.
2. `EventLoopProofs`: types and `Tracked` for every instance, Files and
   sessions where they are kept apart.
3. `Upload`: the bytes of an upload.
4. `ThreadPool`: submit, workers with their wait outside the queue's lock,
   shutdown.
5. `Delivery`, the abstract promise of a transfer; `Download`; `Upload` and
   `Download` refine it.
6. `Http`: requests and answers of one keep-alive connection.
7. `JsonParser`, `Documents`, `Url`, `Startup`: the settings, the log, the
   command line.
8. Theorems: `NothingLost` and `StoredWasSent` for every size and buffer, of
   `Upload` and of `Download`, with the refinement of `Delivery`; `Accounted`
   for every number of workers and tasks; the safety of `Http`; for the
   three protocols the edges that a waiting client depends on; and the way from
   the command line and the settings to the page.

Runs are kept to a handful per module, with the bounds chosen so that numbers
are reused, buffers wrap and queues fill.

## 7. Not modelled

* The wording of HTTP headers, dates, tags and MIME types, of log lines, usage
  texts and progress bars: pure output, nothing depends on it.
* Numerals outside of the few that `JsonParser` names: digits are not put
  together one by one.  `std::stoll` throws for longer ones, which is what the
  parser does with any token it does not know.
* Escapes in `sft.json` other than an escaped quote: both `json_parser` and the
  model's writer leave them as they are spelled, and a setting with one is
  compared as spelled.
* HTTP requests other than GET and POST, and the body of a POST: the parser
  keeps one line of it and nobody looks.
* URLs that end within an escape (read past their end).
* The resolver and socket options, `inet_aton`, signal installation, `mkdir`.
* Short or failed disk writes.
* TCP's own behaviour beyond order, edges and resets.
* SIGALRM from outside the program: two bytes read at once would drop the batch
  and never set the alarm again (listed as a hazard).
