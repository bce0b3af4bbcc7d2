------------------------------ MODULE EventLoop ------------------------------
(***************************************************************************)
(* The server's single thread: the epoll loop of receive_loop::loop, the   *)
(* map of connections and the idle timer it keeps, and the life of the     *)
(* coroutine that serves each connection (src/src/server.hpp).             *)
(*                                                                         *)
(* Connections and files share one table of descriptor numbers: the code   *)
(* names a connection by its number everywhere (the epoll event, the key   *)
(* of `connections', the key of the timer), and the kernel gives a number  *)
(* away again as soon as it is closed.  What a handler sends and stores is *)
(* abstracted to whether it yields, ends, fails or closes; the modules of  *)
(* the handlers refine that.                                               *)
(***************************************************************************)
EXTENDS Integers

CONSTANTS Fd,           \* descriptor numbers free for connections and files
          SftClient,    \* connections opened by sft.out in client mode
          HttpClient,   \* connections opened by HTTP clients
          NoClient,
          HangUps,      \* how clients leave: "fin" closes, "rst" breaks off
          Backwards,    \* whether HTTP clients ask for ranges that end
                        \* before they start
          MaxTicks      \* bound: how often ALARM_TIME may elapse

Client == SftClient \cup HttpClient

ASSUME FdAssumption == Fd \subseteq Nat
ASSUME ClientAssumption == NoClient \notin Client
ASSUME KindsAssumption == SftClient \cap HttpClient = {}
ASSUME HangUpsAssumption == HangUps \subseteq {"fin", "rst"}
ASSUME BackwardsAssumption == Backwards \in BOOLEAN
ASSUME TicksAssumption == MaxTicks \in Nat

NoFd == -1
Descriptor == {"free", "sock", "file"} \X (Client \cup {NoClient})
Free == <<"free", NoClient>>
Sock(c) == <<"sock", c>>
FileOf(c) == <<"file", c>>

\* Where a coroutine is suspended, by the co_yield it stands at; the one in the
\* sendfile64 loop of handle_http by why it yields: "httpSend" for want of room,
\* "httpRefused" because the kernel refuses the range.
Suspended == {"upload", "flag", "send", "httpSend", "httpRefused", "httpIdle"}

\* "httpSpin": a coroutine that never leaves that loop (sendfile64 returns 0).
Alive == Suspended \cup {"httpSpin"}
HoldsFile == Alive \ {"httpIdle"}    \* a File is in scope there
Task == {"none", "done"} \cup Alive

\* A data_info: the coroutine, the connection it was started for, the number
\* of the File in its frame, and the two flags that decide who resumes it.
DataInfo(task, of, file, r, w) ==
    [task |-> task, of |-> of, file |-> file,
     is_read_awaiting |-> r, is_write_awaiting |-> w]
DataInfos == [task : Task, of : Client \cup {NoClient}, file : Fd \cup {NoFd},
              is_read_awaiting : BOOLEAN, is_write_awaiting : BOOLEAN]
NewDataInfo == DataInfo("none", NoClient, NoFd, FALSE, FALSE)

VARIABLES
    peer,        \* what the client has done to its end of the connection
    backlog,     \* connections the kernel completed and nobody accepted
    input,       \* input[c]: bytes of c wait unread in the server's kernel
    full,        \* full[c]: the send buffer towards c is full
    ready,       \* epoll's ready list: clients whose socket had an edge
    listenEdge,  \* the listening socket had an edge
    alarmByte,   \* the SIGALRM handler's byte lies in the socket pair
    ticks,       \* alarms so far
    fdt,         \* the descriptor table
    entry,       \* the keys of `connections'
    conn,        \* the values of `connections'
    timer,       \* the keys and ages in `clock'
    ev,          \* events of this epoll_wait, by number, not yet dispatched
    evListen,    \* the listening socket's event, and whether accept() runs
    evAlarm      \* the socket pair's event

vars == <<peer, backlog, input, full, ready, listenEdge, alarmByte, ticks,
          fdt, entry, conn, timer, ev, evListen, evAlarm>>

TypeOK ==
    /\ peer \in [Client -> {"away", "up", "fin", "rst"}]
    /\ backlog \subseteq Client
    /\ input \in [Client -> BOOLEAN]
    /\ full \in [Client -> BOOLEAN]
    /\ ready \subseteq Client
    /\ listenEdge \in BOOLEAN
    /\ alarmByte \in BOOLEAN
    /\ ticks \in 0..MaxTicks
    /\ fdt \in [Fd -> Descriptor]
    /\ entry \subseteq Fd
    /\ conn \in [Fd -> DataInfos]
    /\ timer \in [Fd -> {"absent", "fresh", "old"}]
    /\ ev \in [Fd -> SUBSET {"IN", "OUT", "HUP"}]
    /\ evListen \in {"none", "pending", "accepting"}
    /\ evAlarm \in BOOLEAN

Init ==
    /\ peer = [c \in Client |-> "away"]
    /\ backlog = {}
    /\ input = [c \in Client |-> FALSE]
    /\ full = [c \in Client |-> FALSE]
    /\ ready = {}
    /\ listenEdge = FALSE
    /\ alarmByte = FALSE
    /\ ticks = 0
    /\ fdt = [n \in Fd |-> Free]
    /\ entry = {}
    /\ conn = [n \in Fd |-> NewDataInfo]
    /\ timer = [n \in Fd |-> "absent"]
    /\ ev = [n \in Fd |-> {}]
    /\ evListen = "none"
    /\ evAlarm = FALSE

------------------------------------------------------------------------------
(* The clients and the kernel. *)

IsOpen(c) == \E n \in Fd : fdt[n] = Sock(c)
InPlay(c) == c \in backlog \/ IsOpen(c)

\* connect(): the handshake ends in the backlog, whatever the server does.
Connect(c) ==
    /\ peer[c] = "away"
    /\ peer' = [peer EXCEPT ![c] = "up"]
    /\ backlog' = backlog \cup {c}
    /\ listenEdge' = TRUE
    /\ UNCHANGED <<input, full, ready, alarmByte, ticks,
                   fdt, entry, conn, timer, ev, evListen, evAlarm>>

\* Bytes arrive.  A sft client reads a whole file before it writes again; an
\* HTTP client may send its next request at any time.
Send(c) ==
    /\ peer[c] = "up"
    /\ InPlay(c)
    /\ c \in SftClient =>
         \A n \in Fd : fdt[n] = Sock(c) => conn[n].task # "send"
    /\ input' = [input EXCEPT ![c] = TRUE]
    /\ ready' = IF IsOpen(c) THEN ready \cup {c} ELSE ready
    /\ UNCHANGED <<peer, backlog, full, listenEdge, alarmByte, ticks,
                   fdt, entry, conn, timer, ev, evListen, evAlarm>>

\* The client ends its side (FIN) or the connection breaks (RST).
HangUp(c, how) ==
    /\ \/ peer[c] = "up"
       \/ peer[c] = "fin" /\ how = "rst"
    /\ InPlay(c)
    /\ peer' = [peer EXCEPT ![c] = how]
    /\ ready' = IF IsOpen(c) THEN ready \cup {c} ELSE ready
    /\ UNCHANGED <<backlog, input, full, listenEdge, alarmByte, ticks,
                   fdt, entry, conn, timer, ev, evListen, evAlarm>>

\* The client reads: a full send buffer has room again, an edge for EPOLLOUT.
Drain(c) ==
    /\ full[c]
    /\ IsOpen(c)
    /\ full' = [full EXCEPT ![c] = FALSE]
    /\ ready' = ready \cup {c}
    /\ UNCHANGED <<peer, backlog, input, listenEdge, alarmByte, ticks,
                   fdt, entry, conn, timer, ev, evListen, evAlarm>>

\* alarm_handler.  The alarm is set again only when the loop has read the
\* byte, so two bytes never wait together.
Alarm ==
    /\ ticks < MaxTicks
    /\ ~alarmByte
    /\ ticks' = ticks + 1
    /\ alarmByte' = TRUE
    /\ UNCHANGED <<peer, backlog, input, full, ready, listenEdge,
                   fdt, entry, conn, timer, ev, evListen, evAlarm>>

Environment ==
    \/ \E c \in Client : Connect(c) \/ Send(c) \/ Drain(c)
    \/ \E c \in Client, how \in HangUps : HangUp(c, how)
    \/ Alarm

------------------------------------------------------------------------------
(* epoll_wait and the descriptor table. *)

\* Mutant of Mask: the socket is added to epoll without EPOLLRDHUP.
MaskWithoutRdhup(c) ==
    (IF input[c] \/ peer[c] # "up" THEN {"IN"} ELSE {})
        \cup (IF full[c] THEN {} ELSE {"OUT"})
        \cup (IF peer[c] = "rst" THEN {"HUP"} ELSE {})

\* What epoll reports of a socket: EPOLLIN, EPOLLOUT, and EPOLLRDHUP,
\* EPOLLHUP and EPOLLERR together, as the loop tells them apart.
Mask(c) ==
    (IF input[c] \/ peer[c] # "up" THEN {"IN"} ELSE {})
        \cup (IF full[c] THEN {} ELSE {"OUT"})
        \cup (IF peer[c] # "up" THEN {"HUP"} ELSE {})

Fetched == [n \in Fd |-> UNION {Mask(c) : c \in {d \in ready : fdt[n] = Sock(d)}}]

BatchDone == (\A n \in Fd : ev[n] = {}) /\ evListen = "none" /\ ~evAlarm

\* Connections are edge-triggered: an event not acted on is not reported
\* again.  The socket pair is level-triggered.
EpollWait ==
    /\ BatchDone
    /\ ev' = Fetched
    /\ evListen' = IF listenEdge /\ backlog # {} THEN "pending" ELSE "none"
    /\ evAlarm' = alarmByte
    /\ ~BatchDone'
    /\ ready' = {}
    /\ listenEdge' = FALSE
    /\ UNCHANGED <<peer, backlog, input, full, alarmByte, ticks,
                   fdt, entry, conn, timer>>

\* POSIX gives out the lowest free number.
Lowest(x) ==
    /\ fdt[x] = Free
    /\ \A n \in Fd : fdt[n] = Free => x <= n

\* The numbers in shut are closed (an open socket leaves epoll with its last
\* descriptor), the number open becomes a File of connection c.
Descriptors(shut, open, c) ==
    /\ fdt' = [n \in Fd |-> IF n \in shut THEN Free
                            ELSE IF n = open THEN FileOf(c) ELSE fdt[n]]
    /\ ready' = {d \in ready : \A n \in Fd \cap shut : fdt[n] # Sock(d)}

\* Mutant of Frames: ~co_handle does not destroy the coroutine.
FramesLeaked(gone) == gone

\* The frame of a coroutine holds its File as long as the coroutine is
\* suspended: destroying the data_info of n closes it.
Frames(gone) == gone \cup {conn[n].file : n \in gone}

\* close_connection, clock.erase_value and connections.erase of some numbers.
Erase(gone) ==
    /\ Descriptors(Frames(gone), NoFd, NoClient)
    /\ entry' = entry \ gone
    /\ conn' = [n \in Fd |-> IF n \in gone THEN NewDataInfo ELSE conn[n]]

------------------------------------------------------------------------------
(* The loop's own branches. *)

\* Mutant of AcceptOne: one accept() per event, as for a level-triggered socket.
AcceptOnce ==
    /\ evListen = "pending"
    /\ evListen' = "none"
    /\ \E c \in backlog, x \in Fd :
         /\ Lowest(x)
         /\ fdt' = [fdt EXCEPT ![x] = Sock(c)]
         /\ backlog' = backlog \ {c}
         /\ ready' = ready \cup {c}
         /\ entry' = entry \cup {x}
         /\ timer' = [timer EXCEPT ![x] = "fresh"]
    /\ UNCHANGED <<peer, input, full, listenEdge, alarmByte, ticks,
                   conn, ev, evAlarm>>

\* accept() until EAGAIN; nothing else of the batch comes between.  The move
\* assignment of data_info sets the socket alone: what an old entry of that
\* number still holds stays in place.
\* Adding the socket to epoll reports what it is ready for at once.
AcceptOne ==
    /\ evListen \in {"pending", "accepting"}
    /\ evListen' = "accepting"
    /\ \E c \in backlog, x \in Fd :
         /\ Lowest(x)
         /\ fdt' = [fdt EXCEPT ![x] = Sock(c)]
         /\ backlog' = backlog \ {c}
         /\ ready' = ready \cup {c}
         /\ entry' = entry \cup {x}
         /\ timer' = [timer EXCEPT ![x] = "fresh"]
    /\ UNCHANGED <<peer, input, full, listenEdge, alarmByte, ticks,
                   conn, ev, evAlarm>>

\* Mutant of AcceptEnd: the result of accept() is stored before it is tested.
AcceptEndStored ==
    /\ evListen \in {"pending", "accepting"}
    /\ backlog = {} \/ \A x \in Fd : fdt[x] # Free
    /\ evListen' = "none"
    /\ entry' = entry \cup {NoFd}
    /\ UNCHANGED <<peer, backlog, input, full, ready, listenEdge, alarmByte,
                   ticks, fdt, conn, timer, ev, evAlarm>>

\* EAGAIN, or the exception of an accept that finds no descriptor (EMFILE).
AcceptEnd ==
    /\ evListen \in {"pending", "accepting"}
    /\ backlog = {} \/ \A x \in Fd : fdt[x] # Free
    /\ evListen' = "none"
    /\ UNCHANGED <<peer, backlog, input, full, ready, listenEdge, alarmByte,
                   ticks, fdt, entry, conn, timer, ev, evAlarm>>

\* Mutant of Disconnect: connections.erase is forgotten.
DisconnectKeepsEntry(n) ==
    /\ "HUP" \in ev[n]
    /\ evListen # "accepting"
    /\ ev' = [ev EXCEPT ![n] = {}]
    /\ Descriptors({n}, NoFd, NoClient)
    /\ timer' = [timer EXCEPT ![n] = "absent"]
    /\ UNCHANGED <<peer, backlog, input, full, listenEdge, alarmByte, ticks,
                   entry, conn, evListen, evAlarm>>

\* EPOLLRDHUP, EPOLLHUP or EPOLLERR: tested before EPOLLIN, so unread bytes
\* and the suspended coroutine go with the connection.
Disconnect(n) ==
    /\ "HUP" \in ev[n]
    /\ evListen # "accepting"
    /\ ev' = [ev EXCEPT ![n] = {}]
    /\ Erase({n})
    /\ timer' = [timer EXCEPT ![n] = "absent"]
    /\ UNCHANGED <<peer, backlog, input, full, listenEdge, alarmByte, ticks,
                   evListen, evAlarm>>

\* One alarm is one interval: an entry is expired when nothing has touched it
\* since the alarm before.  clear_expired stops at the first entry that is
\* not, in an order of its own (a hash table's).
ClearExpired(gone) ==
    LET old == {n \in Fd : timer[n] = "old"}
    IN  /\ gone \subseteq old
        /\ (\A n \in Fd : timer[n] # "fresh") => gone = old
        /\ timer' = [n \in Fd |-> IF n \in gone \/ timer[n] = "absent"
                                  THEN "absent" ELSE "old"]

Tick ==
    /\ evAlarm
    /\ evListen # "accepting"
    /\ evAlarm' = FALSE
    /\ alarmByte' = FALSE
    /\ \E gone \in SUBSET Fd : ClearExpired(gone) /\ Erase(gone)
    /\ UNCHANGED <<peer, backlog, input, full, listenEdge, ticks, ev, evListen>>

\* Every other event: connections[react_fd] makes the entry if there is none,
\* and insert_or_update the timer.
Readable(n) == "IN" \in ev[n] /\ "HUP" \notin ev[n] /\ evListen # "accepting"
Writable(n) == ev[n] = {"OUT"} /\ evListen # "accepting"

Touch(n) ==
    /\ ev' = [ev EXCEPT ![n] = {}]
    /\ entry' = entry \cup {n}
    /\ timer' = [timer EXCEPT ![n] = "fresh"]
    /\ UNCHANGED <<peer, backlog, listenEdge, alarmByte, ticks, evListen, evAlarm>>

\* EPOLLOUT for a connection whose coroutine does not wait for it.
IgnoreWritable(n) ==
    /\ Writable(n)
    /\ ~conn[n].is_write_awaiting
    /\ Touch(n)
    /\ UNCHANGED <<input, full, ready, fdt, conn>>

------------------------------------------------------------------------------
(* What the handlers do between two suspensions.  Each runs inside the     *)
(* dispatch of one event; the bytes that arrive meanwhile are those that   *)
(* arrive just before it or just after.                                    *)

\* The state of the socket under number n, as read and write report it.
Up(n) == \E c \in Client : fdt[n] = Sock(c) /\ peer[c] = "up"
Eof(n) == \E c \in Client : fdt[n] = Sock(c) /\ peer[c] = "fin"
Broken(n) == ~Up(n) /\ ~Eof(n)
HasInput(n) == \E c \in Client : fdt[n] = Sock(c) /\ input[c]

\* The File in the frame of n is still the descriptor the handler opened.
OwnsFile(n) == conn[n].file \in Fd /\ fdt[conn[n].file] = FileOf(conn[n].of)

ReadAll(n) == input' = [c \in Client |-> input[c] /\ fdt[n] # Sock(c)]
Fill(n) == full' = [c \in Client |-> full[c] \/ fdt[n] = Sock(c)]

\* Mutant of Leave: a coroutine that ended keeps the number of its File, and
\* closes it a second time when the entry goes.
LeaveClosingTwice(n, d, shut, open) ==
    /\ conn' = [conn EXCEPT ![n] = IF d.task = "done"
                                   THEN [d EXCEPT !.file = conn[n].file] ELSE d]
    /\ Descriptors(shut, open, d.of)

\* The coroutine of n is now as in d; the numbers in shut were closed on the
\* way, and open (if any) is the File its frame holds.
Leave(n, d, shut, open) ==
    /\ conn' = [conn EXCEPT ![n] = d]
    /\ Descriptors(shut, open, d.of)

\* Mutant of Finished: is_write_awaiting is not cleared.
FinishedWriting(c) == DataInfo("done", c, NoFd, FALSE, TRUE)

\* How a coroutine ends: handle_sft_download and handle_http clear both flags,
\* handle_sft_upload the one it uses; an early co_return and an exception that
\* nobody catches leave them as they are.
Finished(c) == DataInfo("done", c, NoFd, FALSE, FALSE)
Received(d, c) == DataInfo("done", c, NoFd, FALSE, d.is_write_awaiting)
Abandoned(d, c) == DataInfo("done", c, NoFd, d.is_read_awaiting, d.is_write_awaiting)

\* handle_sft_upload from its first line, for the request of connection c.
\* What stands before its try block may throw: the coroutine just ends.
StartUpload(n, c) ==
    LET d == conn[n]
    IN  /\ UNCHANGED full
        /\ \/ Leave(n, Abandoned(d, c), {d.file}, NoFd)
           \/ \E x \in Fd :
                /\ Lowest(x)
                /\ \/ /\ Up(n)
                      /\ Leave(n, DataInfo("upload", c, x, TRUE, d.is_write_awaiting),
                               {d.file}, x)
                   \/ /\ Eof(n)
                      /\ Leave(n, Received(d, c), {d.file}, NoFd)
                   \* size 0 (TypeArray::read throws) or a read error
                   \/ Leave(n, Received(d, c), {d.file, n}, NoFd)

\* The same from co_yield: all there is to read is read, up to the size.
ResumeUpload(n) ==
    LET d == conn[n]
    IN  /\ d.task = "upload"
        /\ UNCHANGED full
        /\ \/ /\ Up(n)
              /\ ReadAll(n)
              /\ Leave(n, [d EXCEPT !.is_read_awaiting = TRUE], {}, NoFd)
           \/ /\ HasInput(n) \/ Eof(n)
              /\ ReadAll(n) \/ UNCHANGED input
              /\ Leave(n, Received(d, d.of), {d.file}, NoFd)
           \/ /\ Broken(n) \/ ~OwnsFile(n)
              /\ ReadAll(n)
              /\ Leave(n, Received(d, d.of), {d.file, n}, NoFd)

\* The sendfile loop of handle_sft_download with the File x: the buffer fills,
\* everything is sent, or an error leaves by co_return with the flags as they
\* are.  (A file that shrinks while it is sent is left out.)
SendLoop(n, c, x) ==
    LET d == conn[n]
    IN  \/ /\ ~Broken(n)
           /\ Fill(n)
           /\ Leave(n, DataInfo("send", c, x, FALSE, TRUE), {}, NoFd)
        \/ /\ ~Broken(n)
           /\ UNCHANGED full
           /\ Leave(n, Finished(c), {x}, NoFd)
        \/ /\ Broken(n) \/ ~OwnsFile(n)
           /\ UNCHANGED full
           /\ Leave(n, Abandoned(d, c), {x}, NoFd)

\* handle_sft_download up to the first recv of the flag.
StartDownload(n, c) ==
    LET d == conn[n]
    IN  /\ UNCHANGED full
        \* file_exception: answered with '0'
        /\ \/ Leave(n, Finished(c), {d.file}, NoFd)
           \/ \E x \in Fd :
                /\ Lowest(x)
                /\ \/ /\ Up(n)
                      /\ Leave(n, DataInfo("flag", c, x, TRUE, d.is_write_awaiting),
                               {d.file}, x)
                   \* not a regular file: invalid_argument, caught by nobody
                   \/ Leave(n, Abandoned(d, c), {d.file}, NoFd)
                   \* peer_exception: the connection ended
                   \/ /\ ~Up(n)
                      /\ Leave(n, Finished(c), {d.file, n}, NoFd)

\* recv of the flag, then the file.  A flag other than '1' closes.
ResumeFlag(n) ==
    LET d == conn[n]
    IN  /\ d.task = "flag"
        /\ ReadAll(n)
        /\ \/ HasInput(n) /\ SendLoop(n, d.of, d.file)
           \/ /\ HasInput(n) \/ ~Up(n)
              /\ UNCHANGED full
              /\ Leave(n, Finished(d.of), {d.file, n}, NoFd)
           \* resumed by EPOLLOUT, on a flag an earlier connection left set
           \/ /\ Up(n) /\ ~HasInput(n)
              /\ UNCHANGED full
              /\ Leave(n, [d EXCEPT !.is_read_awaiting = TRUE], {}, NoFd)

ResumeSend(n) ==
    /\ conn[n].task = "send"
    /\ SendLoop(n, conn[n].of, conn[n].file)
    /\ UNCHANGED input

\* One round of handle_http with the request in hand.
HttpRound(n, c) ==
    LET d == conn[n]
    IN  \* the whole answer (200, 206, 304, 403 or 404) is handed over
        \/ /\ ~Broken(n)
           /\ UNCHANGED full
           /\ Leave(n, DataInfo("httpIdle", c, NoFd, TRUE, FALSE), {d.file}, NoFd)
        \* ... and the request said Connection: close
        \/ /\ ~Broken(n)
           /\ UNCHANGED full
           /\ Leave(n, Finished(c), {d.file, n}, NoFd)
        \* sendfile64 returns EAGAIN
        \/ /\ ~Broken(n)
           /\ Fill(n)
           /\ \E x \in Fd :
                /\ Lowest(x)
                /\ Leave(n, DataInfo("httpSend", c, x, d.is_read_awaiting, TRUE),
                         {d.file}, x)
        \* sendfile64 fails: the socket is closed, the coroutine still yields
        \/ /\ Broken(n)
           /\ UNCHANGED full
           /\ \E x \in Fd :
                /\ Lowest(x)
                /\ Leave(n, DataInfo("httpSend", c, x, d.is_read_awaiting, TRUE),
                         {d.file, n}, x)
        \* ... and it fails for a client that stays, when sz is negative
        \/ /\ Backwards
           /\ UNCHANGED full
           /\ \E x \in Fd :
                /\ Lowest(x)
                /\ Leave(n, DataInfo("httpRefused", c, x, d.is_read_awaiting, TRUE),
                         {d.file, n}, x)
        \* nothing to send short of the end of the file (an empty range, or one
        \* that starts past the end): sendfile64 returns 0, for ever
        \/ /\ UNCHANGED full
           /\ \E x \in Fd :
                /\ Lowest(x)
                /\ Leave(n, DataInfo("httpSpin", c, x, d.is_read_awaiting,
                                     d.is_write_awaiting),
                         {d.file}, x)
        \* write throws, and so does the write of the 404 in the catch block
        \/ /\ Broken(n)
           /\ UNCHANGED full
           /\ Leave(n, Abandoned(d, c), {d.file}, NoFd)

\* From the co_yield at the end of a round: the next request is read until
\* EAGAIN; the end of the stream closes at once, whatever came before it.
ResumeHttpIdle(n) ==
    LET d == conn[n]
    IN  /\ d.task = "httpIdle"
        /\ ReadAll(n)
        /\ \/ HasInput(n) /\ ~Eof(n) /\ HttpRound(n, d.of)
           \/ /\ Eof(n)
              /\ UNCHANGED full
              /\ Leave(n, Finished(d.of), {n}, NoFd)
           \* read throws, and so does the write of the 404
           \/ /\ Broken(n)
              /\ UNCHANGED full
              /\ Leave(n, Abandoned(d, d.of), {}, NoFd)

\* From the co_yield in the sendfile64 loop, when it waited for room.  A count
\* that was accepted once is never refused later: what fails is the socket, or
\* a File that is not the page any more.
ResumeHttpSend(n) ==
    LET d == conn[n]
    IN  /\ d.task = "httpSend"
        /\ UNCHANGED input
        /\ \/ /\ ~Broken(n)
              /\ Fill(n)
              /\ Leave(n, [d EXCEPT !.is_write_awaiting = TRUE], {}, NoFd)
           \/ /\ ~Broken(n)
              /\ UNCHANGED full
              /\ Leave(n, DataInfo("httpIdle", d.of, NoFd, TRUE, FALSE), {d.file}, NoFd)
           \/ /\ ~Broken(n)
              /\ UNCHANGED full
              /\ Leave(n, Finished(d.of), {d.file, n}, NoFd)
           \/ /\ Broken(n) \/ ~OwnsFile(n)
              /\ UNCHANGED full
              /\ Leave(n, [d EXCEPT !.is_write_awaiting = TRUE], {n}, NoFd)
           \* the page is shorter than when it was opened
           \/ /\ UNCHANGED full
              /\ Leave(n, [d EXCEPT !.task = "httpSpin"], {}, NoFd)

\* From the same co_yield, with a count the kernel refuses: it refuses it again
\* and the socket is closed again, unless off is the end of the file by chance,
\* where the loop ends without another try.
ResumeHttpRefused(n) ==
    LET d == conn[n]
    IN  /\ d.task = "httpRefused"
        /\ UNCHANGED <<input, full>>
        /\ \/ Leave(n, [d EXCEPT !.is_write_awaiting = TRUE], {n}, NoFd)
           \/ Leave(n, DataInfo("httpIdle", d.of, NoFd, TRUE, FALSE), {d.file}, NoFd)
           \/ Leave(n, Finished(d.of), {d.file, n}, NoFd)

------------------------------------------------------------------------------
(* Dispatch. *)

\* co_handle::resume goes to wherever the coroutine is suspended.
Resume(n) ==
    \/ ResumeUpload(n)
    \/ ResumeFlag(n)
    \/ ResumeSend(n)
    \/ ResumeHttpSend(n)
    \/ ResumeHttpRefused(n)
    \/ ResumeHttpIdle(n)

ResumeReader(n) ==
    Readable(n) /\ conn[n].is_read_awaiting /\ Touch(n) /\ Resume(n)

ResumeWriter(n) ==
    Writable(n) /\ conn[n].is_write_awaiting /\ Touch(n) /\ Resume(n)

\* decide_action read a request the server knows, from connection c.  The
\* read that ended its loop left errno at EAGAIN.
Request(n, c) ==
    /\ Readable(n)
    /\ ~conn[n].is_read_awaiting
    /\ fdt[n] = Sock(c)
    /\ input[c]
    /\ ReadAll(n)
    /\ Touch(n)

StartFile(n) == \E c \in SftClient : Request(n, c) /\ StartUpload(n, c)
StartGet(n) == \E c \in SftClient : Request(n, c) /\ StartDownload(n, c)
StartHttp(n) == \E c \in HttpClient : Request(n, c) /\ HttpRound(n, c)

\* handle_sft_mesg writes the code and returns: no coroutine, no flag.
Message(n) ==
    /\ \E c \in SftClient : Request(n, c)
    /\ UNCHANGED <<full, ready, fdt, conn>>

\* decide_action returned -1: an unknown first letter, a read error, or an end
\* of the stream while errno happens not to be EAGAIN.
UnknownRequest(n) ==
    /\ Readable(n)
    /\ ~conn[n].is_read_awaiting
    /\ ReadAll(n)
    /\ ev' = [ev EXCEPT ![n] = {}]
    /\ Erase({n})
    /\ timer' = [timer EXCEPT ![n] = "absent"]
    /\ UNCHANGED <<peer, backlog, full, listenEdge, alarmByte, ticks,
                   evListen, evAlarm>>

Handle(n) ==
    \/ Disconnect(n)
    \/ ResumeReader(n)
    \/ ResumeWriter(n)
    \/ IgnoreWritable(n)
    \/ StartFile(n)
    \/ StartGet(n)
    \/ StartHttp(n)
    \/ Message(n)
    \/ UnknownRequest(n)

\* A coroutine that spins keeps the one thread: the loop never goes on.
Spinning == \E n \in Fd : conn[n].task = "httpSpin"

Server ==
    /\ ~Spinning
    /\ \/ EpollWait
       \/ AcceptOne
       \/ AcceptEnd
       \/ Tick
       \/ \E n \in Fd : Handle(n)

Next == Environment \/ Server

Spec == Init /\ [][Next]_vars

\* The loop runs whenever there is something to do: epoll_wait blocks only
\* while nothing is ready, and no handler blocks (one may spin).
FairSpec == Spec /\ WF_vars(Server)

------------------------------------------------------------------------------
(* Properties. *)

\* The bookkeeping of loop() misses nothing, whatever closes a descriptor:
\* `connections' and `clock' have the same keys, every open socket is among
\* them (so the idle timer can reach it), every open File lies in the frame
\* of a live coroutine of an entry (so it is closed with it: no descriptor
\* leaks), and a number without an entry has no coroutine.
Tracked ==
    /\ entry = {n \in Fd : timer[n] # "absent"}
    /\ \A n \in Fd, c \in Client : fdt[n] = Sock(c) => n \in entry
    /\ \A x \in Fd, c \in Client : fdt[x] = FileOf(c) =>
         \E n \in entry : conn[n].task \in Alive /\ conn[n].file = x
    /\ \A n \in Fd \ entry : conn[n] = NewDataInfo

\* No event resumes a coroutine that has ended or was never there (undefined
\* behaviour of coroutine_handle::resume), although several co_returns leave
\* is_read_awaiting or is_write_awaiting set; and no HTTP round starts without
\* a request in hand (parse_http_request reads past an empty string).
ResumeSafe ==
    \A n \in Fd :
        /\ (Readable(n) /\ conn[n].is_read_awaiting)
              \/ (Writable(n) /\ conn[n].is_write_awaiting)
           => conn[n].task \in Alive
        /\ Readable(n) /\ conn[n].is_read_awaiting /\ conn[n].task = "httpIdle"
           => HasInput(n) \/ ~Up(n)

\* A suspended transfer still owns the File in its frame: the number it will
\* write to or send from next has not been closed, nor given to another, by
\* the handling of a different connection.
HoldsItsFile ==
    \A n \in Fd : conn[n].task \in HoldsFile => OwnsFile(n)

\* The coroutine that the events of a socket resume was started for the
\* connection of that socket, never for an earlier one of the same number.
OwnSession ==
    \A n \in Fd, c \in Client :
        /\ fdt[n] = Sock(c)
        /\ conn[n].task \in Alive
        /\ conn[n].is_read_awaiting \/ conn[n].is_write_awaiting
        => conn[n].of = c

\* A connection whose client has gone gives its descriptor back, whatever
\* event it arrives with and whatever its coroutine waits for; unless the
\* answer to some HTTP client keeps the thread in the sendfile64 loop.
HangupReleased ==
    \A c \in Client : (IsOpen(c) /\ peer[c] # "up") ~> (~IsOpen(c) \/ Spinning)

\* A connection is accepted although the listening socket reports only edges,
\* as long as a descriptor is free for it and no coroutine spins.
EveryConnectionAccepted ==
    \A c \in Client : (c \in backlog) ~>
        (c \notin backlog \/ Spinning \/ \A n \in Fd : fdt[n] # Free)
==============================================================================
