------------------------------ MODULE Download ------------------------------
(***************************************************************************)
(* One download over one connection: get_file_from in the client           *)
(* (src/src/client.hpp), the kernel's buffers with their edge-triggered    *)
(* events, and handle_sft_download in the server (src/src/server.hpp), one *)
(* system call a step.  Beside them the server's file may be replaced by   *)
(* somebody's upload of the same name (both directories are `./' unless    *)
(* sft.json says otherwise), the client may be killed, and a signal may    *)
(* stop the server.                                                        *)
(*                                                                         *)
(* The connection is already accepted.  Requests, the size and the codes   *)
(* are one token each.                                                     *)
(***************************************************************************)
EXTENDS Bytes

CONSTANTS Sizes,        \* the sizes a file may have
          Max,          \* MAXARRSZ: a smaller file is received in one buffer
          Stop,         \* NUMSTOP: room that ends the filling of a buffer
          Window        \* bound: tokens the kernel holds for the client

ASSUME SizesAssumption == Sizes \subseteq Nat
ASSUME BufferAssumption == Max \in Nat /\ Stop \in 1..Max-1
ASSUME WindowAssumption == Window \in Nat \ {0}

GetRequest == <<"g", 0>>
Flag == <<"flag", 1>>           \* the client's "1"
NoFile == <<"code", 0>>         \* the server's '0'
SizeOf(n) == <<"size", n>>
New(i) == <<"new", i>>          \* a byte of the file that replaced the old one

VARIABLES
    size,       \* of the file when it was asked for
    disk,       \* what is in the server's file now
    replaced,   \* another upload has opened it with O_TRUNC
    client,     \* where get_file_from stands, and how the client went
    announced,  \* sizeOfFile
    buf,        \* bufferForFile up to ret
    file,       \* the client's file on disk
    rcv,        \* towards the server, unread
    wire,       \* towards the client, unread
    nospace,    \* the last sendfile found no room: the next read is an edge
    edge,       \* epoll has an edge to report
    ev,         \* the mask epoll_wait returned
    server,     \* what the server is doing for this connection
    task,       \* where the coroutine is suspended
    reading,    \* data_info::is_read_awaiting
    writing,    \* data_info::is_write_awaiting
    off,        \* of sendfile
    left,       \* send_size
    aged        \* its entry in the timer is older than the last alarm

clientVars == <<client, announced, buf, file>>
kernelVars == <<rcv, wire, nospace, edge, ev>>
taskVars == <<task, reading, writing, off, left>>
vars == <<size, disk, replaced, clientVars, kernelVars, server, taskVars, aged>>

Reading == {"size", "small", "large"}
Ended == {"done", "short", "missing", "crashed", "killed"}

TypeOK ==
    /\ size \in Sizes
    /\ disk \in Seq(({"data", "new"} \X (Nat \ {0})))
    /\ replaced \in BOOLEAN /\ aged \in BOOLEAN
    /\ client \in {"start"} \cup Reading \cup Ended
    /\ announced \in Sizes
    /\ Len(buf) <= Max
    /\ file \in Seq({Zero} \cup ({"data", "new"} \X (Nat \ {0})))
    /\ Len(rcv) <= 1 /\ Len(wire) <= Window
    /\ <<nospace, edge, reading, writing>> \in BOOLEAN \X BOOLEAN \X BOOLEAN \X BOOLEAN
    /\ ev \subseteq {"IN", "OUT", "HUP"}
    /\ server \in {"wait", "dispatch", "decide", "flag", "send", "closed", "stopped"}
    /\ task \in {"none", "flag", "send", "done"}
    /\ off \in Nat /\ left \in Nat

Init ==
    /\ size \in Sizes
    /\ disk = Prefix(size)
    /\ replaced = FALSE
    /\ client = "start"
    /\ announced = size
    /\ buf = <<>>
    /\ file = <<>>
    /\ rcv = <<>>
    /\ wire = <<>>
    /\ nospace = FALSE
    /\ edge = FALSE
    /\ ev = {}
    /\ server = "wait"
    /\ task = "none"
    /\ reading = FALSE
    /\ writing = FALSE
    /\ off = 0
    /\ left = 0
    /\ aged = FALSE

Gone == server \in {"closed", "stopped"}
End == wire = <<>> /\ Gone

------------------------------------------------------------------------------
(* The client: every read blocks until there is something or the end. *)

Write(token) ==
    /\ rcv' = IF Gone THEN rcv ELSE Append(rcv, token)
    /\ edge' = TRUE

\* read() of up to k tokens: room appears for a server that ran out of it.
\* The client that has all it wants exits, which is an edge too.
Read(k) ==
    /\ wire' = SubSeq(wire, k + 1, Len(wire))
    /\ edge' = (edge \/ nospace \/ client' \in Ended)
    /\ nospace' = FALSE

AskFile ==
    /\ client = "start"
    /\ client' = "size"
    /\ Write(GetRequest)
    /\ UNCHANGED <<size, disk, replaced, announced, buf, file, wire, nospace, ev,
                   server, taskVars, aged>>

\* The size: the flag is written before the local file is opened and truncated.
ReadSize ==
    /\ client = "size"
    /\ \E n \in Sizes :
         /\ wire = <<SizeOf(n)>>
         /\ announced' = n
         /\ client' = IF n < Max THEN "small" ELSE "large"
    /\ wire' = <<>>
    /\ Write(Flag)
    /\ UNCHANGED <<size, disk, replaced, buf, file, nospace, ev, server, taskVars, aged>>

\* ... and when it cannot be opened nobody catches the file_exception.
OpenFails ==
    /\ client \in {"small", "large"} /\ buf = <<>> /\ file = <<>>
    /\ client' = "crashed"
    /\ edge' = TRUE
    /\ UNCHANGED <<size, disk, replaced, announced, buf, file, rcv, wire, nospace, ev,
                   server, taskVars, aged>>

\* One byte or none: `File might not be found in the server.'
NotFound ==
    /\ client = "size"
    /\ wire = <<NoFile>> \/ End
    /\ client' = "missing"
    /\ wire' = <<>>
    /\ edge' = TRUE
    /\ UNCHANGED <<size, disk, replaced, announced, buf, file, rcv, nospace, ev,
                   server, taskVars, aged>>

\* ECONNRESET: the IO_exception is nobody's.
ReadFails ==
    /\ client \in Reading
    /\ End
    /\ client' = "crashed"
    /\ UNCHANGED <<size, disk, replaced, announced, buf, file, kernelVars, server, taskVars,
                   aged>>

\* Mutant of SmallRead: the bytes land at the start of the buffer every time.
SmallReadAtStart ==
    LET k == Least(announced - Len(buf), Len(wire))
        got == SubSeq(wire, 1, k) \o buf
    IN  /\ client = "small" /\ announced > 0 /\ k > 0
        /\ buf' = got
        /\ IF Len(got) = announced
           THEN file' = got /\ client' = "done"
           ELSE UNCHANGED <<file, client>>
        /\ Read(k)
        /\ UNCHANGED <<size, disk, replaced, announced, rcv, ev, server, taskVars, aged>>

\* Mutant of SmallRead: one read is taken for the whole file.
SmallReadOnce ==
    LET k == Least(announced - Len(buf), Len(wire))
        got == buf \o SubSeq(wire, 1, k)
    IN  /\ client = "small" /\ announced > 0 /\ k > 0
        /\ buf' = got
        /\ file' = got \o Zeros(announced - Len(got))
        /\ client' = "done"
        /\ Read(k)
        /\ UNCHANGED <<size, disk, replaced, announced, rcv, ev, server, taskVars, aged>>

\* A file below MAXARRSZ: one buffer of its size, written when it is full.
SmallRead ==
    LET k == Least(announced - Len(buf), Len(wire))
        got == buf \o SubSeq(wire, 1, k)
    IN  /\ client = "small" /\ announced > 0 /\ k > 0
        /\ buf' = got
        /\ IF Len(got) = announced
           THEN file' = got /\ client' = "done"
           ELSE UNCHANGED <<file, client>>
        /\ Read(k)
        /\ UNCHANGED <<size, disk, replaced, announced, rcv, ev, server, taskVars, aged>>

\* basic_io::read of no bytes throws std::out_of_range, and nobody catches it.
SmallEmpty ==
    /\ client = "small" /\ announced = 0
    /\ client' = "crashed"
    /\ edge' = TRUE
    /\ UNCHANGED <<size, disk, replaced, announced, buf, file, rcv, wire, nospace, ev,
                   server, taskVars, aged>>

\* The end of the stream before the first byte: the buffer is written as it
\* was made.  After the first byte `ret <= 0' is never true, and the loop adds
\* the zeros that read returns for ever.
SmallEnd ==
    /\ client = "small" /\ announced > 0 /\ buf = <<>>
    /\ End
    /\ file' = Zeros(announced)
    /\ client' = "short"
    /\ UNCHANGED <<size, disk, replaced, announced, buf, kernelVars, server, taskVars, aged>>

Spinning == client = "small" /\ End /\ buf # <<>>

\* Mutant of LargeRead: ret is not set back to 0 after a flush.
LargeReadStale ==
    LET k == Least(Max - Len(buf), Len(wire))
        got == buf \o SubSeq(wire, 1, k)
    IN  /\ client = "large" /\ k > 0
        /\ IF Len(got) + Len(file) >= announced \/ Len(got) >= Max - Stop
           THEN /\ file' = file \o got
                /\ buf' = SubSeq(got, 2, Len(got))
                /\ client' = IF Len(file') >= announced THEN "done" ELSE client
           ELSE buf' = got /\ UNCHANGED <<file, client>>
        /\ Read(k)
        /\ UNCHANGED <<size, disk, replaced, announced, rcv, ev, server, taskVars, aged>>

\* A large file: the buffer fills until less than NUMSTOP is free or the file
\* is complete, then it is appended.
LargeRead ==
    LET k == Least(Max - Len(buf), Len(wire))
        got == buf \o SubSeq(wire, 1, k)
    IN  /\ client = "large" /\ k > 0
        /\ IF Len(got) + Len(file) >= announced \/ Len(got) >= Max - Stop
           THEN /\ file' = file \o got
                /\ buf' = <<>>
                /\ client' = IF Len(file') >= announced THEN "done" ELSE client
           ELSE buf' = got /\ UNCHANGED <<file, client>>
        /\ Read(k)
        /\ UNCHANGED <<size, disk, replaced, announced, rcv, ev, server, taskVars, aged>>

\* The end of the stream: what is in the buffer is dropped.
LargeEnd ==
    /\ client = "large"
    /\ End
    /\ client' = "short"
    /\ UNCHANGED <<size, disk, replaced, announced, buf, file, kernelVars, server, taskVars,
                   aged>>

Client ==
    \/ AskFile
    \/ ReadSize
    \/ OpenFails
    \/ NotFound
    \/ ReadFails
    \/ SmallRead
    \/ SmallEmpty
    \/ SmallEnd
    \/ LargeRead
    \/ LargeEnd

------------------------------------------------------------------------------
(* What may happen beside them. *)

ClientKilled ==
    /\ client \notin Ended
    /\ client' = "killed"
    /\ edge' = TRUE
    /\ UNCHANGED <<size, disk, replaced, announced, buf, file, rcv, wire, nospace, ev,
                   server, taskVars, aged>>

\* sig_hanl, stop_loop: exit() in the signal handler, wherever the server is.
ServerStopped ==
    /\ server # "stopped"
    /\ server' = "stopped"
    /\ UNCHANGED <<size, disk, replaced, clientVars, kernelVars, taskVars, aged>>

\* handle_sft_upload for the same name: O_TRUNC, later its bytes.  Just as little
\* is left to send, and then perhaps something else, when an alarm closes the
\* File for an old entry of its number, which some other file then gets
\* (EventLoop, OwnSession).
Truncate ==
    /\ ~replaced
    /\ replaced' = TRUE
    /\ disk' = <<>>
    /\ UNCHANGED <<size, clientVars, kernelVars, server, taskVars, aged>>

Rewrite ==
    /\ replaced /\ disk = <<>>
    /\ \E n \in Sizes \ {0} : disk' = [i \in 1..n |-> New(i)]
    /\ UNCHANGED <<size, replaced, clientVars, kernelVars, server, taskVars, aged>>

Environment == ClientKilled \/ ServerStopped \/ Truncate \/ Rewrite

------------------------------------------------------------------------------
(* The server. *)

Left == client \in Ended

Mask == (IF rcv # <<>> \/ Left THEN {"IN"} ELSE {})
          \cup (IF Len(wire) < Window THEN {"OUT"} ELSE {})
          \cup (IF Left THEN {"HUP"} ELSE {})

EpollWait ==
    /\ server = "wait"
    /\ edge /\ Mask # {}
    /\ ev' = Mask
    /\ edge' = FALSE
    /\ server' = "dispatch"
    /\ UNCHANGED <<size, disk, replaced, clientVars, rcv, wire, nospace, taskVars, aged>>

Disconnect ==
    /\ server = "dispatch" /\ "HUP" \in ev
    /\ server' = "closed"
    /\ rcv' = <<>>
    /\ UNCHANGED <<size, disk, replaced, clientVars, wire, nospace, edge, ev, taskVars, aged>>

\* An alarm, alone or in the batch of an event of this connection: an entry that
\* no event has renewed since the alarm before is closed, and with it a download
\* whose client is slow -- unless clear_expired stops before it comes to the
\* entry.  (While a token of the client is unread, none is on its way to it.)
Ages ==
    /\ server \in {"wait", "dispatch"}
    /\ aged' = TRUE
    /\ UNCHANGED <<size, disk, replaced, clientVars, kernelVars, server, taskVars>>

Expires ==
    /\ server \in {"wait", "dispatch"} /\ aged
    /\ server' = "closed"
    /\ rcv' = <<>>
    /\ UNCHANGED <<size, disk, replaced, clientVars, wire, nospace, edge, ev, taskVars, aged>>

Tick == Ages \/ Expires

\* EPOLLIN resumes a coroutine that waits to read, or is a request; without it
\* EPOLLOUT resumes one that waits to write, or is nothing.
Dispatch ==
    /\ server = "dispatch" /\ "HUP" \notin ev
    /\ aged' = FALSE
    /\ server' = IF "IN" \in ev THEN (IF reading THEN task ELSE "decide")
                 ELSE IF writing THEN task ELSE "wait"
    /\ UNCHANGED <<size, disk, replaced, clientVars, kernelVars, taskVars>>

\* decide_action and handle_sft_download up to its first recv: the size as it
\* is now, or the '0' of a file that cannot be opened.
StartDownload ==
    /\ server = "decide" /\ rcv = <<GetRequest>>
    /\ rcv' = <<>>
    /\ wire' = <<SizeOf(Len(disk))>>
    /\ server' = "flag"
    /\ UNCHANGED <<size, disk, replaced, clientVars, nospace, edge, ev, taskVars, aged>>

StartDownloadFails ==
    /\ server = "decide" /\ rcv = <<GetRequest>>
    /\ rcv' = <<>>
    /\ wire' = <<NoFile>>
    /\ task' = "done" /\ reading' = FALSE /\ writing' = FALSE
    /\ server' = "wait"
    /\ UNCHANGED <<size, disk, replaced, clientVars, nospace, edge, ev, off, left, aged>>

\* A path that is no regular file: open_read_only throws invalid_argument,
\* which the handler does not catch.  The client is left without an answer.
StartDownloadThrows ==
    /\ server = "decide" /\ rcv = <<GetRequest>>
    /\ rcv' = <<>>
    /\ task' = "done"
    /\ server' = "wait"
    /\ UNCHANGED <<size, disk, replaced, clientVars, wire, nospace, edge, ev,
                   reading, writing, off, left, aged>>

\* The client has left meanwhile: decide_action ends on a read that returned 0,
\* and unless an old EAGAIN is in errno that is no request.
UnknownRequest ==
    /\ server = "decide" /\ Left
    /\ server' = "closed"
    /\ rcv' = <<>>
    /\ UNCHANGED <<size, disk, replaced, clientVars, wire, nospace, edge, ev, taskVars, aged>>

\* Mutant of Yield: the flags that ask for the next event are not set.
YieldUnmarked(at, r, w) ==
    /\ server = at
    /\ task' = at
    /\ UNCHANGED <<reading, writing>>
    /\ server' = "wait"

Yield(at, r, w) ==
    /\ server = at
    /\ task' = at
    /\ reading' = r
    /\ writing' = w
    /\ server' = "wait"

FlagYield ==
    /\ rcv = <<>> /\ ~Left
    /\ Yield("flag", TRUE, writing)
    /\ UNCHANGED <<size, disk, replaced, clientVars, kernelVars, off, left, aged>>

\* Mutant of ReadFlag: the offset starts behind the first byte.
ReadFlagOffByOne ==
    /\ server = "flag" /\ rcv = <<Flag>>
    /\ rcv' = <<>>
    /\ off' = 1
    /\ left' = Len(disk)
    /\ server' = "send"
    /\ UNCHANGED <<size, disk, replaced, clientVars, wire, nospace, edge, ev,
                   task, reading, writing, aged>>

\* The flag is '1': send_size is asked of the file again.
ReadFlag ==
    /\ server = "flag" /\ rcv = <<Flag>>
    /\ rcv' = <<>>
    /\ off' = 0
    /\ left' = Len(disk)
    /\ server' = "send"
    /\ UNCHANGED <<size, disk, replaced, clientVars, wire, nospace, edge, ev,
                   task, reading, writing, aged>>

Finish(how) ==
    /\ task' = "done"
    /\ reading' = FALSE /\ writing' = FALSE
    /\ server' = how
    /\ UNCHANGED <<off, left>>

\* The client went away before its flag: peer_exception closes.
FlagMissing ==
    /\ server = "flag" /\ rcv = <<>> /\ Left
    /\ Finish("closed")
    /\ UNCHANGED <<size, disk, replaced, clientVars, kernelVars, aged>>

\* Mutant of SendSome: the socket is taken to have room for everything.
SendWhole ==
    LET k == Least(left, Len(disk) - off)
    IN  /\ server = "send" /\ ~Left /\ k > 0
        /\ wire' = wire \o SubSeq(disk, off + 1, off + k)
        /\ off' = off + k
        /\ left' = left - k
        /\ UNCHANGED <<size, disk, replaced, clientVars, rcv, nospace, edge, ev,
                       server, task, reading, writing, aged>>

\* sendfile: as much as the file still has, send_size asks for and the socket
\* takes.
SendSome ==
    LET k == Least(left, Least(Window - Len(wire), Len(disk) - off))
    IN  /\ server = "send" /\ ~Left /\ k > 0
        /\ wire' = wire \o SubSeq(disk, off + 1, off + k)
        /\ off' = off + k
        /\ left' = left - k
        /\ UNCHANGED <<size, disk, replaced, clientVars, rcv, nospace, edge, ev,
                       server, task, reading, writing, aged>>

\* EAGAIN: from here on the coroutine waits to write.
SendYield ==
    /\ left > 0 /\ off < Len(disk) /\ Len(wire) = Window /\ ~Left
    /\ nospace' = TRUE
    /\ Yield("send", FALSE, TRUE)
    /\ UNCHANGED <<size, disk, replaced, clientVars, rcv, wire, edge, ev, off, left, aged>>

SendDone ==
    /\ server = "send" /\ left = 0
    /\ Finish("wait")
    /\ UNCHANGED <<size, disk, replaced, clientVars, kernelVars, aged>>

\* sendfile returns 0 behind the end of a file that has become shorter: what
\* errno holds is some earlier call's, here or for another connection.
SendStaleErrno ==
    /\ left > 0 /\ off >= Len(disk) /\ ~Left
    /\ Yield("send", FALSE, TRUE)
    /\ UNCHANGED <<size, disk, replaced, clientVars, kernelVars, off, left, aged>>

\* The same without EAGAIN, or a client that has left (EPIPE): co_return, with
\* the flags as they are.
SendGivesUp ==
    /\ server = "send" /\ left > 0
    /\ off >= Len(disk) \/ Left
    /\ task' = "done"
    /\ server' = "wait"
    /\ UNCHANGED <<size, disk, replaced, clientVars, kernelVars, reading, writing, off, left,
                   aged>>

Server ==
    \/ EpollWait
    \/ Disconnect
    \/ Dispatch
    \/ StartDownload
    \/ StartDownloadFails
    \/ StartDownloadThrows
    \/ UnknownRequest
    \/ FlagYield
    \/ ReadFlag
    \/ FlagMissing
    \/ SendSome
    \/ SendYield
    \/ SendDone
    \/ SendStaleErrno
    \/ SendGivesUp

Next == Client \/ Environment \/ Tick \/ Server

Spec == Init /\ [][Next]_vars

\* The client runs until it blocks or is done, the loop serves what epoll
\* reports.  Nothing of the environment has to happen, nor an alarm.
FairSpec == Spec /\ WF_vars(Client) /\ WF_vars(Server)

------------------------------------------------------------------------------
(* Properties. *)

\* Between sendfile and the client's disk no byte is lost, repeated or moved,
\* however the sends fall between the yields of the handler, the reads and
\* the flushes of the client, and wherever the server is stopped or closes.
NothingLost ==
    client \in {"small", "large"} /\ ~replaced => file \o buf \o wire = Prefix(off)

\* Whatever becomes of the server's file under way, a byte on the client's
\* disk is the byte of that place, in the old file or in the new one.  The
\* only others are the zeros of a small file whose stream ended at once.
EveryByteInPlace ==
    \A i \in 1..Len(file) :
        \/ file[i] \in {Data(i), New(i)}
        \/ file[i] = Zero /\ client = "short" /\ announced < Max

\* sft.out -g prints `Success on dealing' for every download that neither
\* exits nor throws.  It is true unless the server was stopped, its file
\* replaced (or closed by an alarm) under way, or the download so slow that an
\* alarm closed it: no yield, refusal or end of the handler makes a success of
\* part of a file.
SuccessMeansFetched ==
    client \in {"done", "short"} /\ file # Prefix(size) =>
        \/ server = "stopped" \/ replaced
        \/ server = "closed" /\ aged

\* The request was for something that is no regular file: nobody answers.
Unanswered == client = "size" /\ wire = <<>> /\ task = "done"

\* When epoll_wait blocks, neither the client's request, its flag nor its
\* leaving is left unseen, and a client that waits for bytes has some to read:
\* no edge is spent on room that a suspended download does not use.  The
\* exceptions are those of DownloadEnds.  (An empty file ends without a byte.)
BlocksOwingNothing ==
    server = "wait" /\ ~(edge /\ Mask # {}) =>
        /\ rcv = <<>> /\ ~Left
        /\ client = "size" \/ (client \in Reading /\ announced > 0) =>
             wire # <<>> \/ replaced \/ Unanswered

\* A download comes to an end: no edge is lost between the sends, the yields
\* and the client's reads.  The exceptions are the code's: a file that shrank
\* while it was sent, a name that is no regular file, and a small download
\* whose server stopped or closed in the middle, which reads the end for ever.
DownloadEnds ==
    client = "size" ~> client \in Ended \/ replaced \/ Unanswered \/ Spinning

\* A download is a Delivery to the client's disk, as long as the server's file
\* stays what it was.
Verdict ==
    IF replaced THEN "void"
    ELSE IF client = "done" THEN "complete"
    ELSE IF client = "short" THEN "incomplete"
    ELSE IF client \in Ended THEN "failed" ELSE "none"

Promise == INSTANCE Delivery WITH
    offered <- off, stored <- file, verdict <- Verdict
Delivers == Promise!Spec
==============================================================================
