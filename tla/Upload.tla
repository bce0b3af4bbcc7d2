------------------------------- MODULE Upload -------------------------------
(***************************************************************************)
(* One upload over one connection: send_file_to in the client              *)
(* (src/src/client.hpp), the kernel's receive buffer with its edge-        *)
(* triggered epoll event, and handle_sft_upload in the server              *)
(* (src/src/server.hpp), one system call a step.  The server's other       *)
(* connections are in EventLoop.                                           *)
(*                                                                         *)
(* A byte of the file is the token Data(i) of its position i; a request is *)
(* one token.  The connection is already accepted; EPOLLOUT, which nothing *)
(* waits for here, is left out, and so is an alarm that closes the File    *)
(* for an old entry of its number: that is HoldsItsFile of EventLoop.      *)
(***************************************************************************)
EXTENDS Bytes

CONSTANTS Sizes,        \* the sizes a file may have
          Max,          \* MAXARRSZ: a smaller file is received in one buffer
          Stop,         \* NUMSTOP: room that ends the filling of a buffer
          Window,       \* bound: tokens the receive buffer holds
          Afters        \* what a client does once the file is handed over

ASSUME SizesAssumption == Sizes \subseteq Nat
ASSUME BufferAssumption == Max \in Nat /\ Stop \in 1..Max-1
ASSUME WindowAssumption == Window \in Nat \ {0}
\* "close": sft.out -f exits; "get": test.cpp asks for a file on the same
\* connection; "stay": the connection is left open.
ASSUME AftersAssumption == Afters \subseteq {"close", "get", "stay"}

FileRequest == <<"f", 0>>
GetRequest == <<"g", 0>>

VARIABLES
    size,       \* of the file, as the request says
    after,
    client,     \* where send_file_to stands, and how the client went
    sent,       \* tokens of the file handed to sendfile
    rcv,        \* the server's receive buffer, unread
    fin,        \* the client's FIN is in
    edge,       \* epoll has an edge to report
    ev,         \* the mask epoll_wait returned
    server,     \* what the server is doing for this connection
    code,       \* the '1' is written
    request,    \* data_info::requests
    awaiting,   \* data_info::is_read_awaiting
    buf,        \* bufferForFile up to ret
    written,    \* bytesWritten of the large path
    file,       \* the file on disk
    outcome,    \* what the server made of the upload
    answered,   \* the request after the upload was served
    aged        \* its entry in the timer is older than the last alarm

clientVars == <<size, after, client, sent>>
kernelVars == <<rcv, fin, edge, ev>>
handlerVars == <<code, request, awaiting, buf, written, file, outcome, answered>>
vars == <<clientVars, kernelVars, server, handlerVars, aged>>

Token == {FileRequest, GetRequest, Zero} \cup ({"data"} \X (Nat \ {0}))

TypeOK ==
    /\ size \in Sizes
    /\ after \in Afters
    /\ client \in {"start", "code", "sending", "sent", "asked", "closed", "aborted"}
    /\ sent \in 0..size
    /\ rcv \in Seq(Token) /\ Len(rcv) <= Window + 1
    /\ fin \in BOOLEAN
    /\ edge \in BOOLEAN
    /\ ev \subseteq {"IN", "HUP"}
    /\ server \in {"wait", "dispatch", "decide", "small", "large", "closed"}
    /\ code \in BOOLEAN
    /\ request \in Seq(Token)
    /\ awaiting \in BOOLEAN
    /\ buf \in Seq(Token)
    /\ written \in Nat
    /\ file \in Seq(Token)
    /\ outcome \in {"none", "failed", "incomplete", "complete"}
    /\ answered \in BOOLEAN /\ aged \in BOOLEAN

Init ==
    /\ size \in Sizes
    /\ after \in Afters
    /\ client = "start"
    /\ sent = 0
    /\ rcv = <<>>
    /\ fin = FALSE
    /\ edge = FALSE
    /\ ev = {}
    /\ server = "wait"
    /\ code = FALSE
    /\ request = <<>>
    /\ awaiting = FALSE
    /\ buf = <<>>
    /\ written = 0
    /\ file = <<>>
    /\ outcome = "none"
    /\ answered = FALSE
    /\ aged = FALSE

Content == Prefix(size)

------------------------------------------------------------------------------
(* The client. *)

\* Bytes reach the socket: every arrival is an edge.  A closed socket drops them.
Arrive(token) ==
    /\ rcv' = IF server = "closed" THEN rcv ELSE Append(rcv, token)
    /\ edge' = TRUE
    /\ UNCHANGED <<fin, ev>>

ClientRequest ==
    /\ client = "start"
    /\ client' = "code"
    /\ Arrive(FileRequest)
    /\ UNCHANGED <<size, after, sent, server, handlerVars, aged>>

\* A blocking read of the '1'.
ClientReadCode ==
    /\ client = "code" /\ code
    /\ client' = "sending"
    /\ UNCHANGED <<size, after, sent, kernelVars, server, handlerVars, aged>>

\* Mutant of ClientSend: the loop runs while have_send <= file_sz.
ClientSendPastEnd ==
    /\ client = "sending"
    /\ sent <= size
    /\ server # "closed" /\ Len(rcv) < Window
    /\ sent' = sent + 1
    /\ Arrive(Data(sent + 1))
    /\ UNCHANGED <<size, after, client, server, handlerVars, aged>>

\* sendfile hands the file over as the receive buffer has room.
ClientSend ==
    /\ client = "sending"
    /\ sent < size
    /\ server # "closed" /\ Len(rcv) < Window
    /\ sent' = sent + 1
    /\ Arrive(Data(sent + 1))
    /\ UNCHANGED <<size, after, client, server, handlerVars, aged>>

\* sendfile has taken everything, or it failed because the server closed: the
\* loop breaks, and main prints its success all the same.
ClientSent ==
    /\ client = "sending"
    /\ sent = size \/ server = "closed"
    /\ client' = "sent"
    /\ UNCHANGED <<size, after, sent, kernelVars, server, handlerVars, aged>>

ClientAsk ==
    /\ client = "sent" /\ after = "get"
    /\ client' = "asked"
    /\ Arrive(GetRequest)
    /\ UNCHANGED <<size, after, sent, server, handlerVars, aged>>

\* exit() closes the socket: a FIN after all that was sent.
Leave(how) ==
    /\ client' = how
    /\ fin' = TRUE
    /\ edge' = TRUE
    /\ UNCHANGED <<size, after, sent, rcv, ev, server, handlerVars, aged>>

ClientClose == client = "sent" /\ after = "close" /\ Leave("closed")

\* Killed, or without its '1' because the server closed: send_file_to throws.
ClientAbort == client \in {"code", "sending"} /\ Leave("aborted")

Client ==
    \/ ClientRequest
    \/ ClientReadCode
    \/ ClientSend
    \/ ClientSent
    \/ ClientAsk
    \/ ClientClose

------------------------------------------------------------------------------
(* The server. *)

Mask == (IF rcv # <<>> \/ fin THEN {"IN"} ELSE {}) \cup (IF fin THEN {"HUP"} ELSE {})

EpollWait ==
    /\ server = "wait"
    /\ edge /\ Mask # {}
    /\ ev' = Mask
    /\ edge' = FALSE
    /\ server' = "dispatch"
    /\ UNCHANGED <<clientVars, rcv, fin, handlerVars, aged>>

\* The branch on EPOLLRDHUP comes first: the entry goes, and with it the
\* coroutine, its buffer and what is still unread.
Disconnect ==
    /\ server = "dispatch" /\ "HUP" \in ev
    /\ server' = "closed"
    /\ rcv' = <<>>
    /\ buf' = <<>>
    /\ UNCHANGED <<clientVars, fin, edge, ev, code, request, awaiting, written,
                   file, outcome, answered, aged>>

\* An alarm, alone or in the batch of an event of this connection: an entry that
\* no event has renewed since the alarm before is closed, and with it an upload
\* whose client is slow -- unless clear_expired stops before it comes to the
\* entry.
Ages ==
    /\ server \in {"wait", "dispatch"}
    /\ aged' = TRUE
    /\ UNCHANGED <<clientVars, kernelVars, server, handlerVars>>

Expires ==
    /\ server \in {"wait", "dispatch"} /\ aged
    /\ server' = "closed"
    /\ rcv' = <<>>
    /\ buf' = <<>>
    /\ UNCHANGED <<clientVars, fin, edge, ev, code, request, awaiting, written,
                   file, outcome, answered, aged>>

Tick == Ages \/ Expires

\* Mutant of Dispatch: is_read_awaiting is not looked at.
DispatchAnew ==
    /\ server = "dispatch" /\ "HUP" \notin ev
    /\ server' = "decide"
    /\ aged' = FALSE
    /\ UNCHANGED <<clientVars, kernelVars, handlerVars>>

\* EPOLLIN resumes the waiting coroutine or goes to decide_action.
Dispatch ==
    /\ server = "dispatch" /\ "HUP" \notin ev
    /\ server' = IF ~awaiting THEN "decide"
                 ELSE IF size < Max THEN "small" ELSE "large"
    /\ aged' = FALSE
    /\ UNCHANGED <<clientVars, kernelVars, handlerVars>>

\* decide_action reads whatever there is into the request.
DecideRead ==
    /\ server = "decide" /\ rcv # <<>>
    /\ request' = request \o rcv
    /\ rcv' = <<>>
    /\ UNCHANGED <<clientVars, fin, edge, ev, server, code, awaiting, buf,
                   written, file, outcome, answered, aged>>

\* The first letter decides; what else the request holds is its argument.  At
\* the end of the stream it depends on what errno was before.
Decide(first) ==
    /\ server = "decide" /\ rcv = <<>>
    /\ request # <<>> /\ Head(request) = first
    /\ request' = <<>>

\* handle_sft_upload up to its first read.
StartUpload ==
    /\ Decide(FileRequest)
    /\ code' = TRUE
    /\ server' = IF size < Max THEN "small" ELSE "large"
    /\ buf' = <<>>
    /\ written' = 0
    /\ file' = <<>>
    /\ UNCHANGED <<clientVars, kernelVars, awaiting, outcome, answered, aged>>

\* The '1' is written before the file is opened; when that throws, nobody
\* catches it and the connection waits for another request.
StartUploadFails ==
    /\ Decide(FileRequest)
    /\ code' = TRUE
    /\ server' = "wait"
    /\ outcome' = "failed"
    /\ UNCHANGED <<clientVars, kernelVars, awaiting, buf, written, file, answered, aged>>

AnswerGet ==
    /\ Decide(GetRequest)
    /\ answered' = TRUE
    /\ server' = "wait"
    /\ UNCHANGED <<clientVars, kernelVars, code, awaiting, buf, written, file, outcome, aged>>

\* decide_action returned -1.
UnknownRequest ==
    /\ server = "decide" /\ rcv = <<>>
    /\ fin \/ request = <<>> \/ Head(request) \notin {FileRequest, GetRequest}
    /\ request' = <<>>
    /\ server' = "closed"
    /\ UNCHANGED <<clientVars, kernelVars, code, awaiting, buf, written, file,
                   outcome, answered, aged>>

\* Mutant of Yield: is_read_awaiting is not set.
YieldUnmarked(path) ==
    /\ server = path
    /\ rcv = <<>> /\ ~fin
    /\ server' = "wait"
    /\ UNCHANGED <<clientVars, kernelVars, code, request, awaiting, buf, written,
                   file, outcome, answered, aged>>

\* Mutant of Yield: a short read is taken for an empty socket.
YieldEarly(path) ==
    /\ server = path
    /\ ~fin
    /\ awaiting' = TRUE
    /\ server' = "wait"
    /\ UNCHANGED <<clientVars, kernelVars, code, request, buf, written, file,
                   outcome, answered, aged>>

\* co_yield: nothing to read now.
Yield(path) ==
    /\ server = path
    /\ rcv = <<>> /\ ~fin
    /\ awaiting' = TRUE
    /\ server' = "wait"
    /\ UNCHANGED <<clientVars, kernelVars, code, request, buf, written, file,
                   outcome, answered, aged>>

\* TypeArray::read: as much as there is, and at most room.
Count(room) == Least(room, Len(rcv))

\* Mutant of Store: every end of an upload is taken for a success.
StoreAsComplete(f, how) ==
    /\ file' = f
    /\ outcome' = "complete"
    /\ buf' = <<>>
    /\ awaiting' = FALSE
    /\ server' = "wait"

\* The coroutine ends with the bytes f in the file.
Store(f, how) ==
    /\ file' = f
    /\ outcome' = how
    /\ buf' = <<>>
    /\ awaiting' = FALSE
    /\ server' = "wait"

\* A file below MAXARRSZ: one buffer of its size, read to the end of the file
\* and no further.
SmallRead ==
    LET k == Count(size - Len(buf))
        got == buf \o SubSeq(rcv, 1, k)
    IN  /\ server = "small" /\ size > 0 /\ k > 0
        /\ rcv' = SubSeq(rcv, k + 1, Len(rcv))
        /\ IF Len(got) = size
           THEN Store(got, "complete")
           ELSE /\ buf' = got
                /\ UNCHANGED <<server, awaiting, file, outcome>>
        /\ UNCHANGED <<clientVars, fin, edge, ev, code, request, written, answered, aged>>

SmallYield == size > 0 /\ Yield("small")

\* The end of the stream: the whole buffer is written, what was not received
\* as the zeros it was made with.
SmallEnd ==
    /\ server = "small" /\ size > 0
    /\ rcv = <<>> /\ fin
    /\ Store(buf \o Zeros(size - Len(buf)), "incomplete")
    /\ UNCHANGED <<clientVars, kernelVars, code, request, written, answered, aged>>

\* TypeArray::read of an empty array throws: the connection is closed.
SmallEmpty ==
    /\ server = "small" /\ size = 0
    /\ awaiting' = FALSE
    /\ outcome' = "incomplete"
    /\ server' = "closed"
    /\ UNCHANGED <<clientVars, kernelVars, code, request, buf, written, file, answered, aged>>

\* Mutants of Appended: every buffer is written to the start of the file, and
\* only the part of it that must be full is written.
AppendedAtStart(got) == got
AppendedShort(got) == file \o SubSeq(got, 1, IF Len(got) < Max - Stop
                                             THEN Len(got) ELSE Max - Stop)

\* output_file.write(bufferForFile, 0, ret).
Appended(got) == file \o got

\* A large file: the buffer fills until less than NUMSTOP is free or the file
\* is complete, then it is appended.  The reads do not stop at the file's end.
LargeRead ==
    LET k == Count(Max - Len(buf))
        got == buf \o SubSeq(rcv, 1, k)
        total == written + k
    IN  /\ server = "large" /\ k > 0
        /\ rcv' = SubSeq(rcv, k + 1, Len(rcv))
        /\ written' = total
        /\ \/ /\ total >= size
              /\ Store(Appended(got), "complete")
           \/ /\ total < size /\ Len(got) >= Max - Stop
              /\ file' = Appended(got)
              /\ buf' = <<>>
              /\ UNCHANGED <<server, awaiting, outcome>>
           \/ /\ total < size /\ Len(got) < Max - Stop
              /\ buf' = got
              /\ UNCHANGED <<server, awaiting, file, outcome>>
        /\ UNCHANGED <<clientVars, fin, edge, ev, code, request, answered, aged>>

LargeYield == Yield("large")

LargeEnd ==
    /\ server = "large"
    /\ rcv = <<>> /\ fin
    /\ Store(Appended(buf), "incomplete")
    /\ UNCHANGED <<clientVars, kernelVars, code, request, written, answered, aged>>

Server ==
    \/ EpollWait
    \/ Disconnect
    \/ Dispatch
    \/ DecideRead
    \/ StartUpload
    \/ StartUploadFails
    \/ AnswerGet
    \/ UnknownRequest
    \/ SmallRead
    \/ SmallYield
    \/ SmallEnd
    \/ SmallEmpty
    \/ LargeRead
    \/ LargeYield
    \/ LargeEnd

Next == Client \/ ClientAbort \/ Tick \/ Server

Spec == Init /\ [][Next]_vars

\* The client runs until it is done (it may be killed, ClientAbort, but need
\* not be), and the loop serves what epoll reports.  No alarm has to come.
FairSpec == Spec /\ WF_vars(Client) /\ WF_vars(Server)

------------------------------------------------------------------------------
(* Properties. *)

\* Between sendfile and the disk no byte is lost, repeated or moved, however
\* the arrivals fall between the reads, the yields and the flushes of the
\* buffer: what is written, buffered and unread is what was sent.
NothingLost ==
    code /\ outcome = "none" /\ server # "closed" =>
        file \o buf \o rcv = SubSeq(Content, 1, sent)
                               \o (IF client = "asked" THEN <<GetRequest>> ELSE <<>>)

\* What a client and the server do with its file is what Delivery promises:
\* the file on disk, and the server's opinion of it, are those of a transfer
\* that stores every byte once, in place, and only after it was sent.
Promise == INSTANCE Delivery WITH
    offered <- sent, stored <- file, verdict <- outcome
Delivers == Promise!Spec

\* Every byte on disk is the byte the client sent for that place.  The only
\* exceptions are the ones the code makes: zeros in a small file that broke
\* off, and behind a large file whatever followed it on the connection.
StoredWasSent ==
    \A i \in 1..Len(file) :
        \/ file[i] = Data(i) /\ i <= sent
        \/ file[i] = Zero /\ outcome = "incomplete" /\ size < Max
        \/ i > size /\ size >= Max

Stored == Len(file) >= size /\ SubSeq(file, 1, size) = Content

\* `Success on receiving file' is logged for a file that is all there, and a
\* small one has not a byte more.
CompleteIsStored ==
    outcome = "complete" => Stored /\ (size < Max => file = Content)

\* When epoll_wait blocks, nothing is left undone for this connection: no edge
\* is spent on bytes, or on an end, that stay unread.  The client has its '1'
\* and, once it has sent all of its file, the file is stored.  Only a request
\* that follows the file may lie unread.
BlocksOwingNothing ==
    server = "wait" /\ ~(edge /\ Mask # {}) =>
        /\ ~fin
        /\ client = "code" => code
        /\ client # "asked" => rcv = <<>>
        /\ client \in {"sent", "asked"} => Stored \/ outcome = "failed"

\* An upload whose client keeps the connection open is stored in the end, unless
\* an alarm closes it: no edge is lost between the reads and the co_yields of the
\* handler.
UploadCompletes ==
    (client \in {"sent", "asked"} /\ after # "close")
        ~> (Stored \/ outcome = "failed" \/ (server = "closed" /\ aged))

\* sft.out -f prints `Success on dealing' only for a file that arrives: once
\* the client is gone and the server has closed, and be it without an alarm,
\* the file is stored.
SuccessMeansStored ==
    client = "closed" /\ server = "closed" /\ ~aged /\ outcome # "failed" => Stored

\* A client may use its connection for the next request as soon as it has
\* sent the file, as test.cpp does: the request is answered.
EveryRequestAnswered ==
    client = "asked" ~> (answered \/ server = "closed")
==============================================================================
