-------------------------------- MODULE Http --------------------------------
(***************************************************************************)
(* One persistent HTTP connection: a client that reads answers by their    *)
(* Content-Length, the kernel's buffers with their edge-triggered events,  *)
(* and decide_action and handle_http in the server (src/src/server.hpp),   *)
(* one system call a step.                                                 *)
(*                                                                         *)
(* A request is what decides its answer: the kind of thing asked for, the  *)
(* size of the page, a byte range.  A header is one token, a byte of a     *)
(* page is the token of its place, the body of an error page is one token. *)
(* The client may send a request before the last is answered (pipelining), *)
(* a request may arrive in two segments, and the page may be replaced      *)
(* while it is sent.                                                       *)
(***************************************************************************)
EXTENDS Bytes, Exceptions

CONSTANTS Requests,     \* what the client may ask
          MaxRequests,  \* bound: requests on the connection
          Window        \* bound: tokens the kernel holds for the client

\* "page": answered 200.  "range": a Range header `first-last', or `first-'
\* when last is Open.  "fresh": If-None-Match with the page's own tag.
\* "missing": no such file.  "refused": no regular file, or a range `-n'.
\* "bare": a header line that ends in its colon.
Kinds == {"page", "range", "fresh", "missing", "refused", "bare"}
Open == -1
New(i) == <<"new", i>>          \* a byte of the page that replaced the old one
Request == [kind : Kinds, size : Nat, first : Nat, last : Nat \cup {Open}, close : BOOLEAN]

ASSUME RequestsAssumption == Requests \subseteq Request
ASSUME BoundsAssumption == MaxRequests \in Nat /\ Window \in Nat \ {0}

VARIABLES
    asked,      \* the requests of the client, in order
    rest,       \* the second segment of the last one is still to come
    split,      \* some request came in two segments
    pipelined,  \* some request was sent before the last was answered
    pending,    \* requests without a header yet, by their number
    due,        \* what the client expects of the body it is reading
    client,     \* "open", "left", or what was wrong with the stream
    rcv,        \* towards the server, unread
    wire,       \* towards the client, unread
    nospace,    \* the last write found no room: the next read is an edge
    edge,       \* epoll has an edge to report
    ev,         \* the mask epoll_wait returned
    server,     \* what the server is doing for this connection
    task,       \* where the coroutine is suspended
    reading,    \* data_info::is_read_awaiting
    writing,    \* data_info::is_write_awaiting
    text,       \* data_info::requests, by segments
    job,        \* the request being answered
    off,        \* of sendfile64
    now,        \* the length of the page as it is being sent
    replaced,   \* the page was replaced under way
    aged        \* its entry in the timer is older than the last alarm

clientVars == <<asked, rest, split, pipelined, pending, due, client>>
kernelVars == <<rcv, wire, nospace, edge, ev>>
flagVars == <<task, reading, writing>>
pageVars == <<text, job, off, now>>
vars == <<clientVars, kernelVars, server, flagVars, pageVars, replaced, aged>>

Wrong == {"surplus", "interleaved", "unasked", "stale", "corrupt"}
Segments == {"whole", "front", "rest"} \X (1..MaxRequests)
Nobody == [kind |-> "missing", size |-> 0, first |-> 0, last |-> Open, close |-> FALSE]

TypeOK ==
    /\ Len(asked) <= MaxRequests
    /\ \A i \in DOMAIN asked : asked[i] \in Requests
    /\ <<rest, split, pipelined>> \in BOOLEAN \X BOOLEAN \X BOOLEAN
    /\ <<replaced, aged>> \in BOOLEAN \X BOOLEAN
    /\ \A i \in DOMAIN pending : pending[i] \in DOMAIN asked
    /\ client \in {"open", "left"} \cup Wrong
    /\ rcv \in Seq(Segments) /\ text \in Seq(Segments)
    /\ Len(wire) <= Window
    /\ <<nospace, edge, reading, writing>> \in BOOLEAN \X BOOLEAN \X BOOLEAN \X BOOLEAN
    /\ ev \subseteq {"IN", "OUT", "HUP"}
    /\ server \in {"wait", "dispatch", "decide", "read", "answer", "send", "closed", "stopped"}
    /\ task \in {"none", "read", "send", "done"}
    /\ job \in Request
    /\ off \in Nat /\ now \in Nat

Init ==
    /\ asked = <<>> /\ pending = <<>> /\ due = <<>>
    /\ rest = FALSE /\ split = FALSE /\ pipelined = FALSE
    /\ client = "open"
    /\ rcv = <<>> /\ wire = <<>>
    /\ nospace = FALSE
    /\ edge = TRUE              \* EPOLLOUT of the new connection
    /\ ev = {}
    /\ server = "wait"
    /\ task = "none"
    /\ reading = FALSE /\ writing = FALSE
    /\ text = <<>>
    /\ job = Nobody
    /\ off = 0 /\ now = 0
    /\ replaced = FALSE
    /\ aged = FALSE

Gone == server \in {"closed", "stopped"}
Left == client # "open"

------------------------------------------------------------------------------
(* Answers: a header with the length it announces, and the body. *)

Header(i, code, n) == <<"head", i, code, n>>
Error(code) == <<"error", code>>

\* end_bytes and sz of handle_http.
LastByte(r) == IF r.last = Open THEN r.size - 1 ELSE r.last

\* Mutant of Length: the range is taken for half-open.
LengthHalfOpen(r) == IF r.kind = "range" THEN LastByte(r) - r.first ELSE r.size

Length(r) == IF r.kind = "range" THEN LastByte(r) - r.first + 1 ELSE r.size
Start(r) == IF r.kind = "range" THEN r.first ELSE 0

\* What is thrown for a request that has no page: by open_read_only, by
\* std::stol for a range `-n', by substr for a header without a value.
Thrown(r) == CASE r.kind = "missing" -> "file_exception"
               [] r.kind = "refused" -> "invalid_argument"
               [] r.kind = "bare" -> "out_of_range"

Code(r) ==
    CASE r.kind = "page" -> 200
      [] r.kind = "range" -> 206
      [] r.kind = "fresh" -> 304
      [] OTHER -> IF Catches("IO_exception", Thrown(r)) THEN 404 ELSE 403

\* What the client reads behind a header.
Body(i, code, n) ==
    IF code \in {404, 403} THEN <<Error(code)>>
    ELSE [p \in 1..n |-> Data(Start(asked[i]) + p)]

------------------------------------------------------------------------------
(* The client. *)

Deliver(segment) ==
    /\ rcv' = IF Gone THEN rcv ELSE Append(rcv, segment)
    /\ edge' = TRUE

Ask ==
    /\ client = "open" /\ ~Gone /\ ~rest
    /\ Len(asked) < MaxRequests
    /\ \A i \in DOMAIN asked : ~asked[i].close
    /\ \E r \in Requests : asked' = Append(asked, r)
    /\ pipelined' = (pipelined \/ pending # <<>> \/ due # <<>>)
    /\ pending' = Append(pending, Len(asked'))
    /\ \/ Deliver(<<"whole", Len(asked')>>) /\ UNCHANGED <<rest, split>>
       \/ Deliver(<<"front", Len(asked')>>) /\ rest' = TRUE /\ split' = TRUE
    /\ UNCHANGED <<due, client, wire, nospace, ev, server, flagVars, pageVars, replaced, aged>>

AskRest ==
    /\ rest
    /\ client = "open"
    /\ rest' = FALSE
    /\ Deliver(<<"rest", Len(asked)>>)
    /\ UNCHANGED <<asked, split, pipelined, pending, due, client, wire, nospace, ev, server,
                   flagVars, pageVars, replaced, aged>>

\* What the next token is to a client that goes by Content-Length.
Verdict(token) ==
    IF token[1] = "head"
    THEN IF due # <<>> THEN "interleaved"
         ELSE IF pending = <<>> THEN "unasked"
         ELSE IF token[2] # Head(pending) THEN "stale" ELSE "open"
    ELSE IF due = <<>> THEN "surplus"
         ELSE IF token # Head(due) THEN "corrupt" ELSE "open"

\* One token; room appears for a server that ran out of it.  A client that
\* cannot make sense of the stream closes it.
Receive ==
    /\ client = "open" /\ wire # <<>>
    /\ LET token == Head(wire) IN
         /\ client' = Verdict(token)
         /\ IF client' # "open" THEN UNCHANGED <<pending, due>>
            ELSE IF token[1] = "head"
            THEN /\ pending' = Tail(pending)
                 /\ due' = Body(token[2], token[3], token[4])
            ELSE due' = Tail(due) /\ UNCHANGED pending
    /\ wire' = Tail(wire)
    /\ edge' = (edge \/ nospace \/ client' # "open")
    /\ nospace' = FALSE
    /\ UNCHANGED <<asked, rest, split, pipelined, rcv, ev, server, flagVars, pageVars, replaced,
                   aged>>

\* The client closes, on its own or because the server has.
Leave ==
    /\ client = "open"
    /\ client' = "left"
    /\ edge' = TRUE
    /\ UNCHANGED <<asked, rest, split, pipelined, pending, due, rcv, wire, nospace, ev, server,
                   flagVars, pageVars, replaced, aged>>

SeesEnd == Gone /\ wire = <<>> /\ Leave

Client == AskRest \/ Receive \/ SeesEnd

------------------------------------------------------------------------------
(* Somebody else's upload of the page that is being sent (FileReceived and *)
(* HttpPath are the same directory unless sft.json says otherwise).        *)

Replace ==
    /\ ~replaced
    /\ server = "send" \/ task = "send"
    /\ replaced' = TRUE
    /\ now' \in {0, job.size + 1}
    /\ UNCHANGED <<clientVars, kernelVars, server, flagVars, text, job, off, aged>>

------------------------------------------------------------------------------
(* The server. *)

Mask == (IF rcv # <<>> \/ Left THEN {"IN"} ELSE {})
          \cup (IF Len(wire) < Window THEN {"OUT"} ELSE {})
          \cup (IF Left THEN {"HUP"} ELSE {})

EpollWait ==
    /\ server = "wait"
    /\ edge /\ Mask # {}
    /\ ev' = Mask
    /\ edge' = FALSE
    /\ server' = "dispatch"
    /\ UNCHANGED <<clientVars, rcv, wire, nospace, flagVars, pageVars, replaced, aged>>

\* close(): bytes that were not read turn it into a reset, which may overtake
\* what the client has not read yet.
Shut ==
    /\ server' = "closed"
    /\ rcv' = <<>>
    /\ \E n \in (IF rcv = <<>> THEN {Len(wire)} ELSE 0..Len(wire)) : wire' = SubSeq(wire, 1, n)
    /\ UNCHANGED <<nospace, edge, ev>>

Disconnect ==
    /\ server = "dispatch" /\ "HUP" \in ev
    /\ Shut
    /\ UNCHANGED <<clientVars, flagVars, pageVars, replaced, aged>>

\* An alarm, alone or in the batch of an event of this connection: an entry that
\* no event has renewed since the alarm before is closed, whatever the client
\* waits for -- unless clear_expired stops before it comes to the entry.
Ages ==
    /\ server \in {"wait", "dispatch"}
    /\ aged' = TRUE
    /\ UNCHANGED <<clientVars, kernelVars, server, flagVars, pageVars, replaced>>

Expires ==
    /\ server \in {"wait", "dispatch"} /\ aged
    /\ Shut
    /\ UNCHANGED <<clientVars, flagVars, pageVars, replaced, aged>>

Tick == Ages \/ Expires

\* EPOLLIN resumes a coroutine that waits to read, or is a request; without it
\* EPOLLOUT resumes one that waits to write, or is nothing.
Dispatch ==
    /\ server = "dispatch" /\ "HUP" \notin ev
    /\ aged' = FALSE
    /\ server' = IF "IN" \in ev THEN (IF reading THEN task ELSE "decide")
                 ELSE IF writing THEN task ELSE "wait"
    /\ UNCHANGED <<clientVars, kernelVars, flagVars, pageVars, replaced>>

\* decide_action reads until EAGAIN; `task = handle_http(fd)' replaces whatever
\* coroutine the connection had, its flags stay.  A client that has left in
\* between goes unnoticed if an old EAGAIN is in errno.
Decide ==
    /\ server = "decide" /\ rcv # <<>>
    /\ Head(text \o rcv)[1] # "rest"
    /\ text' = text \o rcv
    /\ rcv' = <<>>
    /\ task' = "none"
    /\ server' = "answer"
    /\ UNCHANGED <<clientVars, wire, nospace, edge, ev, reading, writing, job, off, now, replaced,
                   aged>>

\* -1: a header line is no request, or the read met the end of the stream.
Unknown ==
    /\ server = "decide"
    /\ Left \/ Head(text \o rcv)[1] = "rest"
    /\ Shut
    /\ UNCHANGED <<clientVars, flagVars, pageVars, replaced, aged>>

\* The next round.  What is left in requests is not read again.
ReadRequest ==
    /\ server = "read"
    /\ IF text = <<>> THEN ~Left /\ text' = rcv /\ rcv' = <<>> ELSE UNCHANGED <<text, rcv>>
    /\ server' = "answer"
    /\ UNCHANGED <<clientVars, wire, nospace, edge, ev, flagVars, job, off, now, replaced,
                   aged>>

\* read() returned 0, perhaps behind a request.
ReadEnd ==
    /\ server = "read" /\ text = <<>> /\ Left
    /\ Shut
    /\ task' = "done" /\ reading' = FALSE /\ writing' = FALSE
    /\ UNCHANGED <<clientVars, pageVars, replaced, aged>>

HasRequest == text # <<>> /\ text[1][1] # "rest"

\* parse_http_request takes the first request of the text; the lines behind
\* its blank line are its post_content.  A request without its second segment
\* lacks the headers in it.
Parsed ==
    LET r == asked[text[1][2]]
    IN  IF text[1][1] = "whole" \/ (Len(text) > 1 /\ text[2] = <<"rest", text[1][2]>>)
        THEN r
        ELSE [r EXCEPT !.kind = IF r.kind \in {"missing", "refused"} THEN r.kind ELSE "page",
                       !.close = FALSE]

\* Mutant of Put: the socket is taken to have room for every answer.
PutAll(tokens) ==
    /\ wire' = wire \o tokens
    /\ UNCHANGED <<nospace, rcv, edge, ev>>

\* Writes of whole tokens; a write without room returns EAGAIN, and nobody
\* looks.
Put(tokens) ==
    LET room == Least(Len(tokens), Window - Len(wire))
    IN  /\ wire' = wire \o SubSeq(tokens, 1, room)
        /\ nospace' = (nospace \/ room < Len(tokens))
        /\ UNCHANGED <<rcv, edge, ev>>

\* next_round.
\* Mutant of NextRound: the flag of the suspended body stays.
NextRoundWriting ==
    /\ task' = "read"
    /\ reading' = TRUE
    /\ UNCHANGED writing
    /\ server' = "wait"

NextRound ==
    /\ task' = "read"
    /\ reading' = TRUE
    /\ writing' = FALSE
    /\ server' = "wait"

\* Mutant of AnswerPage: request.clear() is left out.
AnswerPageKeepingText ==
    /\ server = "answer" /\ HasRequest
    /\ Parsed.kind \in {"page", "range"}
    /\ Put(<<Header(text[1][2], Code(Parsed), Length(Parsed))>>)
    /\ job' = Parsed
    /\ off' = Start(Parsed)
    /\ now' = Parsed.size
    /\ UNCHANGED text
    /\ server' = "send"
    /\ UNCHANGED <<clientVars, flagVars, replaced, aged>>

\* 200 and 206: the header, then the body.
AnswerPage ==
    /\ server = "answer" /\ HasRequest
    /\ Parsed.kind \in {"page", "range"}
    /\ Put(<<Header(text[1][2], Code(Parsed), Length(Parsed))>>)
    /\ job' = Parsed
    /\ off' = Start(Parsed)
    /\ now' = Parsed.size
    /\ text' = <<>>
    /\ server' = "send"
    /\ UNCHANGED <<clientVars, flagVars, replaced, aged>>

\* 304: no body, and Connection: close is not looked at.
AnswerFresh ==
    /\ server = "answer" /\ HasRequest
    /\ Parsed.kind = "fresh"
    /\ Put(<<Header(text[1][2], 304, 0)>>)
    /\ text' = <<>>
    /\ NextRound
    /\ UNCHANGED <<clientVars, job, off, now, replaced, aged>>

\* 404 and 403, in two writes.  What parse_http_request throws leaves the
\* request where it is.
AnswerError ==
    /\ server = "answer" /\ HasRequest
    /\ Parsed.kind \in {"missing", "refused", "bare"}
    /\ Put(<<Header(text[1][2], Code(Parsed), 1), Error(Code(Parsed))>>)
    /\ text' = IF Parsed.kind = "bare" THEN text ELSE <<>>
    /\ NextRound
    /\ UNCHANGED <<clientVars, job, off, now, replaced, aged>>

\* A second segment on its own, or nothing: the scan for the slashes and the blank of a
\* request line goes on past the end of the text, until it finds them or the
\* process faults.
AnswerSegment ==
    /\ server = "answer" /\ ~HasRequest
    /\ text' = <<>>
    /\ \/ /\ \E code \in {403, 404} : Put(<<Header(0, code, 1), Error(code)>>)
          /\ NextRound
       \/ /\ server' = "stopped"
          /\ UNCHANGED <<kernelVars, flagVars>>
    /\ UNCHANGED <<clientVars, job, off, now, replaced, aged>>

\* EPIPE: the 404 of the handler fails as the answer did, and the exception
\* ends the coroutine.
AnswerFails ==
    /\ server = "answer" /\ Left
    /\ task' = "done"
    /\ text' = <<>>
    /\ server' = "wait"
    /\ UNCHANGED <<clientVars, kernelVars, reading, writing, job, off, now, replaced, aged>>

\* One sendfile64 of the loop: it always asks for Length(job), however much of
\* that is sent.
SendSome ==
    LET k == Least(Length(job), Least(Window - Len(wire), now - off))
    IN  /\ server = "send" /\ off # job.size /\ k > 0
        /\ wire' = wire \o [p \in 1..k |-> IF replaced THEN New(off + p) ELSE Data(off + p)]
        /\ off' = off + k
        /\ UNCHANGED <<clientVars, rcv, nospace, edge, ev, server, flagVars, text, job, now,
                       replaced, aged>>

\* Mutant of SendYield: nothing asks for the room that will appear.
SendYieldUnmarked ==
    /\ server = "send" /\ off # job.size
    /\ Length(job) > 0 /\ now > off /\ Len(wire) = Window
    /\ nospace' = TRUE
    /\ task' = "send"
    /\ UNCHANGED writing
    /\ server' = "wait"
    /\ UNCHANGED <<clientVars, rcv, wire, edge, ev, reading, pageVars, replaced, aged>>

\* EAGAIN.
SendYield ==
    /\ server = "send" /\ off # job.size
    /\ Length(job) > 0 /\ now > off /\ Len(wire) = Window
    /\ nospace' = TRUE
    /\ task' = "send"
    /\ writing' = TRUE
    /\ server' = "wait"
    /\ UNCHANGED <<clientVars, rcv, wire, edge, ev, reading, pageVars, replaced, aged>>

\* EINVAL for a negative count, EPIPE for a client that has left: the socket is
\* closed, the coroutine yields all the same.
SendFails ==
    /\ server = "send"
    /\ Length(job) < 0 \/ Left
    /\ Shut
    /\ task' = "send"
    /\ writing' = TRUE
    /\ UNCHANGED <<clientVars, reading, pageVars, replaced, aged>>

\* sendfile64 returns 0, off is not the size: the loop goes on for ever, and
\* no other connection is served.
Spinning ==
    /\ server = "send" /\ Length(job) >= 0
    /\ off # job.size
    /\ Length(job) = 0 \/ off >= now

\* Mutant of SendDone: every answer closes.
SendDoneCloses ==
    /\ server = "send" /\ off = job.size /\ Length(job) >= 0
    /\ Shut /\ task' = "done" /\ reading' = FALSE /\ writing' = FALSE
    /\ UNCHANGED <<clientVars, pageVars, replaced, aged>>

SendDone ==
    /\ server = "send" /\ off = job.size /\ Length(job) >= 0
    /\ IF job.close
       THEN Shut /\ task' = "done" /\ reading' = FALSE /\ writing' = FALSE
       ELSE NextRound /\ UNCHANGED kernelVars
    /\ UNCHANGED <<clientVars, pageVars, replaced, aged>>

Server ==
    \/ EpollWait
    \/ Disconnect
    \/ Dispatch
    \/ Decide
    \/ Unknown
    \/ ReadRequest
    \/ ReadEnd
    \/ AnswerPage
    \/ AnswerFresh
    \/ AnswerError
    \/ AnswerSegment
    \/ AnswerFails
    \/ SendSome
    \/ SendYield
    \/ SendFails
    \/ SendDone

Next == Ask \/ Client \/ Leave \/ Replace \/ Tick \/ Server

Spec == Init /\ [][Next]_vars

\* The client reads what there is, the loop serves what epoll reports; no alarm
\* need ever come in between.
FairSpec == Spec /\ WF_vars(Client) /\ WF_vars(Server)

------------------------------------------------------------------------------
(* Properties. *)

\* A range is answered soundly when it ends where the page does.
Sound(r) ==
    /\ r.kind # "bare"
    /\ r.kind = "range" => r.first <= r.size /\ LastByte(r) = r.size - 1

\* A client that waits for each answer, whose requests come in one segment,
\* and whose ranges and headers the server can cope with.
Careful ==
    /\ ~pipelined /\ ~split /\ ~replaced
    /\ \A i \in DOMAIN asked : Sound(asked[i])

\* On a connection that is kept alive, a careful client finds for every request
\* one header, then exactly the bytes it announces, each the byte of its place:
\* however sends and yields fall, whichever event resumes the coroutine, and
\* whatever was answered before.
Framed == client \in Wrong => ~Careful

\* Nobody, pipelining or not, is sent an answer too many, unless a request was
\* taken apart, or one that could not be parsed stays to be answered again.
NeverUnasked ==
    client = "unasked" => split \/ \E i \in DOMAIN asked : asked[i].kind = "bare"

\* The sendfile64 loop, in which the whole server hangs, is left by every
\* answer but those to a range that is empty or starts past the end of the
\* page, as long as nobody replaces the page.
OnlyOddRangesSpin ==
    Spinning /\ ~replaced => job.first > job.size \/ LastByte(job) < job.first

\* The server closes on a client that is still there only when it asked for
\* that, sent a range that runs backwards, or a segment that is no request; or
\* at an alarm, when the connection has been idle since the one before.  No
\* event in hand is ever followed by a close of another cause.
ClosedForCause ==
    server = "closed" /\ client = "open" =>
        \/ split \/ aged
        \/ \E i \in DOMAIN asked : asked[i].close \/ Length(asked[i]) < 0

\* When epoll_wait blocks, a careful client has something to read or is owed
\* nothing: no edge is spent on a request that stays unread, or on room that a
\* suspended body does not use.
BlocksOwingNothing ==
    server = "wait" /\ ~(edge /\ Mask # {}) /\ client = "open" /\ Careful =>
        wire # <<>> \/ (pending = <<>> /\ due = <<>>)

\* A careful client that stays gets an answer to each request, to its last
\* byte: no edge is lost between reads, yields and rounds.
Answered ==
    pending # <<>> ~> (pending = <<>> /\ due = <<>>) \/ client # "open" \/ ~Careful
==============================================================================
