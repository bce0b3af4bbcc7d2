----------------------------- MODULE HttpProofs -----------------------------
(***************************************************************************)
(* Proofs about Http, for every set of requests, every number of them and  *)
(* every window, with the client leaving and the page replaced at any      *)
(* time.                                                                   *)
(*                                                                         *)
(* None of the properties is inductive.  Which coroutine an event resumes  *)
(* is decided by flags that outlive it (Resuming); the requests that are   *)
(* still unanswered, wherever they are, carry rising numbers (Numbered);   *)
(* and what a careful client has received, what is on the wire and what    *)
(* sendfile has still to send are together the one answer to its last      *)
(* request (Answering).                                                    *)
(***************************************************************************)
EXTENDS Http, BytesProofs

Other == {"data", "new", "error"} \X Nat
Token == ({"head"} \X Nat \X Nat \X Int) \cup Other

IsHead(t) == t[1] = "head"

Sequences ==
    /\ asked \in Seq(Requests)
    /\ pending \in Seq(Nat)
    /\ wire \in Seq(Token) /\ due \in Seq(Token)

\* Which event may resume the coroutine: a flag that is still up belongs to a
\* coroutine that is suspended, unless the client has left.
Resuming ==
    /\ "HUP" \in ev => Left
    /\ task = "read" => ~writing
    /\ server = "wait" /\ (reading \/ writing) /\ ~Left => task \in {"read", "send"}
    /\ server = "dispatch" /\ "HUP" \notin ev =>
         /\ reading \/ writing => task \in {"read", "send"}
         /\ "IN" \in ev => rcv # <<>>
    /\ server \in {"decide", "read"} => rcv # <<>>
    /\ server = "answer" => text # <<>>

\* Segments belong to requests; only a request in two of them is not whole.
Segmented(q) ==
    \A i \in 1..Len(q) : q[i][2] \in 1..Len(asked) /\ (q[i][1] # "whole" => split)

Whole == Segmented(rcv) /\ Segmented(text) /\ (rest => split /\ asked # <<>>)

\* The page being sent, as long as nobody replaces it.
Paging ==
    ~replaced => /\ now = job.size
                 /\ off <= now \/ (job.kind = "range" /\ job.first > job.size)

Asks == \E i \in DOMAIN asked : asked[i].close \/ Length(asked[i]) < 0

Caused ==
    /\ job.close \/ Length(job) < 0 => Asks
    /\ ClosedForCause

\* The requests whose header the client has read.
HeadersRead == Len(asked) - Len(pending)

Between(i) == i \in (HeadersRead + 1)..Len(asked)

\* The headers on the wire, the requests the coroutine has and those in the
\* socket: each is one of those the client waits for, in that order.
Numbered ==
    /\ \A j \in 1..Len(pending) : pending[j] = HeadersRead + j
    /\ \A i \in 1..Len(wire) : IsHead(wire[i]) => Between(wire[i][2])
    /\ \A i \in 1..Len(text) : Between(text[i][2])
    /\ \A i \in 1..Len(rcv) : Between(rcv[i][2])
    /\ \A i, j \in 1..Len(wire) :
         i < j /\ IsHead(wire[i]) /\ IsHead(wire[j]) => wire[i][2] < wire[j][2]
    /\ \A i, j \in 1..Len(text) : i < j => text[i][2] < text[j][2]
    /\ \A i, j \in 1..Len(rcv) : i < j => rcv[i][2] < rcv[j][2]
    /\ \A i \in 1..Len(wire), j \in 1..Len(text) : IsHead(wire[i]) => wire[i][2] < text[j][2]
    /\ \A i \in 1..Len(wire), j \in 1..Len(rcv) : IsHead(wire[i]) => wire[i][2] < rcv[j][2]
    /\ \A i \in 1..Len(text), j \in 1..Len(rcv) : text[i][2] < rcv[j][2]

Parsable == ~split /\ \A i \in DOMAIN asked : asked[i].kind # "bare"

Unanswered ==
    /\ Parsable /\ client = "open" => Numbered
    /\ NeverUnasked

\* The one answer to a request: a header, then the body it announces.
Paged(r) == r.kind \in {"page", "range"}
Wanted(r) == IF Paged(r) THEN Length(r) ELSE IF r.kind = "fresh" THEN 0 ELSE 1
AnswerToken(i, r, p) ==
    IF p = 1 THEN Header(i, Code(r), Wanted(r))
    ELSE IF Paged(r) THEN Data(Start(r) + p - 1) ELSE Error(Code(r))

\* How many tokens of the answer a client has received.
Received(r) == IF pending = <<>> THEN Wanted(r) + 1 - Len(due) ELSE 0

Sending == server = "send" \/ (server \in {"wait", "dispatch"} /\ task = "send")

\* A client with its last request r, which is the i-th.
LastAnswer(i, r) ==
    /\ pending = <<>> \/ (pending = <<i>> /\ due = <<>>)
    /\ rcv = <<>> \/ (rcv = <<<<"whole", i>>>> /\ text = <<>>)
    /\ text = <<>> \/ (text = <<<<"whole", i>>>> /\ server = "answer")
    /\ rcv # <<>> \/ text # <<>> => pending = <<i>> /\ wire = <<>>
    /\ Len(due) <= Wanted(r)
    /\ \A p \in 1..Len(due) : due[p] = AnswerToken(i, r, Wanted(r) + 1 - Len(due) + p)
    /\ Received(r) + Len(wire) <= Wanted(r) + 1
    /\ \A p \in 1..Len(wire) : wire[p] = AnswerToken(i, r, Received(r) + p)
    /\ Sending /\ off # job.size =>
         /\ job = r /\ Paged(r) /\ off <= now
         /\ rcv = <<>> /\ text = <<>>
         /\ Received(r) + Len(wire) >= 1
         /\ off = Start(r) + Received(r) + Len(wire) - 1

NoAnswer ==
    /\ pending = <<>> /\ due = <<>> /\ rcv = <<>> /\ text = <<>> /\ wire = <<>>
    /\ Sending => off = job.size

Answering ==
    /\ Careful /\ client = "open" =>
         IF asked = <<>> THEN NoAnswer ELSE LastAnswer(Len(asked), asked[Len(asked)])
    /\ Framed

Checked == Resuming /\ Whole /\ Paging /\ Caused /\ Unanswered /\ Answering

IInv == TypeOK /\ Sequences /\ Checked

------------------------------------------------------------------------------
(* Tokens, requests and what the steps of the kernel do to the stream. *)

LEMMA Tokens ==
  /\ \A i \in Nat, c \in Nat, n \in Int :
       Header(i, c, n) \in Token /\ IsHead(Header(i, c, n)) /\ Header(i, c, n)[2] = i
       /\ Header(i, c, n)[3] = c /\ Header(i, c, n)[4] = n
  /\ \A i \in Nat : Data(i) \in Token /\ ~IsHead(Data(i))
  /\ \A i \in Nat : New(i) \in Token /\ ~IsHead(New(i))
  /\ \A i \in Nat : Error(i) \in Token /\ ~IsHead(Error(i))
<1>1. \A i \in Nat, c \in Nat, n \in Int :
       IsHead(Header(i, c, n)) /\ Header(i, c, n)[2] = i
       /\ Header(i, c, n)[3] = c /\ Header(i, c, n)[4] = n
  BY DEF Header, IsHead
<1>2. \A i \in Nat, c \in Nat, n \in Int : Header(i, c, n) \in Token
  BY DEF Token, Header
<1>3. \A i \in Nat : Data(i) \in Other /\ New(i) \in Other /\ Error(i) \in Other
  BY DEF Data, New, Error, Other
<1>4. \A i \in Nat : ~IsHead(Data(i)) /\ ~IsHead(New(i)) /\ ~IsHead(Error(i))
  BY DEF Data, New, Error, IsHead
<1>5. Other \subseteq Token
  BY DEF Token
<1> QED
  BY <1>1, <1>2, <1>3, <1>4, <1>5

LEMMA Heads ==
  ASSUME NEW t \in Token, IsHead(t)
  PROVE  t[2] \in Nat /\ t[3] \in Nat /\ t[4] \in Int
<1>1. t \notin Other
  BY DEF Other, IsHead
<1> QED
  BY <1>1 DEF Token

LEMMA Codes ==
  ASSUME NEW r
  PROVE  /\ Code(r) \in {200, 206, 304, 403, 404}
         /\ r.kind = "page" => Code(r) = 200
         /\ r.kind = "range" => Code(r) = 206
         /\ r.kind = "fresh" => Code(r) = 304
         /\ r.kind \notin {"page", "range", "fresh"} => Code(r) \in {403, 404}
  BY DEF Code

LEMMA CodeType ==
  ASSUME NEW r
  PROVE  Code(r) \in Nat
<1>1. Code(r) \in {200, 206, 304, 403, 404}
  BY Codes
<1> QED
  BY <1>1

LEMMA Asked ==
  ASSUME NEW r \in Request
  PROVE  /\ r.kind \in Kinds /\ r.size \in Nat /\ r.first \in Nat /\ r.close \in BOOLEAN
         /\ LastByte(r) \in Int /\ Length(r) \in Int /\ Start(r) \in Nat
         /\ Wanted(r) \in Int
  BY DEF Request, Open, LastByte, Length, Start, Wanted, Paged

LEMMA Numbers ==
  ASSUME TypeOK, Sequences
  PROVE  /\ Len(asked) \in Nat /\ DOMAIN asked = 1..Len(asked)
         /\ Len(pending) \in Nat /\ DOMAIN pending = 1..Len(pending)
         /\ Len(wire) \in Nat /\ Len(due) \in Nat
         /\ Len(rcv) \in Nat /\ Len(text) \in Nat
         /\ \A i \in 1..Len(asked) : asked[i] \in Requests /\ asked[i] \in Request
  BY RequestsAssumption, LenProperties, ElementOfSeq DEF TypeOK, Sequences

\* A write of the first k of the tokens x.
Adds(x, k) ==
    /\ wire' \in Seq(Token) /\ Len(wire') = Len(wire) + k /\ Len(wire') <= Window
    /\ \A i \in 1..Len(wire) : wire'[i] = wire[i]
    /\ \A i \in 1..k : wire'[Len(wire) + i] = x[i]

\* close() leaves the first n tokens to the client.
Leaves(n) ==
    /\ wire' \in Seq(Token) /\ Len(wire') = n /\ Len(wire') <= Window
    /\ \A i \in 1..n : wire'[i] = wire[i]

LEMMA Added ==
  ASSUME wire \in Seq(Token), NEW x \in Seq(Token), Len(wire) + Len(x) <= Window,
         wire' = Cat(wire, x)
  PROVE  Adds(x, Len(x))
<1>1. ASSUME NEW p \in Seq(Token), NEW q \in Seq(Token)
      PROVE  /\ Cat(p, q) \in Seq(Token) /\ Len(Cat(p, q)) = Len(p) + Len(q)
             /\ \A i \in 1..Len(p) : Cat(p, q)[i] = p[i]
             /\ \A i \in 1..Len(q) : Cat(p, q)[Len(p) + i] = q[i]
  BY ConcatProperties DEF Cat
<1>2. /\ wire' \in Seq(Token) /\ Len(wire') = Len(wire) + Len(x) /\ Len(wire') <= Window
      /\ \A i \in 1..Len(wire) : wire'[i] = wire[i]
      /\ \A i \in 1..Len(x) : wire'[Len(wire) + i] = x[i]
  BY <1>1
<1> QED
  BY <1>2 DEF Adds

LEMMA PutStep ==
  ASSUME TypeOK, Sequences, NEW x \in Seq(Token), Put(x)
  PROVE  /\ \E k \in 0..Len(x) : Adds(x, k) /\ (k = Len(x) \/ Len(wire) + k = Window)
         /\ UNCHANGED <<rcv, edge, ev>>
         /\ nospace' = nospace \/ nospace' = TRUE
<1> DEFINE room == Least(Len(x), Window - Len(wire))
           y == SubSeq(x, 1, room)
<1>1. /\ wire \in Seq(Token) /\ Len(wire) \in Nat /\ Len(wire) <= Window
      /\ Len(x) \in Nat /\ Window \in Nat
  BY Numbers, LenProperties, BoundsAssumption DEF Sequences, TypeOK
<1>2. room \in 0..Len(x) /\ (room = Len(x) \/ Len(wire) + room = Window)
      /\ Len(wire) + room <= Window
  BY <1>1 DEF Least
<1>3. /\ wire' = Cat(wire, y)
      /\ nospace' = (nospace \/ room < Len(x))
      /\ UNCHANGED <<rcv, edge, ev>>
  BY DEF Put, Cat
<1> HIDE DEF room
<1>4. y \in Seq(Token) /\ Len(y) = room /\ \A i \in 1..room : y[i] = x[i]
  BY <1>2, ReadSplits
<1> HIDE DEF y
<1>5. Adds(y, room)
  BY <1>1, <1>2, <1>3, <1>4, Added
<1>6. Adds(x, room)
  BY <1>4, <1>5 DEF Adds
<1>7. nospace' = nospace \/ nospace' = TRUE
  <2>1. nospace \in BOOLEAN
    BY DEF TypeOK
  <2> QED
    BY <1>3, <2>1, Zenon
<1> QED
  BY <1>2, <1>3, <1>6, <1>7

LEMMA ShutStep ==
  ASSUME TypeOK, Sequences, Shut
  PROVE  /\ \E n \in 0..Len(wire) : Leaves(n)
         /\ server' = "closed" /\ rcv' = <<>> /\ UNCHANGED <<nospace, edge, ev>>
<1>1. wire \in Seq(Token) /\ Len(wire) \in Nat /\ Len(wire) <= Window /\ Window \in Nat
  BY Numbers, BoundsAssumption DEF Sequences, TypeOK
<1>2. PICK n \in 0..Len(wire) : wire' = SubSeq(wire, 1, n)
  BY <1>1 DEF Shut
<1>3. Leaves(n)
  BY <1>1, <1>2, ReadSplits DEF Leaves
<1> QED
  BY <1>2, <1>3 DEF Shut

LEMMA ReceiveStep ==
  ASSUME TypeOK, Sequences, Receive
  PROVE  /\ client = "open" /\ wire # <<>> /\ wire[1] \in Token /\ Len(wire) >= 1
         /\ Head(wire) = wire[1]
         /\ wire' \in Seq(Token) /\ Len(wire') = Len(wire) - 1
         /\ \A i \in 1..Len(wire') : wire'[i] = wire[1 + i]
<1>1. client = "open" /\ wire # <<>> /\ wire' = Tail(wire) /\ wire \in Seq(Token)
  BY DEF Receive, Sequences
<1>2. /\ Head(wire) = wire[1] /\ Head(wire) \in Token
      /\ wire' \in Seq(Token) /\ Len(wire') = Len(wire) - 1
      /\ \A i \in 1..Len(wire') : wire'[i] = wire[1 + i]
  BY <1>1, HeadTailProperties
<1>3. Len(wire) >= 1
  BY <1>1, LenProperties, EmptySeq
<1> QED
  BY <1>1, <1>2, <1>3

LEMMA OneToken ==
  ASSUME NEW t \in Token
  PROVE  <<t>> \in Seq(Token) /\ Len(<<t>>) = 1 /\ <<t>>[1] = t
  OBVIOUS

LEMMA TwoTokens ==
  ASSUME NEW t \in Token, NEW u \in Token
  PROVE  <<t, u>> \in Seq(Token) /\ Len(<<t, u>>) = 2 /\ <<t, u>>[1] = t /\ <<t, u>>[2] = u
  OBVIOUS

\* A request that is taken apart loses its headers, not its place.
LEMMA ParsedProperties ==
  ASSUME TypeOK, Sequences, Whole, HasRequest
  PROVE  /\ Len(text) >= 1 /\ text[1][2] \in 1..Len(asked) /\ asked[text[1][2]] \in Request
         /\ Parsed \in Request
         /\ \/ Parsed = asked[text[1][2]]
            \/ split /\ Parsed.kind \in {"page", "missing", "refused"} /\ ~Parsed.close
<1>1. text # <<>> /\ text \in Seq(Segments) /\ Len(text) \in Nat
  BY Numbers DEF HasRequest, TypeOK
<1>2. Len(text) >= 1
  BY <1>1, EmptySeq
<1>3. text[1][2] \in 1..Len(asked) /\ (text[1][1] # "whole" => split)
  BY <1>1, <1>2 DEF Whole, Segmented
<1> DEFINE r == asked[text[1][2]]
           cut == [r EXCEPT !.kind = IF r.kind \in {"missing", "refused"} THEN r.kind ELSE "page",
                            !.close = FALSE]
<1>4. r \in Request
  BY <1>3, Numbers
<1>5. cut \in Request /\ cut.kind \in {"page", "missing", "refused"} /\ ~cut.close
  BY <1>4 DEF Request, Kinds
<1>6. Parsed = r \/ (Parsed = cut /\ text[1][1] # "whole")
  BY DEF Parsed
<1> HIDE DEF cut
<1> QED
  BY <1>2, <1>3, <1>4, <1>5, <1>6

\* What the handler writes for the request at the front of its text.
AnswersWith(x, k) ==
    /\ k \in 0..Len(x) /\ Adds(x, k)
    /\ k = Len(x) \/ Len(wire) + k = Window
    /\ Len(x) \in {1, 2}
    /\ \A p \in 1..Len(x) : x[p] = AnswerToken(text[1][2], Parsed, p)
    /\ Len(x) = 2 => Wanted(Parsed) = 1 /\ ~Paged(Parsed)
    /\ Len(x) = 1 => Paged(Parsed) \/ Wanted(Parsed) = 0
    /\ UNCHANGED <<rcv, edge, ev>>
    /\ nospace' = nospace \/ nospace' = TRUE

LEMMA AnswerStep ==
  ASSUME TypeOK, Sequences, Whole, AnswerPage \/ AnswerFresh \/ AnswerError
  PROVE  \E x \in Seq(Token) : \E k \in 0..Len(x) : AnswersWith(x, k)
<1>1. HasRequest /\ server = "answer"
  BY DEF AnswerPage, AnswerFresh, AnswerError
<1>2. text[1][2] \in 1..Len(asked) /\ Parsed \in Request
  BY <1>1, ParsedProperties
<1> DEFINE i == text[1][2]
           t == AnswerToken(i, Parsed, 1)
           u == AnswerToken(i, Parsed, 2)
<1>3. i \in Nat /\ Code(Parsed) \in Nat /\ Length(Parsed) \in Int /\ Wanted(Parsed) \in Int
  <2>1. i \in Nat
    BY <1>2, Numbers
  <2>2. Code(Parsed) \in Nat
    BY CodeType, Zenon
  <2>3. Length(Parsed) \in Int /\ Wanted(Parsed) \in Int
    BY <1>2, Asked, Zenon
  <2> QED
    BY <2>1, <2>2, <2>3, Zenon
<1>4. t = Header(i, Code(Parsed), Wanted(Parsed)) /\ t \in Token
  BY <1>3, Tokens DEF AnswerToken
<1>5. CASE AnswerPage \/ AnswerFresh
  <2>1. Put(<<t>>)
    BY <1>4, <1>5, Codes DEF AnswerPage, AnswerFresh, Wanted, Paged
  <2> DEFINE x == <<t>>
  <2>2. x \in Seq(Token) /\ Len(x) = 1 /\ x[1] = t
    BY <1>4, OneToken
  <2>3. Put(x)
    BY <2>1
  <2> HIDE DEF x
  <2>4. PICK k \in 0..Len(x) : Adds(x, k) /\ (k = Len(x) \/ Len(wire) + k = Window)
    BY <2>2, <2>3, PutStep
  <2>5. UNCHANGED <<rcv, edge, ev>> /\ (nospace' = nospace \/ nospace' = TRUE)
    BY <2>2, <2>3, PutStep
  <2>6. \A p \in 1..Len(x) : x[p] = AnswerToken(i, Parsed, p)
    BY <2>2
  <2>7. Paged(Parsed) \/ Wanted(Parsed) = 0
    BY <1>5 DEF AnswerPage, AnswerFresh, Paged, Wanted
  <2>8. AnswersWith(x, k)
    BY <2>2, <2>4, <2>5, <2>6, <2>7 DEF AnswersWith
  <2> QED
    BY <2>2, <2>8
<1>6. CASE AnswerError
  <2>1. /\ Parsed.kind \in {"missing", "refused", "bare"}
        /\ Put(<<Header(i, Code(Parsed), 1), Error(Code(Parsed))>>)
    BY <1>6 DEF AnswerError
  <2>2. Wanted(Parsed) = 1 /\ ~Paged(Parsed) /\ u = Error(Code(Parsed))
    BY <2>1 DEF Wanted, Paged, AnswerToken
  <2>10. u \in Token
    BY <1>3, <2>2, Tokens
  <2>3. Put(<<t, u>>)
    BY <1>4, <2>1, <2>2
  <2> DEFINE x == <<t, u>>
  <2>4. x \in Seq(Token) /\ Len(x) = 2 /\ x[1] = t /\ x[2] = u
    BY <1>4, <2>10, TwoTokens
  <2>5. Put(x)
    BY <2>3
  <2> HIDE DEF x, t, u
  <2>6. PICK k \in 0..Len(x) : Adds(x, k) /\ (k = Len(x) \/ Len(wire) + k = Window)
    BY <2>4, <2>5, PutStep
  <2>7. UNCHANGED <<rcv, edge, ev>> /\ (nospace' = nospace \/ nospace' = TRUE)
    BY <2>4, <2>5, PutStep
  <2>8. \A p \in 1..Len(x) : p = 1 \/ p = 2
    BY <2>4
  <2>9. \A p \in 1..Len(x) : x[p] = AnswerToken(i, Parsed, p)
    BY <2>4, <2>8 DEF t, u
  <2>11. AnswersWith(x, k)
    BY <2>2, <2>4, <2>6, <2>7, <2>9 DEF AnswersWith
  <2> QED
    BY <2>4, <2>11
<1> QED
  BY <1>5, <1>6

\* Several tokens of the page, as it is by then.
SendsSome(x, k) ==
    /\ k \in Nat \ {0} /\ k <= now - off
    /\ Adds(x, k)
    /\ \A p \in 1..k : x[p] = IF replaced THEN New(off + p) ELSE Data(off + p)
    /\ server = "send" /\ off # job.size /\ off' = off + k
    /\ UNCHANGED <<clientVars, rcv, nospace, edge, ev, server, flagVars, text, job, now, replaced>>

LEMMA SendSomeStep ==
  ASSUME TypeOK, Sequences, SendSome
  PROVE  \E x \in Seq(Token), k \in Nat : SendsSome(x, k)
<1> DEFINE m == Least(Window - Len(wire), now - off)
           k == Least(Length(job), m)
           x == [p \in 1..k |-> IF replaced THEN New(off + p) ELSE Data(off + p)]
<1>1. /\ wire \in Seq(Token) /\ Len(wire) \in Nat /\ Len(wire) <= Window
      /\ Window \in Nat /\ off \in Nat /\ now \in Nat /\ job \in Request
  BY Numbers, BoundsAssumption DEF Sequences, TypeOK
<1>0. Length(job) \in Int /\ Window - Len(wire) \in Int /\ now - off \in Int
  BY <1>1, Asked
<1>2. m \in Int /\ m <= Window - Len(wire) /\ m <= now - off
  BY <1>0, LeastBound
<1>3. /\ server = "send" /\ off # job.size /\ k > 0
      /\ wire' = Cat(wire, x) /\ off' = off + k
      /\ UNCHANGED <<clientVars, rcv, nospace, edge, ev, server, flagVars, text, job, now, replaced>>
  BY DEF SendSome, Cat
<1> HIDE DEF m
<1>4. k \in Int /\ k <= m
  BY <1>0, <1>2, LeastBound
<1>5. k \in Nat \ {0} /\ k <= now - off /\ Len(wire) + k <= Window
  BY <1>1, <1>2, <1>3, <1>4
<1> HIDE DEF k
<1>6. \A p \in 1..k : New(off + p) \in Token /\ Data(off + p) \in Token
  <2>1. \A p \in 1..k : off + p \in Nat
    BY <1>1, <1>5
  <2> QED
    BY <2>1, Tokens
<1>7. x \in [1..k -> Token]
  BY <1>6
<1>8. x \in Seq(Token) /\ Len(x) = k
  BY <1>5, <1>7
<1>9. \A p \in 1..k : x[p] = IF replaced THEN New(off + p) ELSE Data(off + p)
  OBVIOUS
<1> HIDE DEF x
<1>10. Adds(x, k)
  BY <1>1, <1>3, <1>5, <1>8, Added
<1> QED
  BY <1>3, <1>5, <1>8, <1>9, <1>10 DEF SendsSome

------------------------------------------------------------------------------
(* Types. *)

LEMMA TypeInit == Init => TypeOK /\ Sequences
<1> SUFFICES ASSUME Init
             PROVE  TypeOK /\ Sequences
  OBVIOUS
<1> USE DEF Init
<1>1. /\ <<rest, split, pipelined>> \in BOOLEAN \X BOOLEAN \X BOOLEAN
      /\ <<replaced, aged>> \in BOOLEAN \X BOOLEAN
      /\ <<nospace, edge, reading, writing>> \in BOOLEAN \X BOOLEAN \X BOOLEAN \X BOOLEAN
  OBVIOUS
<1>2. job \in Request
  BY DEF Nobody, Request, Kinds
<1>3. /\ Len(asked) = 0 /\ DOMAIN asked = {} /\ DOMAIN pending = {} /\ Len(wire) = 0
      /\ rcv \in Seq(Segments) /\ text \in Seq(Segments)
      /\ Sequences
  BY DEF Sequences
<1>4. MaxRequests \in Nat /\ Window \in Nat
  BY BoundsAssumption
<1> QED
  BY <1>1, <1>2, <1>3, <1>4 DEF TypeOK

LEMMA BooleansNext ==
  ASSUME TypeOK, Sequences, Whole, [Next]_vars
  PROVE  /\ <<rest, split, pipelined>>' \in BOOLEAN \X BOOLEAN \X BOOLEAN
         /\ <<replaced, aged>>' \in BOOLEAN \X BOOLEAN
         /\ <<nospace, edge, reading, writing>>' \in BOOLEAN \X BOOLEAN \X BOOLEAN \X BOOLEAN
<1> USE DEF clientVars, kernelVars, flagVars, pageVars
<1>1. /\ rest \in BOOLEAN /\ split \in BOOLEAN /\ pipelined \in BOOLEAN
      /\ replaced \in BOOLEAN /\ aged \in BOOLEAN
      /\ nospace \in BOOLEAN /\ edge \in BOOLEAN /\ reading \in BOOLEAN /\ writing \in BOOLEAN
  BY DEF TypeOK
<1>2. CASE Ask \/ Client \/ Leave \/ Replace \/ Ages
  <2>1. /\ rest' = rest \/ rest' = TRUE \/ rest' = FALSE
        /\ split' = split \/ split' = TRUE
        /\ replaced' = replaced \/ replaced' = TRUE
    BY <1>2 DEF Client, Ask, AskRest, Receive, SeesEnd, Leave, Replace, Ages
  <2>4. /\ aged' = aged \/ aged' = TRUE
        /\ nospace' = nospace \/ nospace' = FALSE
        /\ reading' = reading /\ writing' = writing
    BY <1>2 DEF Client, Ask, AskRest, Receive, SeesEnd, Leave, Replace, Ages
  <2>2. pipelined' = pipelined \/ pipelined' = (pipelined \/ pending # <<>> \/ due # <<>>)
    BY <1>2 DEF Client, Ask, AskRest, Receive, SeesEnd, Leave, Replace, Ages
  <2>3. edge' = edge \/ edge' = TRUE \/ edge' = (edge \/ nospace \/ client' # "open")
    BY <1>2 DEF Client, Ask, AskRest, Receive, SeesEnd, Leave, Replace, Ages, Deliver
  <2>5. rest' \in BOOLEAN /\ split' \in BOOLEAN /\ replaced' \in BOOLEAN
    BY <1>1, <2>1, Zenon
  <2>6. aged' \in BOOLEAN /\ nospace' \in BOOLEAN /\ reading' \in BOOLEAN /\ writing' \in BOOLEAN
    BY <1>1, <2>4, Zenon
  <2>7. pipelined' \in BOOLEAN /\ edge' \in BOOLEAN
    BY <1>1, <2>2, <2>3, Zenon
  <2> QED
    BY <2>5, <2>6, <2>7
<1>3. CASE Expires \/ Server
  <2>1. /\ UNCHANGED <<rest, split, pipelined, replaced>>
        /\ aged' = aged \/ aged' = FALSE
        /\ edge' = edge \/ edge' = FALSE
        /\ reading' = reading \/ reading' = TRUE \/ reading' = FALSE
        /\ writing' = writing \/ writing' = TRUE \/ writing' = FALSE
    BY <1>3 DEF Server, EpollWait, Expires, Disconnect, Dispatch, Decide, Unknown, ReadRequest,
       ReadEnd, AnswerPage, AnswerFresh, AnswerError, AnswerSegment, AnswerFails, SendSome,
       SendYield, SendFails, SendDone, Shut, Put, NextRound
  <2>2. nospace' = nospace \/ nospace' = TRUE
    <3>1. CASE AnswerPage \/ AnswerFresh \/ AnswerError
      BY <3>1, AnswerStep DEF AnswersWith
    <3>2. CASE AnswerSegment
      <4>1. CASE UNCHANGED kernelVars
        BY <4>1
      <4>2. CASE \E code \in {403, 404} : Put(<<Header(0, code, 1), Error(code)>>)
        <5>1. PICK code \in {403, 404} : Put(<<Header(0, code, 1), Error(code)>>)
          BY <4>2
        <5>2. Header(0, code, 1) \in Token /\ Error(code) \in Token
          BY Tokens
        <5>3. <<Header(0, code, 1), Error(code)>> \in Seq(Token)
          BY <5>2, TwoTokens
        <5> QED
          BY <5>1, <5>3, PutStep
      <4> QED
        BY <3>2, <4>1, <4>2 DEF AnswerSegment
    <3>3. CASE ~(AnswerPage \/ AnswerFresh \/ AnswerError \/ AnswerSegment)
      BY <1>3, <3>3 DEF Server, EpollWait, Expires, Disconnect, Dispatch, Decide, Unknown,
         ReadRequest, ReadEnd, AnswerFails, SendSome, SendYield, SendFails, SendDone, Shut
    <3> QED
      BY <3>1, <3>2, <3>3
  <2> QED
    BY <1>1, <2>1, <2>2, Zenon
<1>4. CASE UNCHANGED vars
  BY <1>1, <1>4 DEF vars
<1> QED
  BY <1>2, <1>3, <1>4 DEF Next, Tick

LEMMA AskStep ==
  ASSUME TypeOK, Sequences, Ask
  PROVE  /\ asked' \in Seq(Requests) /\ Len(asked') = Len(asked) + 1
         /\ \A i \in 1..Len(asked) : asked'[i] = asked[i]
         /\ pending' \in Seq(Nat) /\ Len(pending') = Len(pending) + 1
         /\ pending'[Len(pending) + 1] = Len(asked) + 1
         /\ \A i \in 1..Len(pending) : pending'[i] = pending[i]
         /\ ~Gone /\ client = "open"
         /\ \E kind \in {"whole", "front"} :
              rcv' = Append(rcv, <<kind, Len(asked) + 1>>) /\ (kind = "front" => split')
<1>1. PICK r \in Requests : asked' = Append(asked, r)
  BY DEF Ask
<1>2. /\ asked' \in Seq(Requests) /\ Len(asked') = Len(asked) + 1
      /\ \A i \in 1..Len(asked) : asked'[i] = asked[i]
  BY <1>1, AppendProperties DEF Sequences
<1>3. pending' = Append(pending, Len(asked) + 1) /\ Len(asked) + 1 \in Nat
  BY <1>2, Numbers DEF Ask
<1>4. /\ pending' \in Seq(Nat) /\ Len(pending') = Len(pending) + 1
      /\ pending'[Len(pending) + 1] = Len(asked) + 1
      /\ \A i \in 1..Len(pending) : pending'[i] = pending[i]
  BY <1>3, AppendProperties DEF Sequences
<1>5. ~Gone /\ client = "open"
  BY DEF Ask
<1>6. \E kind \in {"whole", "front"} :
              rcv' = Append(rcv, <<kind, Len(asked) + 1>>) /\ (kind = "front" => split')
  BY <1>2, <1>5 DEF Ask, Deliver
<1> QED
  BY <1>2, <1>4, <1>5, <1>6

LEMMA AskRestStep ==
  ASSUME TypeOK, Sequences, AskRest
  PROVE  /\ rest /\ client = "open"
         /\ rcv' = rcv \/ rcv' = Append(rcv, <<"rest", Len(asked)>>)
  BY DEF AskRest, Deliver

LEMMA BodyType ==
  ASSUME NEW i, NEW code \in Nat, NEW n \in Int, Start(asked[i]) \in Nat
  PROVE  Body(i, code, n) \in Seq(Token)
<1>1. CASE code \in {404, 403}
  <2>1. Error(code) \in Token
    BY Tokens
  <2>2. <<Error(code)>> \in Seq(Token)
    BY <2>1, OneToken
  <2> QED
    BY <1>1, <2>2 DEF Body
<1>2. CASE code \notin {404, 403}
  <2> DEFINE body == [p \in 1..n |-> Data(Start(asked[i]) + p)]
  <2>1. \A p \in 1..n : Data(Start(asked[i]) + p) \in Token
    BY Tokens
  <2>2. body \in [1..n -> Token]
    BY <2>1
  <2>3. body \in Seq(Token)
    <3>1. CASE n \in Nat
      BY <2>2, <3>1
    <3>2. CASE n \notin Nat
      <4>1. 1..n = 1..0
        BY <3>2
      <4> QED
        BY <2>2, <4>1
    <3> QED
      BY <3>1, <3>2
  <2> QED
    BY <1>2, <2>3 DEF Body
<1> QED
  BY <1>1, <1>2

\* Three outcomes of reading one token.
LEMMA Verdicts ==
  ASSUME TypeOK, Sequences, Receive
  PROVE  LET token == wire[1] IN
         /\ client' = Verdict(token) /\ client' \in {"open"} \cup Wrong
         /\ \/ client' # "open" /\ UNCHANGED <<pending, due>>
            \/ /\ client' = "open" /\ IsHead(token) /\ due = <<>> /\ pending # <<>>
               /\ token[2] = Head(pending) /\ pending' = Tail(pending)
               /\ due' = Body(token[2], token[3], token[4])
            \/ /\ client' = "open" /\ ~IsHead(token) /\ due # <<>> /\ token = Head(due)
               /\ pending' = pending /\ due' = Tail(due)
<1> DEFINE token == wire[1]
<1>1. Head(wire) = token
  BY ReceiveStep
<1>2. /\ client' = Verdict(token)
      /\ IF client' # "open" THEN UNCHANGED <<pending, due>>
         ELSE IF token[1] = "head"
         THEN pending' = Tail(pending) /\ due' = Body(token[2], token[3], token[4])
         ELSE due' = Tail(due) /\ UNCHANGED pending
  BY <1>1 DEF Receive
<1>3. client' \in {"open"} \cup Wrong
  BY <1>2 DEF Verdict, Wrong
<1>4. client' = "open" =>
        \/ IsHead(token) /\ due = <<>> /\ pending # <<>> /\ token[2] = Head(pending)
        \/ ~IsHead(token) /\ due # <<>> /\ token = Head(due)
  BY <1>2 DEF Verdict, IsHead
<1> HIDE DEF token
<1> QED
  BY <1>2, <1>3, <1>4 DEF IsHead, token

LEMMA ClientNext ==
  ASSUME TypeOK, Sequences, [Next]_vars
  PROVE  /\ asked' \in Seq(Requests) /\ Len(asked') <= MaxRequests
         /\ pending' \in Seq(Nat) /\ \A i \in 1..Len(pending') : pending'[i] \in 1..Len(asked')
         /\ due' \in Seq(Token)
         /\ client' \in {"open", "left"} \cup Wrong
<1> USE DEF clientVars, kernelVars, flagVars, pageVars
<1>1. /\ \A i \in 1..Len(asked) : asked[i] \in Requests
      /\ \A i \in 1..Len(pending) : pending[i] \in 1..Len(asked)
      /\ Len(asked) \in Nat /\ Len(pending) \in Nat /\ Len(asked) <= MaxRequests
      /\ client \in {"open", "left"} \cup Wrong
      /\ asked \in Seq(Requests) /\ pending \in Seq(Nat) /\ due \in Seq(Token)
  BY Numbers DEF TypeOK, Sequences
<1>2. CASE Ask
  <2>1. /\ asked' \in Seq(Requests) /\ Len(asked') = Len(asked) + 1
        /\ pending' \in Seq(Nat) /\ Len(pending') = Len(pending) + 1
        /\ pending'[Len(pending) + 1] = Len(asked) + 1
        /\ \A i \in 1..Len(pending) : pending'[i] = pending[i]
    BY <1>2, AskStep
  <2>2. Len(asked) < MaxRequests /\ MaxRequests \in Nat /\ UNCHANGED <<due, client>>
    BY <1>2, BoundsAssumption DEF Ask
  <2>5. \A i \in 1..Len(pending') : i \in 1..Len(pending) \/ i = Len(pending) + 1
    BY <1>1, <2>1
  <2>4. ASSUME NEW i \in 1..Len(pending')
        PROVE  pending'[i] \in 1..Len(asked')
    <3>1. CASE i \in 1..Len(pending)
      <4>1. pending'[i] = pending[i] /\ pending[i] \in 1..Len(asked)
        BY <1>1, <2>1, <3>1
      <4> QED
        BY <1>1, <2>1, <4>1
    <3>2. CASE i = Len(pending) + 1
      BY <1>1, <2>1, <3>2
    <3> QED
      BY <2>5, <3>1, <3>2
  <2> QED
    BY <1>1, <2>1, <2>2, <2>4
<1>3. CASE Receive
  <2>1. UNCHANGED asked
    BY <1>3 DEF Receive
  <2>2. wire[1] \in Token /\ client' \in {"open"} \cup Wrong
    BY <1>3, ReceiveStep, Verdicts
  <2>3. CASE UNCHANGED <<pending, due>>
    BY <1>1, <2>1, <2>2, <2>3
  <2>4. CASE /\ IsHead(wire[1]) /\ pending # <<>> /\ wire[1][2] = Head(pending)
             /\ pending' = Tail(pending) /\ due' = Body(wire[1][2], wire[1][3], wire[1][4])
    <3>1. /\ Head(pending) = pending[1] /\ pending' \in Seq(Nat)
          /\ Len(pending') = Len(pending) - 1 /\ Len(pending) >= 1
          /\ \A i \in 1..Len(pending') : pending'[i] = pending[i + 1]
      BY <1>1, <2>4, HeadTailProperties, EmptySeq
    <3>2. wire[1][2] \in 1..Len(asked) /\ wire[1][3] \in Nat /\ wire[1][4] \in Int
      BY <1>1, <2>2, <2>4, <3>1, Heads
    <3>3. Start(asked[wire[1][2]]) \in Nat
      BY <3>2, Numbers, Asked
    <3>4. due' \in Seq(Token)
      BY <2>4, <3>2, <3>3, BodyType, Zenon
    <3>6. \A i \in 1..Len(pending') : i + 1 \in 1..Len(pending)
      BY <1>1, <3>1
    <3>5. \A i \in 1..Len(pending') : pending'[i] \in 1..Len(asked)
      BY <1>1, <3>1, <3>6
    <3> QED
      BY <1>1, <2>1, <2>2, <3>1, <3>4, <3>5
  <2>5. CASE due # <<>> /\ pending' = pending /\ due' = Tail(due)
    <3>1. due' \in Seq(Token)
      BY <2>5, HeadTailProperties DEF Sequences
    <3> QED
      BY <1>1, <2>1, <2>2, <2>5, <3>1
  <2> QED
    BY <1>3, <2>3, <2>4, <2>5, Verdicts
<1>4. CASE UNCHANGED <<asked, pending, due>> /\ (client' = client \/ client' = "left")
  BY <1>1, <1>4
<1>5. CASE AskRest \/ SeesEnd \/ Leave \/ Replace \/ Ages \/ Expires \/ Server \/ UNCHANGED vars
  BY <1>4, <1>5 DEF AskRest, SeesEnd, Leave, Replace, Ages, vars, Server, EpollWait, Expires,
     Disconnect, Dispatch, Decide, Unknown, ReadRequest, ReadEnd, AnswerPage, AnswerFresh,
     AnswerError, AnswerSegment, AnswerFails, SendSome, SendYield, SendFails, SendDone
<1> QED
  BY <1>2, <1>3, <1>5 DEF Next, Client, Tick

LEMMA SegmentsNext ==
  ASSUME TypeOK, Sequences, Whole, [Next]_vars
  PROVE  rcv' \in Seq(Segments) /\ text' \in Seq(Segments)
<1> USE DEF clientVars, kernelVars, flagVars, pageVars
<1>1. /\ rcv \in Seq(Segments) /\ text \in Seq(Segments) /\ Len(asked) \in Nat
      /\ Len(asked) <= MaxRequests /\ MaxRequests \in Nat /\ <<>> \in Seq(Segments)
  BY Numbers, BoundsAssumption DEF TypeOK
<1>2. CASE Ask
  <2>1. Len(asked) < MaxRequests /\ UNCHANGED text
    BY <1>2 DEF Ask
  <2>2. \A kind \in {"whole", "front"} : <<kind, Len(asked) + 1>> \in Segments
    BY <1>1, <2>1 DEF Segments
  <2>3. \A x \in Segments : Append(rcv, x) \in Seq(Segments)
    BY <1>1
  <2> QED
    BY <1>1, <1>2, <2>1, <2>2, <2>3, AskStep
<1>3. CASE AskRest
  <2>1. rcv' = rcv \/ rcv' = Append(rcv, <<"rest", Len(asked)>>)
    BY <1>3, AskRestStep
  <2>2. Len(asked) >= 1
    BY <1>1, <1>3, EmptySeq DEF AskRest, Whole, Sequences
  <2>3. <<"rest", Len(asked)>> \in Segments
    BY <1>1, <2>2 DEF Segments
  <2>4. \A x \in Segments : Append(rcv, x) \in Seq(Segments)
    BY <1>1
  <2>5. text' = text
    BY <1>3 DEF AskRest
  <2> QED
    BY <1>1, <2>1, <2>3, <2>4, <2>5
<1>4. CASE Decide
  <2>1. text \o rcv \in Seq(Segments)
    BY <1>1, ConcatProperties
  <2> QED
    BY <1>1, <1>4, <2>1 DEF Decide
<1>5. CASE rcv' \in {rcv, <<>>} /\ text' \in {text, rcv, <<>>}
  BY <1>1, <1>5
<1>6. CASE Receive \/ SeesEnd \/ Leave \/ Replace \/ Ages \/ UNCHANGED vars
  BY <1>5, <1>6 DEF Receive, SeesEnd, Leave, Replace, Ages, vars
<1>7. CASE (Expires \/ Server) /\ ~Decide
  BY <1>5, <1>7 DEF Server, EpollWait, Expires, Disconnect,
     Dispatch, Unknown, ReadRequest, ReadEnd, AnswerPage, AnswerFresh, AnswerError,
     AnswerSegment, AnswerFails, SendSome, SendYield, SendFails, SendDone, Shut, Put
<1> QED
  BY <1>2, <1>3, <1>4, <1>6, <1>7 DEF Next, Client, Tick

LEMMA SegmentAnswer ==
  ASSUME TypeOK, Sequences, AnswerSegment
  PROVE  /\ wire' \in Seq(Token) /\ Len(wire') <= Window
         /\ text' = <<>> /\ UNCHANGED <<clientVars, rcv, edge, ev, job, off, now, replaced>>
         /\ server' = "stopped" \/ (server' = "wait" /\ task' = "read" /\ reading' /\ ~writing')
<1> USE DEF kernelVars, flagVars
<1>1. wire \in Seq(Token) /\ Len(wire) <= Window
  BY DEF TypeOK, Sequences
<1>2. CASE server' = "stopped" /\ UNCHANGED <<kernelVars, flagVars>>
  BY <1>1, <1>2 DEF AnswerSegment
<1>3. CASE NextRound /\ \E code \in {403, 404} : Put(<<Header(0, code, 1), Error(code)>>)
  <2>1. PICK code \in {403, 404} : Put(<<Header(0, code, 1), Error(code)>>)
    BY <1>3
  <2>2. Header(0, code, 1) \in Token /\ Error(code) \in Token
    BY Tokens
  <2>3. <<Header(0, code, 1), Error(code)>> \in Seq(Token)
    BY <2>2, TwoTokens
  <2>4. wire' \in Seq(Token) /\ Len(wire') <= Window /\ UNCHANGED <<rcv, edge, ev>>
    BY <2>1, <2>3, PutStep DEF Adds
  <2>5. text' = <<>> /\ UNCHANGED <<clientVars, job, off, now, replaced>>
    BY DEF AnswerSegment
  <2>6. server' = "wait" /\ task' = "read" /\ reading' = TRUE /\ writing' = FALSE
    BY <1>3 DEF NextRound
  <2> QED
    BY <2>4, <2>5, <2>6
<1> QED
  BY <1>2, <1>3 DEF AnswerSegment

\* The steps that leave the stream towards the client alone.
LEMMA WireUnchanged ==
  ASSUME \/ Ask \/ AskRest \/ SeesEnd \/ Leave \/ Replace \/ Ages \/ EpollWait \/ Dispatch
         \/ Decide \/ ReadRequest \/ AnswerFails \/ SendYield \/ UNCHANGED vars
         \/ (SendDone /\ ~job.close)
  PROVE  wire' = wire
  BY DEF Ask, AskRest, SeesEnd, Leave, Replace, Ages, EpollWait, Dispatch, Decide, ReadRequest,
     AnswerFails, SendYield, SendDone, vars, clientVars, kernelVars, flagVars, pageVars

LEMMA Shuts ==
  ASSUME Expires \/ Disconnect \/ Unknown \/ ReadEnd \/ SendFails \/ (SendDone /\ job.close)
  PROVE  Shut
  BY DEF Expires, Disconnect, Unknown, ReadEnd, SendFails, SendDone

LEMMA WireNext ==
  ASSUME TypeOK, Sequences, Whole, [Next]_vars
  PROVE  wire' \in Seq(Token) /\ Len(wire') <= Window
<1>1. wire \in Seq(Token) /\ Len(wire) <= Window /\ Window \in Nat /\ Len(wire) \in Nat
  BY BoundsAssumption, LenProperties DEF TypeOK, Sequences
<1>2. CASE wire' = wire
  BY <1>1, <1>2
<1>3. CASE Receive
  BY <1>1, <1>3, ReceiveStep
<1>4. CASE Shut
  <2>1. PICK n \in 0..Len(wire) : Leaves(n)
    BY <1>4, ShutStep
  <2> QED
    BY <2>1 DEF Leaves
<1>5. CASE AnswerPage \/ AnswerFresh \/ AnswerError
  <2>1. PICK x \in Seq(Token) : \E k \in 0..Len(x) : AnswersWith(x, k)
    BY <1>5, AnswerStep
  <2>2. PICK k \in 0..Len(x) : AnswersWith(x, k)
    BY <2>1
  <2> QED
    BY <2>2 DEF AnswersWith, Adds
<1>6. CASE AnswerSegment
  BY <1>6, SegmentAnswer
<1>7. CASE SendSome
  <2>1. PICK x \in Seq(Token), k \in Nat : SendsSome(x, k)
    BY <1>7, SendSomeStep
  <2> QED
    BY <2>1 DEF SendsSome, Adds
<1> QED
  BY <1>2, <1>3, <1>4, <1>5, <1>6, <1>7, WireUnchanged, Shuts DEF Next, Client, Tick, Server

LEMMA PageStep ==
  ASSUME TypeOK, Sequences, Whole, AnswerPage
  PROVE  /\ job' = Parsed /\ off' = Start(Parsed) /\ now' = Parsed.size /\ text' = <<>>
         /\ Paged(Parsed) /\ server = "answer" /\ HasRequest /\ server' = "send"
         /\ job' \in Request /\ off' \in Nat /\ now' \in Nat
         /\ UNCHANGED <<clientVars, flagVars, replaced>>
<1>1. /\ job' = Parsed /\ off' = Start(Parsed) /\ now' = Parsed.size /\ text' = <<>>
      /\ Paged(Parsed) /\ server = "answer" /\ HasRequest /\ server' = "send"
      /\ UNCHANGED <<clientVars, flagVars, replaced>>
  BY DEF AnswerPage, Paged
<1>2. Parsed \in Request
  BY <1>1, ParsedProperties
<1>3. Parsed.size \in Nat /\ Start(Parsed) \in Nat
  BY <1>2, Asked, Zenon
<1> QED
  BY <1>1, <1>2, <1>3

LEMMA JobNext ==
  ASSUME TypeOK, Sequences, Whole, [Next]_vars
  PROVE  job' \in Request /\ off' \in Nat /\ now' \in Nat
<1> USE DEF clientVars, kernelVars, flagVars, pageVars
<1>1. job \in Request /\ off \in Nat /\ now \in Nat /\ job.size \in Nat
  BY Asked DEF TypeOK
<1>2. CASE AnswerPage
  BY <1>2, PageStep
<1>3. CASE SendSome
  <2>1. PICK x \in Seq(Token), k \in Nat : SendsSome(x, k)
    BY <1>3, SendSomeStep
  <2> QED
    BY <1>1, <2>1, <1>3 DEF SendsSome, SendSome
<1>4. CASE Replace
  BY <1>1, <1>4 DEF Replace
<1>5. CASE UNCHANGED <<job, off, now>>
  BY <1>1, <1>5
<1>6. CASE Ask \/ AskRest \/ Receive \/ SeesEnd \/ Leave \/ Ages \/ UNCHANGED vars
  BY <1>5, <1>6 DEF Ask, AskRest, Receive, SeesEnd, Leave, Ages, vars
<1>7. CASE (Expires \/ Server) /\ ~AnswerPage /\ ~SendSome
  BY <1>5, <1>7 DEF Server, EpollWait, Expires, Disconnect, Dispatch, Decide, Unknown,
     ReadRequest, ReadEnd, AnswerFresh, AnswerError, AnswerSegment, AnswerFails, SendYield,
     SendFails, SendDone
<1> QED
  BY <1>2, <1>3, <1>4, <1>6, <1>7 DEF Next, Client, Tick

LEMMA ServerNext ==
  ASSUME TypeOK, Sequences, Resuming, [Next]_vars
  PROVE  /\ ev' \subseteq {"IN", "OUT", "HUP"}
         /\ server' \in {"wait", "dispatch", "decide", "read", "answer", "send", "closed", "stopped"}
         /\ task' \in {"none", "read", "send", "done"}
<1> USE DEF clientVars, kernelVars, flagVars, pageVars
<1>1. /\ ev \subseteq {"IN", "OUT", "HUP"}
      /\ server \in {"wait", "dispatch", "decide", "read", "answer", "send", "closed", "stopped"}
      /\ task \in {"none", "read", "send", "done"}
  BY DEF TypeOK
<1>2. CASE UNCHANGED <<ev, server, task>>
  BY <1>1, <1>2
<1>3. CASE Ask \/ AskRest \/ Receive \/ SeesEnd \/ Leave \/ Replace \/ Ages \/ UNCHANGED vars
  BY <1>2, <1>3 DEF Ask, AskRest, Receive, SeesEnd, Leave, Replace, Ages, vars
<1>4. CASE EpollWait
  BY <1>1, <1>4 DEF EpollWait, Mask
<1>5. CASE Dispatch
  BY <1>1, <1>5 DEF Dispatch, Resuming
<1>6. CASE (Expires \/ Server) /\ ~EpollWait /\ ~Dispatch
  BY <1>1, <1>6 DEF Server, Expires, Disconnect, Decide, Unknown, ReadRequest, ReadEnd,
     AnswerPage, AnswerFresh, AnswerError, AnswerSegment, AnswerFails, SendSome, SendYield,
     SendFails, SendDone, Shut, Put, NextRound
<1> QED
  BY <1>3, <1>4, <1>5, <1>6 DEF Next, Client, Tick

LEMMA TypeNext ==
  ASSUME TypeOK, Sequences, Resuming, Whole, [Next]_vars
  PROVE  TypeOK' /\ Sequences'
<1>1. Sequences'
  BY ClientNext, WireNext DEF Sequences
<1>2. DOMAIN asked' = 1..Len(asked') /\ DOMAIN pending' = 1..Len(pending')
  BY <1>1, LenProperties DEF Sequences
<1>3. \A i \in DOMAIN asked' : asked'[i] \in Requests
  BY <1>1, <1>2, ElementOfSeq DEF Sequences
<1>4. TypeOK'
  BY <1>2, <1>3, BooleansNext, ClientNext, SegmentsNext, WireNext, JobNext, ServerNext
     DEF TypeOK
<1> QED
  BY <1>1, <1>4

------------------------------------------------------------------------------
(* Which coroutine an event resumes. *)

LEMMA ClientLeaves ==
  ASSUME TypeOK, Sequences, [Next]_vars
  PROVE  Left => Left' /\ UNCHANGED asked
<1> USE DEF clientVars, kernelVars, flagVars, pageVars, Left
<1>1. CASE Ask \/ AskRest \/ Receive \/ SeesEnd \/ Leave \/ Replace \/ Ages
  BY <1>1 DEF Ask, AskRest, Receive, SeesEnd, Leave, Replace, Ages
<1>2. CASE Expires \/ Server \/ UNCHANGED vars
  BY <1>2 DEF vars, Server, EpollWait, Expires, Disconnect, Dispatch, Decide, Unknown,
     ReadRequest, ReadEnd, AnswerPage, AnswerFresh, AnswerError, AnswerSegment, AnswerFails,
     SendSome, SendYield, SendFails, SendDone
<1> QED
  BY <1>1, <1>2 DEF Next, Client, Tick

LEMMA Arrives ==
  ASSUME TypeOK, Sequences, Ask \/ AskRest
  PROVE  rcv # <<>> => rcv' # <<>>
<1>1. \A s \in Seq(Segments) : \A x \in {"whole", "front", "rest"} \X Nat : Append(s, x) # <<>>
  OBVIOUS
<1>2. rcv \in Seq(Segments) /\ Len(asked) \in Nat /\ Len(asked) + 1 \in Nat
  BY Numbers DEF TypeOK
<1>3. CASE Ask
  BY <1>1, <1>2, <1>3, AskStep
<1>4. CASE AskRest
  BY <1>1, <1>2, <1>4, AskRestStep
<1> QED
  BY <1>3, <1>4

LEMMA ResumingNext ==
  ASSUME TypeOK, Sequences, Resuming, Whole, [Next]_vars
  PROVE  Resuming'
<1> USE DEF clientVars, kernelVars, flagVars, pageVars
<1>1. Left => Left'
  BY ClientLeaves
<1>2. CASE Ask \/ AskRest
  <2>1. UNCHANGED <<server, task, reading, writing, ev, text, client>>
    BY <1>2 DEF Ask, AskRest
  <2> QED
    BY <1>1, <1>2, <2>1, Arrives DEF Resuming, Left
<1>3. CASE UNCHANGED <<server, task, reading, writing, ev, text, rcv>>
  BY <1>1, <1>3 DEF Resuming
<1>4. CASE Receive \/ SeesEnd \/ Leave \/ Replace \/ Ages \/ UNCHANGED vars
  BY <1>3, <1>4 DEF Receive, SeesEnd, Leave, Replace, Ages, vars
<1>5. CASE EpollWait
  <2>1. /\ server = "wait" /\ server' = "dispatch" /\ ev' = Mask
        /\ UNCHANGED <<client, task, reading, writing, rcv, text>>
    BY <1>5 DEF EpollWait
  <2> QED
    BY <2>1 DEF Resuming, Left, Mask
<1>6. CASE Dispatch
  <2>1. /\ server = "dispatch" /\ "HUP" \notin ev
        /\ server' = IF "IN" \in ev THEN (IF reading THEN task ELSE "decide")
                     ELSE IF writing THEN task ELSE "wait"
        /\ UNCHANGED <<client, task, reading, writing, ev, rcv, text>>
    BY <1>6 DEF Dispatch
  <2>2. /\ server' \in {"decide", "read"} => "IN" \in ev
        /\ server' \in {"decide", "read", "send", "wait"}
    BY <2>1 DEF Resuming
  <2> QED
    BY <2>1, <2>2 DEF Resuming, Left
<1>7. CASE Expires \/ Disconnect \/ Unknown \/ ReadEnd \/ SendFails \/ (SendDone /\ job.close)
  <2>1. server' = "closed" /\ UNCHANGED <<ev, client>>
    BY <1>7 DEF Expires, Disconnect, Unknown, ReadEnd, SendFails, SendDone, Shut
  <2>2. task' = "read" => task = "read" /\ writing' = writing
    BY <1>7 DEF Expires, Disconnect, Unknown, ReadEnd, SendFails, SendDone, Shut
  <2> QED
    BY <2>1, <2>2 DEF Resuming, Left
<1>8. CASE Decide
  <2>1. /\ server' = "answer" /\ task' = "none" /\ rcv # <<>> /\ text' = text \o rcv
        /\ UNCHANGED <<client, ev>>
    BY <1>8 DEF Decide
  <2>2. text' # <<>>
    BY <2>1 DEF TypeOK
  <2> QED
    BY <2>1, <2>2 DEF Resuming, Left
<1>9. CASE ReadRequest
  <2>1. /\ server = "read" /\ server' = "answer" /\ text' # <<>>
        /\ UNCHANGED <<client, ev, task, reading, writing>>
    BY <1>9 DEF ReadRequest, Resuming
  <2> QED
    BY <2>1 DEF Resuming, Left
<1>10. CASE AnswerPage \/ SendSome
  <2>1. server' = "send" /\ UNCHANGED <<client, ev, task, reading, writing>>
    BY <1>10 DEF AnswerPage, SendSome, Put
  <2> QED
    BY <2>1 DEF Resuming, Left
<1>11. CASE AnswerFresh \/ AnswerError \/ (SendDone /\ ~job.close)
  <2>1. server' = "wait" /\ task' = "read" /\ writing' = FALSE /\ UNCHANGED <<client, ev>>
    BY <1>11 DEF AnswerFresh, AnswerError, SendDone, NextRound, Put
  <2> QED
    BY <2>1 DEF Resuming, Left
<1>12. CASE AnswerSegment
  <2>1. /\ server' = "stopped" \/ (server' = "wait" /\ task' = "read" /\ reading' /\ ~writing')
        /\ UNCHANGED <<client, ev>>
    BY <1>12, SegmentAnswer
  <2>2. task' = "read" => ~writing'
    BY <1>12 DEF AnswerSegment, Resuming, NextRound
  <2> QED
    BY <2>1, <2>2 DEF Resuming, Left
<1>13. CASE AnswerFails
  <2>1. /\ Left /\ server' = "wait" /\ task' = "done" /\ UNCHANGED <<client, ev>>
    BY <1>13 DEF AnswerFails
  <2> QED
    BY <2>1 DEF Resuming, Left
<1>14. CASE SendYield
  <2>1. server' = "wait" /\ task' = "send" /\ UNCHANGED <<client, ev>>
    BY <1>14 DEF SendYield
  <2> QED
    BY <2>1 DEF Resuming, Left
<1> QED
  BY <1>2, <1>4, <1>5, <1>6, <1>7, <1>8, <1>9, <1>10, <1>11, <1>12, <1>13, <1>14
     DEF Next, Client, Tick, Server

------------------------------------------------------------------------------
(* Segments and their requests. *)

LEMMA WholeNext ==
  ASSUME TypeOK, Sequences, Whole, [Next]_vars
  PROVE  Whole'
<1> USE DEF clientVars, kernelVars, flagVars, pageVars
<1>1. /\ Len(asked) \in Nat /\ rcv \in Seq(Segments) /\ text \in Seq(Segments)
      /\ Len(rcv) \in Nat /\ Len(text) \in Nat /\ Len(<<>>) = 0
  BY Numbers DEF TypeOK
<1>2. CASE Ask
  <2>1. PICK kind \in {"whole", "front"} :
              rcv' = Append(rcv, <<kind, Len(asked) + 1>>) /\ (kind = "front" => split')
    BY <1>2, AskStep
  <2> DEFINE x == <<kind, Len(asked) + 1>>
  <2>2. Len(asked') = Len(asked) + 1 /\ (split => split') /\ (rest' => split') /\ text' = text
    BY <1>2, AskStep DEF Ask
  <2>3. x[1] = kind /\ x[2] = Len(asked) + 1
    OBVIOUS
  <2> HIDE DEF x
  <2>4. /\ Len(rcv') = Len(rcv) + 1 /\ rcv'[Len(rcv) + 1] = x
        /\ \A i \in 1..Len(rcv) : rcv'[i] = rcv[i]
    BY <1>1, <2>1, AppendProperties DEF x
  <2>5. Segmented(rcv)'
    BY <1>1, <2>1, <2>2, <2>3, <2>4 DEF Whole, Segmented
  <2>6. Segmented(text)'
    BY <1>1, <2>2 DEF Whole, Segmented
  <2>7. asked' # <<>>
    BY <1>1, <2>2
  <2> QED
    BY <2>2, <2>5, <2>6, <2>7 DEF Whole
<1>3. CASE AskRest
  <2>1. /\ rcv' = rcv \/ rcv' = Append(rcv, <<"rest", Len(asked)>>)
        /\ rest /\ rest' = FALSE /\ UNCHANGED <<asked, split, text>>
    BY <1>3, AskRestStep DEF AskRest
  <2>2. split /\ Len(asked) >= 1
    BY <1>1, <2>1, EmptySeq DEF Whole, Sequences
  <2> DEFINE x == <<"rest", Len(asked)>>
  <2>3. x[2] = Len(asked)
    OBVIOUS
  <2> HIDE DEF x
  <2>4. Segmented(rcv)'
    <3>1. CASE rcv' = rcv
      BY <2>1, <3>1 DEF Whole, Segmented
    <3>2. CASE rcv' = Append(rcv, x)
      <4>1. /\ Len(rcv') = Len(rcv) + 1 /\ rcv'[Len(rcv) + 1] = x
            /\ \A i \in 1..Len(rcv) : rcv'[i] = rcv[i]
        BY <1>1, <3>2, AppendProperties DEF x
      <4> QED
        BY <1>1, <2>1, <2>2, <2>3, <4>1 DEF Whole, Segmented
    <3> QED
      BY <2>1, <3>1, <3>2 DEF x
  <2> QED
    BY <2>1, <2>4 DEF Whole, Segmented
<1>4. CASE Decide
  <2>1. rcv' = <<>> /\ text' = text \o rcv /\ UNCHANGED <<asked, split, rest>>
    BY <1>4 DEF Decide
  <2>2. /\ Len(text') = Len(text) + Len(rcv)
        /\ \A i \in 1..Len(text') : text'[i] = IF i <= Len(text) THEN text[i] ELSE rcv[i - Len(text)]
    BY <1>1, <2>1, ConcatProperties
  <2>3. Segmented(text)'
    BY <1>1, <2>1, <2>2 DEF Whole, Segmented
  <2> QED
    BY <1>1, <2>1, <2>3 DEF Whole, Segmented
<1>5. CASE rcv' \in {rcv, <<>>} /\ text' \in {text, rcv, <<>>} /\ UNCHANGED <<asked, split, rest>>
  BY <1>1, <1>5 DEF Whole, Segmented
<1>6. CASE Receive \/ SeesEnd \/ Leave \/ Replace \/ Ages \/ UNCHANGED vars
  BY <1>5, <1>6 DEF Receive, SeesEnd, Leave, Replace, Ages, vars
<1>7. CASE (Expires \/ Server) /\ ~Decide
  BY <1>5, <1>7 DEF Server, EpollWait, Expires, Disconnect,
     Dispatch, Unknown, ReadRequest, ReadEnd, AnswerPage, AnswerFresh, AnswerError,
     AnswerSegment, AnswerFails, SendSome, SendYield, SendFails, SendDone, Shut, Put
<1> QED
  BY <1>2, <1>3, <1>4, <1>6, <1>7 DEF Next, Client, Tick

------------------------------------------------------------------------------
(* The page that is sent, and the reasons to close. *)

LEMMA PagingNext ==
  ASSUME TypeOK, Sequences, Whole, Paging, [Next]_vars
  PROVE  Paging'
<1> USE DEF clientVars, kernelVars, flagVars, pageVars
<1>1. CASE AnswerPage
  <2>1. /\ job' = Parsed /\ off' = Start(Parsed) /\ now' = Parsed.size /\ Paged(Parsed)
        /\ HasRequest
    BY <1>1, PageStep
  <2> DEFINE r == Parsed
  <2>2. r \in Request
    BY <2>1, ParsedProperties
  <2> HIDE DEF r
  <2>3. r.size \in Nat /\ r.first \in Nat
    BY <2>2, Asked
  <2>4. job' = r /\ off' = Start(r) /\ now' = r.size
    BY <2>1 DEF r
  <2> QED
    BY <2>3, <2>4 DEF Paging, Start
<1>2. CASE SendSome
  <2>1. PICK x \in Seq(Token), k \in Nat : SendsSome(x, k)
    BY <1>2, SendSomeStep
  <2>2. /\ off' = off + k /\ k <= now - off /\ off \in Nat /\ now \in Nat
        /\ UNCHANGED <<job, now, replaced>>
    BY <1>2, <2>1 DEF SendsSome, SendSome, TypeOK
  <2> QED
    BY <2>2 DEF Paging
<1>3. CASE Replace
  BY <1>3 DEF Replace, Paging
<1>4. CASE UNCHANGED <<job, off, now, replaced>>
  BY <1>4 DEF Paging
<1>5. CASE Ask \/ AskRest \/ Receive \/ SeesEnd \/ Leave \/ Ages \/ UNCHANGED vars
  BY <1>4, <1>5 DEF Ask, AskRest, Receive, SeesEnd, Leave, Ages, vars
<1>6. CASE (Expires \/ Server) /\ ~AnswerPage /\ ~SendSome
  BY <1>4, <1>6 DEF Server, EpollWait, Expires, Disconnect, Dispatch, Decide, Unknown,
     ReadRequest, ReadEnd, AnswerFresh, AnswerError, AnswerSegment, AnswerFails, SendYield,
     SendFails, SendDone
<1> QED
  BY <1>1, <1>2, <1>3, <1>5, <1>6 DEF Next, Client, Tick

\* What a client has asked it has asked for good.
LEMMA StaysAsked ==
  ASSUME TypeOK, Sequences, [Next]_vars
  PROVE  /\ Len(asked) \in Nat /\ Len(asked') \in Nat /\ Len(asked) <= Len(asked')
         /\ \A i \in 1..Len(asked) : asked'[i] = asked[i]
         /\ (split => split') /\ (pipelined => pipelined') /\ (replaced => replaced')
<1> USE DEF clientVars, kernelVars, flagVars, pageVars
<1>1. Len(asked) \in Nat
  BY Numbers
<1>2. CASE Ask
  <2>1. Len(asked') = Len(asked) + 1 /\ \A i \in 1..Len(asked) : asked'[i] = asked[i]
    BY <1>2, AskStep
  <2>2. (split' = split \/ split' = TRUE) /\ replaced' = replaced
    BY <1>2 DEF Ask
  <2>3. pipelined' = (pipelined \/ pending # <<>> \/ due # <<>>)
    BY <1>2 DEF Ask
  <2>5. CASE pipelined
    <3>1. pipelined'
      BY <2>3, <2>5
    <3> QED
      BY <1>1, <2>1, <2>2, <3>1
  <2>4. CASE ~pipelined
    BY <1>1, <2>1, <2>2, <2>4
  <2> QED
    BY <2>4, <2>5
<1>3. CASE asked' = asked /\ split' = split /\ pipelined' = pipelined
           /\ (replaced' = replaced \/ replaced' = TRUE)
  BY <1>1, <1>3
<1>4. CASE Client \/ Leave \/ Replace \/ Tick \/ Server \/ UNCHANGED vars
  BY <1>3, <1>4 DEF Client, AskRest, Receive, SeesEnd, Leave, Replace, Tick, Ages, vars, Server,
     EpollWait, Expires, Disconnect, Dispatch, Decide, Unknown, ReadRequest, ReadEnd,
     AnswerPage, AnswerFresh, AnswerError, AnswerSegment, AnswerFails, SendSome, SendYield,
     SendFails, SendDone
<1> QED
  BY <1>2, <1>4 DEF Next, Tick

LEMMA AsksStays ==
  ASSUME TypeOK, Sequences, [Next]_vars, Asks
  PROVE  Asks'
<1>1. DOMAIN asked = 1..Len(asked) /\ DOMAIN asked' = 1..Len(asked')
  BY ClientNext, LenProperties DEF Sequences
<1>2. PICK i \in 1..Len(asked) : asked[i].close \/ Length(asked[i]) < 0
  BY <1>1 DEF Asks
<1>3. i \in 1..Len(asked') /\ asked'[i] = asked[i]
  BY StaysAsked
<1> QED
  BY <1>1, <1>2, <1>3 DEF Asks

LEMMA JobAsked ==
  ASSUME TypeOK, Sequences, Whole, Caused, [Next]_vars
  PROVE  (job.close \/ Length(job) < 0 => Asks)'
<1> USE DEF clientVars, kernelVars, flagVars, pageVars
<1>1. CASE AnswerPage
  <2>1. job' = Parsed /\ HasRequest /\ asked' = asked /\ Paged(Parsed)
    BY <1>1, PageStep
  <2> DEFINE r == Parsed
             i == text[1][2]
  <2>2. /\ r \in Request /\ i \in 1..Len(asked)
        /\ r = asked[i] \/ (r.kind \in {"page", "missing", "refused"} /\ ~r.close)
    BY <2>1, ParsedProperties
  <2>3. job' = r /\ Paged(r)
    BY <2>1
  <2> HIDE DEF r, i
  <2>4. CASE r = asked[i]
    <3>1. i \in DOMAIN asked
      BY <2>2, Numbers
    <3> QED
      BY <2>1, <2>3, <2>4, <3>1 DEF Asks
  <2>5. CASE r.kind \in {"page", "missing", "refused"} /\ ~r.close
    <3>1. Length(r) = r.size /\ r.size \in Nat
      BY <2>2, <2>5, Asked DEF Length
    <3>2. ~(r.close \/ Length(r) < 0)
      BY <2>5, <3>1
    <3> QED
      BY <2>3, <3>2
  <2> QED
    BY <2>2, <2>4, <2>5
<1>2. CASE job' = job
  <2>1. Length(job') = Length(job)
    BY <1>2
  <2> QED
    BY <1>2, <2>1, AsksStays DEF Caused
<1>3. CASE Ask \/ Client \/ Leave \/ Replace \/ Ages \/ UNCHANGED vars
  BY <1>2, <1>3 DEF Client, Ask, AskRest, Receive, SeesEnd, Leave, Replace, Ages, vars
<1>4. CASE (Expires \/ Server) /\ ~AnswerPage
  BY <1>2, <1>4 DEF Server, EpollWait, Expires, Disconnect, Dispatch, Decide, Unknown,
     ReadRequest, ReadEnd, AnswerFresh, AnswerError, AnswerSegment, AnswerFails, SendSome,
     SendYield, SendFails, SendDone
<1> QED
  BY <1>1, <1>3, <1>4 DEF Next, Tick

LEMMA CloseForCause ==
  ClosedForCause <=> (server = "closed" /\ client = "open" => split \/ aged \/ Asks)
  BY DEF ClosedForCause, Asks

LEMMA NoRequestThere ==
  ASSUME TypeOK, Sequences, Whole, rcv # <<>>, Head(text \o rcv)[1] = "rest"
  PROVE  split
<1>1. /\ rcv \in Seq(Segments) /\ text \in Seq(Segments) /\ Len(text) \in Nat /\ Len(rcv) \in Nat
      /\ Len(rcv) >= 1
  BY Numbers, EmptySeq DEF TypeOK
<1> DEFINE q == text \o rcv
<1>2. /\ q \in Seq(Segments) /\ Len(q) = Len(text) + Len(rcv)
      /\ \A i \in 1..Len(q) : q[i] = IF i <= Len(text) THEN text[i] ELSE rcv[i - Len(text)]
  BY <1>1, ConcatProperties
<1>3. q[1][1] = "rest" /\ 1 \in 1..Len(q)
  BY <1>1, <1>2
<1> HIDE DEF q
<1>4. \/ q[1] = text[1] /\ 1 \in 1..Len(text)
      \/ q[1] = rcv[1] /\ 1 \in 1..Len(rcv)
  BY <1>1, <1>2, <1>3
<1> QED
  BY <1>3, <1>4 DEF Whole, Segmented

\* Only an event makes an entry young again.
LEMMA AgedStays ==
  ASSUME TypeOK, [Next]_vars, server # "dispatch"
  PROVE  aged => aged'
  BY DEF Next, Ask, Client, AskRest, Receive, SeesEnd, Leave, Replace, Tick, Ages, Expires, vars,
     Server, EpollWait, Disconnect, Dispatch, Decide, Unknown, ReadRequest, ReadEnd, AnswerPage,
     AnswerFresh, AnswerError, AnswerSegment, AnswerFails, SendSome, SendYield, SendFails, SendDone

LEMMA CausedNext ==
  ASSUME TypeOK, Sequences, Resuming, Whole, Caused, [Next]_vars
  PROVE  Caused'
<1> USE DEF clientVars, kernelVars, flagVars, pageVars
<1>1. (job.close \/ Length(job) < 0 => Asks)'
  BY JobAsked
<1>2. (server = "closed" /\ client = "open" => split \/ aged \/ Asks)'
  <2> SUFFICES ASSUME server' = "closed", client' = "open"
               PROVE  split' \/ aged' \/ Asks'
    OBVIOUS
  <2>1. client = "open"
    BY ClientLeaves DEF Left
  <2>2. CASE server = "closed"
    <3>1. split \/ aged \/ Asks
      BY <2>1, <2>2, CloseForCause DEF Caused
    <3>2. aged => aged'
      BY <2>2, AgedStays
    <3> QED
      BY <3>1, <3>2, StaysAsked, AsksStays
  <2>3. CASE split \/ Asks
    BY <2>3, StaysAsked, AsksStays
  <2>4. CASE Disconnect
    BY <2>1, <2>4 DEF Disconnect, Resuming, Left
  <2>5. CASE Unknown
    BY <2>1, <2>3, <2>5, NoRequestThere DEF Unknown, Resuming, Left
  <2>6. CASE ReadEnd
    BY <2>1, <2>6 DEF ReadEnd, Left
  <2>7. CASE SendFails
    BY <2>1, <2>3, <2>7 DEF SendFails, Left, Caused
  <2>8. CASE SendDone /\ job.close
    BY <2>3, <2>8 DEF Caused
  <2>9. CASE Ask \/ Client \/ Leave \/ Replace \/ Ages \/ UNCHANGED vars
    BY <2>2, <2>9 DEF Client, Ask, AskRest, Receive, SeesEnd, Leave, Replace, Ages, vars
  <2>10. CASE Dispatch
    <3>1. server' \in {"read", "send", "decide", "wait"}
      BY <2>10 DEF Dispatch, Resuming
    <3> QED
      BY <3>1
  <2>11. CASE \/ EpollWait \/ Decide \/ ReadRequest \/ AnswerPage \/ AnswerFresh \/ AnswerError
              \/ AnswerSegment \/ AnswerFails \/ SendSome \/ SendYield
              \/ (SendDone /\ ~job.close)
    <3>1. server' # "closed"
      BY <2>11 DEF EpollWait, Decide, ReadRequest, AnswerPage, AnswerFresh,
       AnswerError, AnswerSegment, AnswerFails, SendSome, SendYield, SendDone, NextRound
    <3> QED
      BY <3>1
  <2>12. CASE Expires
    BY <2>12 DEF Expires
  <2> QED
    BY <2>2, <2>4, <2>5, <2>6, <2>7, <2>8, <2>9, <2>10, <2>11, <2>12 DEF Next, Tick, Server
<1>3. ClosedForCause'
  BY <1>2 DEF ClosedForCause, Asks
<1> QED
  BY <1>1, <1>3 DEF Caused

------------------------------------------------------------------------------
(* Unanswered requests. *)

LEMMA ParsableBefore ==
  ASSUME TypeOK, Sequences, Parsable', [Next]_vars
  PROVE  Parsable /\ ~split
<1>1. /\ DOMAIN asked = 1..Len(asked) /\ DOMAIN asked' = 1..Len(asked')
      /\ asked' \in Seq(Requests)
  BY ClientNext, LenProperties DEF Sequences
<1>2. ~split
  BY StaysAsked DEF Parsable
<1>3. \A i \in 1..Len(asked) : asked[i].kind # "bare"
  <2> SUFFICES ASSUME NEW i \in 1..Len(asked)
               PROVE  asked[i].kind # "bare"
    OBVIOUS
  <2>1. i \in 1..Len(asked') /\ asked'[i] = asked[i]
    BY StaysAsked
  <2> QED
    BY <1>1, <2>1 DEF Parsable
<1> QED
  BY <1>1, <1>2, <1>3 DEF Parsable

\* A step that moves the headers on the wire by n places, drops or appends
\* what is none, and lets the requests be or moves them to the coroutine.
LEMMA StillNumbered ==
  ASSUME TypeOK, Sequences, Numbered, UNCHANGED <<asked, pending>>, NEW n \in Int,
         \A i \in 1..Len(wire') :
            IsHead(wire'[i]) => i + n \in 1..Len(wire) /\ wire'[i] = wire[i + n],
         \/ text' = text /\ rcv' \in {rcv, <<>>}
         \/ text' = <<>> /\ rcv' = rcv
         \/ text = <<>> /\ text' = rcv /\ rcv' = <<>>
  PROVE  Numbered'
<1>1. HeadersRead' = HeadersRead /\ Len(asked') = Len(asked) /\ Len(<<>>) = 0
  BY DEF HeadersRead
<1>2. \A j \in 1..Len(pending') : pending'[j] = HeadersRead + j
  BY DEF Numbered
<1>3. \A i \in 1..Len(wire') :
        IsHead(wire'[i]) => wire'[i][2] \in (HeadersRead + 1)..Len(asked)
  BY DEF Numbered, Between
<1>4. /\ \A i \in 1..Len(text') : text'[i][2] \in (HeadersRead + 1)..Len(asked)
      /\ \A i \in 1..Len(rcv') : rcv'[i][2] \in (HeadersRead + 1)..Len(asked)
  BY <1>1 DEF Numbered, Between
<1>5. ASSUME NEW i \in 1..Len(wire'), NEW j \in 1..Len(wire'),
             i < j, IsHead(wire'[i]), IsHead(wire'[j])
      PROVE  wire'[i][2] < wire'[j][2]
  <2>1. /\ i + n \in 1..Len(wire) /\ wire'[i] = wire[i + n]
        /\ j + n \in 1..Len(wire) /\ wire'[j] = wire[j + n]
        /\ i + n < j + n
    BY <1>5
  <2> QED
    BY <1>5, <2>1 DEF Numbered
<1>6. /\ \A i, j \in 1..Len(text') : i < j => text'[i][2] < text'[j][2]
      /\ \A i, j \in 1..Len(rcv') : i < j => rcv'[i][2] < rcv'[j][2]
      /\ \A i \in 1..Len(text'), j \in 1..Len(rcv') : text'[i][2] < rcv'[j][2]
  BY <1>1 DEF Numbered
<1>7. ASSUME NEW i \in 1..Len(wire'), IsHead(wire'[i])
      PROVE  /\ \A j \in 1..Len(text') : wire'[i][2] < text'[j][2]
             /\ \A j \in 1..Len(rcv') : wire'[i][2] < rcv'[j][2]
  <2>1. i + n \in 1..Len(wire) /\ wire'[i] = wire[i + n] /\ IsHead(wire[i + n])
    BY <1>7
  <2>2. /\ \A j \in 1..Len(text) : wire'[i][2] < text[j][2]
        /\ \A j \in 1..Len(rcv) : wire'[i][2] < rcv[j][2]
    BY <2>1 DEF Numbered
  <2> QED
    BY <1>1, <2>2
<1> QED
  BY <1>1, <1>2, <1>3, <1>4, <1>5, <1>6, <1>7 DEF Numbered, Between

LEMMA NumberedAsk ==
  ASSUME TypeOK, Sequences, Numbered, Ask
  PROVE  Numbered'
<1>1. /\ Len(asked') = Len(asked) + 1 /\ Len(pending') = Len(pending) + 1
      /\ pending'[Len(pending) + 1] = Len(asked) + 1
      /\ \A i \in 1..Len(pending) : pending'[i] = pending[i]
  BY AskStep
<1>2. PICK kind \in {"whole", "front"} : rcv' = Append(rcv, <<kind, Len(asked) + 1>>)
  BY AskStep
<1>3. /\ Len(rcv') = Len(rcv) + 1 /\ rcv'[Len(rcv) + 1][2] = Len(asked) + 1
      /\ \A i \in 1..Len(rcv) : rcv'[i] = rcv[i]
  <2> DEFINE x == <<kind, Len(asked) + 1>>
  <2>1. x[2] = Len(asked) + 1
    OBVIOUS
  <2>2. rcv \in Seq(Segments)
    BY DEF TypeOK
  <2> HIDE DEF x
  <2>3. /\ Len(Append(rcv, x)) = Len(rcv) + 1 /\ Append(rcv, x)[Len(rcv) + 1] = x
        /\ \A i \in 1..Len(rcv) : Append(rcv, x)[i] = rcv[i]
    BY <2>2, AppendProperties
  <2> QED
    BY <1>2, <2>1, <2>3 DEF x
<1>4. UNCHANGED <<wire, text>>
  BY DEF Ask, pageVars
<1>5. /\ Len(asked) \in Nat /\ Len(pending) \in Nat /\ Len(rcv) \in Nat
      /\ Len(wire) \in Nat /\ Len(text) \in Nat
  BY Numbers
<1>6. HeadersRead' = HeadersRead /\ HeadersRead \in Int
  BY <1>1, <1>5 DEF HeadersRead
<1>7. \A j \in 1..Len(pending') : pending'[j] = HeadersRead + j
  <2>1. \A j \in 1..Len(pending') : j \in 1..Len(pending) \/ j = Len(pending) + 1
    BY <1>1, <1>5
  <2> QED
    BY <1>1, <1>5, <2>1 DEF Numbered, HeadersRead
<1>8. \A i : Between(i) => i \in (HeadersRead' + 1)..Len(asked') /\ i < Len(asked) + 1
  BY <1>1, <1>5, <1>6 DEF Between
<1>9. HeadersRead <= Len(asked) /\ Len(asked) + 1 \in (HeadersRead' + 1)..Len(asked')
  BY <1>1, <1>5, <1>6 DEF HeadersRead
<1>10. \A i \in 1..Len(rcv') : (i \in 1..Len(rcv) /\ rcv'[i] = rcv[i])
                               \/ (i = Len(rcv) + 1 /\ rcv'[i][2] = Len(asked) + 1)
  BY <1>3, <1>5
<1>11. ASSUME NEW j \in 1..Len(rcv')
      PROVE  /\ rcv'[j][2] \in (HeadersRead' + 1)..Len(asked')
             /\ \A i \in 1..Len(rcv) : i < j => rcv[i][2] < rcv'[j][2]
             /\ \A i \in 1..Len(text) : text[i][2] < rcv'[j][2]
             /\ \A i \in 1..Len(wire) : IsHead(wire[i]) => wire[i][2] < rcv'[j][2]
  <2>1. CASE j \in 1..Len(rcv) /\ rcv'[j] = rcv[j]
    BY <1>8, <2>1 DEF Numbered
  <2>2. CASE j = Len(rcv) + 1 /\ rcv'[j][2] = Len(asked) + 1
    BY <1>8, <1>9, <2>2 DEF Numbered
  <2> QED
    BY <1>10, <2>1, <2>2
<1>12. \A i, j \in 1..Len(rcv') : i < j => rcv'[i][2] < rcv'[j][2]
  <2> SUFFICES ASSUME NEW i \in 1..Len(rcv'), NEW j \in 1..Len(rcv'), i < j
               PROVE  rcv'[i][2] < rcv'[j][2]
    OBVIOUS
  <2>1. i \in 1..Len(rcv) /\ rcv'[i] = rcv[i]
    BY <1>3, <1>5
  <2> QED
    BY <1>11, <2>1
<1>13. /\ \A i \in 1..Len(wire') : IsHead(wire'[i]) => wire'[i][2] \in (HeadersRead' + 1)..Len(asked')
       /\ \A i \in 1..Len(text') : text'[i][2] \in (HeadersRead' + 1)..Len(asked')
  BY <1>4, <1>8 DEF Numbered
<1> QED
  BY <1>4, <1>6, <1>7, <1>11, <1>12, <1>13 DEF Numbered, Between

LEMMA NumberedReceive ==
  ASSUME TypeOK, Sequences, Numbered, Receive, client' = "open"
  PROVE  Numbered'
<1>1. /\ Len(wire) >= 1 /\ Len(wire') = Len(wire) - 1 /\ wire[1] \in Token
      /\ \A i \in 1..Len(wire') : wire'[i] = wire[1 + i]
  BY ReceiveStep
<1>2. UNCHANGED <<asked, rcv, text>>
  BY DEF Receive, pageVars
<1>3. /\ Len(asked) \in Nat /\ Len(pending) \in Nat /\ Len(rcv) \in Nat
      /\ Len(wire) \in Nat /\ Len(text) \in Nat
  BY Numbers
<1>4. \A i \in 1..Len(wire') : i + 1 \in 1..Len(wire) /\ wire'[i] = wire[i + 1]
  BY <1>1, <1>3
<1>5. CASE pending' = pending
  <2>1. UNCHANGED <<asked, pending>> /\ text' = text /\ rcv' \in {rcv, <<>>} /\ 1 \in Int
    BY <1>2, <1>5
  <2> QED
    BY <1>4, <2>1, StillNumbered
<1>6. CASE /\ IsHead(wire[1]) /\ pending # <<>> /\ wire[1][2] = Head(pending)
           /\ pending' = Tail(pending)
  <2>1. /\ Head(pending) = pending[1] /\ Len(pending) >= 1
        /\ Len(pending') = Len(pending) - 1
        /\ \A i \in 1..Len(pending') : pending'[i] = pending[i + 1]
    BY <1>6, HeadTailProperties, EmptySeq, LenProperties DEF Sequences
  <2>2. HeadersRead' = HeadersRead + 1 /\ HeadersRead \in Int
    BY <1>2, <1>3, <2>1 DEF HeadersRead
  <2>3. wire[1][2] = HeadersRead + 1
    BY <1>3, <1>6, <2>1 DEF Numbered
  <2>4. \A j \in 1..Len(pending') : pending'[j] = HeadersRead' + j
    <3>1. \A j \in 1..Len(pending') : j + 1 \in 1..Len(pending)
      BY <1>3, <2>1
    <3> QED
      BY <2>1, <2>2, <3>1 DEF Numbered
  <2>5. \A i \in Int : i \in (HeadersRead + 1)..Len(asked) /\ wire[1][2] < i
                         => i \in (HeadersRead' + 1)..Len(asked')
    BY <1>2, <1>3, <2>2, <2>3
  <2>6. 1 \in 1..Len(wire)
    BY <1>1, <1>3
  <2>7. ASSUME NEW i \in 1..Len(wire'), IsHead(wire'[i])
        PROVE  /\ wire'[i][2] \in (HeadersRead' + 1)..Len(asked')
               /\ \A j \in 1..Len(wire') : i < j /\ IsHead(wire'[j]) => wire'[i][2] < wire'[j][2]
               /\ \A j \in 1..Len(text) : wire'[i][2] < text[j][2]
               /\ \A j \in 1..Len(rcv) : wire'[i][2] < rcv[j][2]
    <3>1. i + 1 \in 1..Len(wire) /\ wire'[i] = wire[i + 1] /\ 1 < i + 1 /\ IsHead(wire[i + 1])
      BY <1>4, <2>7
    <3>2. wire[1][2] < wire'[i][2] /\ wire'[i][2] \in (HeadersRead + 1)..Len(asked)
      BY <1>6, <2>6, <3>1 DEF Numbered, Between
    <3>3. wire'[i][2] \in Int
      BY <1>3, <2>2, <3>2
    <3>4. wire'[i][2] \in (HeadersRead' + 1)..Len(asked')
      BY <2>5, <3>2, <3>3
    <3>5. /\ \A j \in 1..Len(text) : wire'[i][2] < text[j][2]
          /\ \A j \in 1..Len(rcv) : wire'[i][2] < rcv[j][2]
      BY <3>1 DEF Numbered
    <3>6. ASSUME NEW j \in 1..Len(wire'), i < j, IsHead(wire'[j])
          PROVE  wire'[i][2] < wire'[j][2]
      <4>1. j + 1 \in 1..Len(wire) /\ wire'[j] = wire[j + 1] /\ i + 1 < j + 1
        BY <1>4, <3>6
      <4> QED
        BY <3>1, <3>6, <4>1 DEF Numbered
    <3> QED
      BY <3>4, <3>5, <3>6
  <2>8. /\ \A j \in 1..Len(text) : text[j][2] \in (HeadersRead' + 1)..Len(asked')
        /\ \A j \in 1..Len(rcv) : rcv[j][2] \in (HeadersRead' + 1)..Len(asked')
    <3>1. /\ \A j \in 1..Len(text) : wire[1][2] < text[j][2]
                                      /\ text[j][2] \in (HeadersRead + 1)..Len(asked)
          /\ \A j \in 1..Len(rcv) : wire[1][2] < rcv[j][2]
                                      /\ rcv[j][2] \in (HeadersRead + 1)..Len(asked)
      BY <1>6, <2>6 DEF Numbered, Between
    <3>2. \A i \in (HeadersRead + 1)..Len(asked) : i \in Int
      BY <1>3, <2>2
    <3> QED
      BY <2>5, <3>1, <3>2
  <2>9. /\ \A i, j \in 1..Len(text) : i < j => text[i][2] < text[j][2]
        /\ \A i, j \in 1..Len(rcv) : i < j => rcv[i][2] < rcv[j][2]
        /\ \A i \in 1..Len(text), j \in 1..Len(rcv) : text[i][2] < rcv[j][2]
    BY DEF Numbered
  <2> QED
    BY <1>2, <2>4, <2>7, <2>8, <2>9 DEF Numbered, Between
<1> QED
  BY <1>5, <1>6, Verdicts

LEMMA NumberedDecide ==
  ASSUME TypeOK, Sequences, Numbered, Decide
  PROVE  Numbered'
<1>1. text' = text \o rcv /\ rcv' = <<>> /\ UNCHANGED <<asked, pending, wire>>
  BY DEF Decide, clientVars
<1>2. /\ Len(rcv) \in Nat /\ Len(text) \in Nat /\ Len(rcv') = 0
      /\ text \in Seq(Segments) /\ rcv \in Seq(Segments)
  BY <1>1, Numbers DEF TypeOK
<1>3. /\ Len(text') = Len(text) + Len(rcv)
      /\ \A i \in 1..Len(text') : text'[i] = IF i <= Len(text) THEN text[i] ELSE rcv[i - Len(text)]
  BY <1>1, <1>2, ConcatProperties
<1>4. \A i \in 1..Len(text') : \/ i \in 1..Len(text) /\ text'[i] = text[i]
                               \/ /\ i - Len(text) \in 1..Len(rcv) /\ i > Len(text)
                                  /\ text'[i] = rcv[i - Len(text)]
  BY <1>2, <1>3
<1>5. HeadersRead' = HeadersRead
  BY <1>1 DEF HeadersRead
<1>6. ASSUME NEW i \in 1..Len(text')
      PROVE  /\ text'[i][2] \in (HeadersRead + 1)..Len(asked)
             /\ \A j \in 1..Len(wire) : IsHead(wire[j]) => wire[j][2] < text'[i][2]
  BY <1>4 DEF Numbered, Between
<1>7. ASSUME NEW i \in 1..Len(text'), NEW j \in 1..Len(text'), i < j
      PROVE  text'[i][2] < text'[j][2]
  <2>1. CASE j \in 1..Len(text) /\ text'[j] = text[j]
    <3>1. i \in 1..Len(text) /\ text'[i] = text[i]
      BY <1>2, <1>4, <1>7, <2>1
    <3> QED
      BY <1>7, <2>1, <3>1 DEF Numbered
  <2>2. CASE j - Len(text) \in 1..Len(rcv) /\ text'[j] = rcv[j - Len(text)]
    <3>1. CASE i \in 1..Len(text) /\ text'[i] = text[i]
      BY <2>2, <3>1 DEF Numbered
    <3>2. CASE i - Len(text) \in 1..Len(rcv) /\ text'[i] = rcv[i - Len(text)]
      <4>1. i - Len(text) < j - Len(text)
        BY <1>2, <1>7
      <4> QED
        BY <2>2, <3>2, <4>1 DEF Numbered
    <3> QED
      BY <1>4, <3>1, <3>2
  <2> QED
    BY <1>4, <2>1, <2>2
<1>8. /\ \A j \in 1..Len(pending) : pending[j] = HeadersRead + j
      /\ \A i \in 1..Len(wire) : IsHead(wire[i]) => Between(wire[i][2])
      /\ \A i, j \in 1..Len(wire) :
           i < j /\ IsHead(wire[i]) /\ IsHead(wire[j]) => wire[i][2] < wire[j][2]
  BY DEF Numbered
<1> QED
  BY <1>1, <1>2, <1>5, <1>6, <1>7, <1>8 DEF Numbered, Between

\* The header that is written is that of the first request the coroutine has,
\* which comes behind the headers on the wire.
LEMMA NumberedAnswer ==
  ASSUME TypeOK, Sequences, Whole, Numbered, HasRequest,
         UNCHANGED <<asked, pending>>, text' = <<>>,
         NEW x \in Seq(Token), NEW k \in 0..Len(x), AnswersWith(x, k)
  PROVE  Numbered'
<1> DEFINE h == text[1][2]
<1>1. 1 \in 1..Len(text) /\ h \in 1..Len(asked) /\ Parsed \in Request
  <2>1. Len(text) >= 1 /\ h \in 1..Len(asked) /\ Parsed \in Request
    BY ParsedProperties
  <2> QED
    BY <2>1, Numbers
<1>2. /\ Len(rcv) \in Nat /\ Len(wire) \in Nat /\ Len(text') = 0 /\ rcv' = rcv
      /\ Len(wire') = Len(wire) + k
      /\ \A i \in 1..Len(wire) : wire'[i] = wire[i]
      /\ \A i \in 1..k : wire'[Len(wire) + i] = x[i]
      /\ k \in 0..2 /\ k \in 0..Len(x)
      /\ \A p \in 1..Len(x) : x[p] = AnswerToken(h, Parsed, p)
  <2>1. /\ Adds(x, k) /\ rcv' = rcv /\ k \in 0..Len(x) /\ Len(x) \in {1, 2}
        /\ \A p \in 1..Len(x) : x[p] = AnswerToken(h, Parsed, p)
    BY DEF AnswersWith
  <2>2. k \in 0..2
    BY <2>1
  <2>3. Len(rcv) \in Nat /\ Len(wire) \in Nat /\ Len(text') = 0
    BY Numbers
  <2> QED
    BY <2>1, <2>2, <2>3 DEF Adds
<1>3. k >= 1 => x[1] = AnswerToken(h, Parsed, 1)
  BY <1>2
<1>4. k = 2 => x[2] = AnswerToken(h, Parsed, 2)
  BY <1>2
<1>5. h \in Nat /\ Code(Parsed) \in Nat /\ Wanted(Parsed) \in Int /\ Start(Parsed) \in Nat
  <2>1. Code(Parsed) \in Nat
    BY CodeType, Zenon
  <2>2. Wanted(Parsed) \in Int /\ Start(Parsed) \in Nat
    BY <1>1, Asked, Zenon
  <2>3. h \in Nat
    BY <1>1, Numbers
  <2> QED
    BY <2>1, <2>2, <2>3, Zenon
<1>6. AnswerToken(h, Parsed, 1)[2] = h
  BY DEF AnswerToken, Header
<1>7. ~IsHead(AnswerToken(h, Parsed, 2))
  BY DEF AnswerToken, Data, Error, IsHead
<1> HIDE DEF h
<1>8. \A i \in 1..Len(wire') : IsHead(wire'[i]) =>
        \/ i \in 1..Len(wire) /\ wire'[i] = wire[i]
        \/ i = Len(wire) + 1 /\ wire'[i][2] = h
  <2> SUFFICES ASSUME NEW i \in 1..Len(wire'), IsHead(wire'[i])
               PROVE  \/ i \in 1..Len(wire) /\ wire'[i] = wire[i]
                      \/ i = Len(wire) + 1 /\ wire'[i][2] = h
    OBVIOUS
  <2>1. CASE i \in 1..Len(wire)
    BY <1>2, <2>1
  <2>2. CASE i = Len(wire) + 1
    <3>1. k >= 1 /\ wire'[i] = x[1]
      BY <1>2, <2>2
    <3> QED
      BY <1>3, <1>6, <2>2, <3>1
  <2>3. CASE i = Len(wire) + 2
    <3>1. k = 2 /\ wire'[i] = x[2]
      BY <1>2, <2>3
    <3> QED
      BY <1>4, <1>7, <3>1
  <2>4. i \in 1..Len(wire) \/ i = Len(wire) + 1 \/ i = Len(wire) + 2
    <3>1. Len(wire') = Len(wire) + k /\ Len(wire) \in Nat /\ k \in {0, 1, 2}
      BY <1>2
    <3> QED
      BY <3>1
  <2> QED
    BY <2>1, <2>2, <2>3, <2>4, Zenon
<1>9. /\ h \in (HeadersRead + 1)..Len(asked)
      /\ \A i \in 1..Len(wire) : IsHead(wire[i]) => wire[i][2] < h
      /\ \A j \in 1..Len(rcv) : h < rcv[j][2]
  BY <1>1 DEF Numbered, Between, h
<1>10. HeadersRead' = HeadersRead
  BY DEF HeadersRead
<1>11. ASSUME NEW i \in 1..Len(wire'), IsHead(wire'[i])
       PROVE  /\ wire'[i][2] \in (HeadersRead + 1)..Len(asked)
              /\ \A j \in 1..Len(rcv) : wire'[i][2] < rcv[j][2]
  <2>1. CASE i \in 1..Len(wire) /\ wire'[i] = wire[i]
    BY <1>11, <2>1 DEF Numbered, Between
  <2>2. CASE wire'[i][2] = h
    BY <1>9, <2>2
  <2> QED
    BY <1>8, <1>11, <2>1, <2>2
<1>12. ASSUME NEW i \in 1..Len(wire'), NEW j \in 1..Len(wire'), i < j,
              IsHead(wire'[i]), IsHead(wire'[j])
       PROVE  wire'[i][2] < wire'[j][2]
  <2>1. CASE j \in 1..Len(wire) /\ wire'[j] = wire[j]
    <3>1. i \in 1..Len(wire) /\ wire'[i] = wire[i]
      BY <1>2, <1>12, <2>1
    <3> QED
      BY <1>12, <2>1, <3>1 DEF Numbered
  <2>2. CASE j = Len(wire) + 1 /\ wire'[j][2] = h
    <3>1. i \in 1..Len(wire) /\ wire'[i] = wire[i]
      BY <1>2, <1>12, <2>2
    <3> QED
      BY <1>9, <1>12, <2>2, <3>1
  <2> QED
    BY <1>8, <1>12, <2>1, <2>2
<1>13. /\ \A j \in 1..Len(pending) : pending[j] = HeadersRead + j
       /\ \A i \in 1..Len(rcv) : Between(rcv[i][2])
       /\ \A i, j \in 1..Len(rcv) : i < j => rcv[i][2] < rcv[j][2]
  BY DEF Numbered
<1> QED
  BY <1>2, <1>10, <1>11, <1>12, <1>13 DEF Numbered, Between

\* The server's other steps.
LEMMA NumberedKept ==
  ASSUME TypeOK, Sequences, Resuming, Numbered, client = "open",
         \/ Replace \/ Ages \/ EpollWait \/ Dispatch \/ ReadRequest \/ SendYield
         \/ (SendDone /\ ~job.close) \/ UNCHANGED vars
  PROVE  Numbered'
<1>1. wire' = wire
  BY WireUnchanged
<1>2. UNCHANGED <<asked, pending>>
  BY DEF Replace, Ages, EpollWait, Dispatch, ReadRequest, SendYield, SendDone, vars, clientVars
<1>3. \/ text' = text /\ rcv' \in {rcv, <<>>}
      \/ text' = <<>> /\ rcv' = rcv
      \/ text = <<>> /\ text' = rcv /\ rcv' = <<>>
  BY DEF Replace, Ages, EpollWait, Dispatch, ReadRequest, SendYield, SendDone, NextRound, vars,
         kernelVars, pageVars
<1>4. \A i \in 1..Len(wire') :
         IsHead(wire'[i]) => i + 0 \in 1..Len(wire) /\ wire'[i] = wire[i + 0]
  <2>1. \A i \in 1..Len(wire') : i + 0 = i
    OBVIOUS
  <2> QED
    BY <1>1, <2>1
<1>5. 0 \in Int
  OBVIOUS
<1> QED
  BY <1>2, <1>3, <1>4, <1>5, StillNumbered, Zenon

LEMMA NumberedNext ==
  ASSUME TypeOK, Sequences, Resuming, Whole, Unanswered, [Next]_vars
  PROVE  (Parsable /\ client = "open" => Numbered)'
<1> SUFFICES ASSUME Parsable', client' = "open"
             PROVE  Numbered'
  OBVIOUS
<1> USE DEF clientVars, kernelVars, flagVars, pageVars
<1>1. /\ Parsable /\ ~split /\ client = "open" /\ ~Left
      /\ Numbered
  BY ParsableBefore, ClientLeaves DEF Left, Unanswered
<1>2. CASE Ask
  BY <1>1, <1>2, NumberedAsk
<1>3. CASE AskRest
  BY <1>1, <1>3 DEF AskRest, Whole
<1>4. CASE Receive
  BY <1>1, <1>4, NumberedReceive
<1>5. CASE SeesEnd \/ Leave
  BY <1>5 DEF SeesEnd, Leave
<1>6. CASE \/ Replace \/ Ages \/ EpollWait \/ Dispatch \/ ReadRequest \/ SendYield
           \/ (SendDone /\ ~job.close) \/ UNCHANGED vars
  BY <1>1, <1>6, NumberedKept
<1>7. CASE Expires \/ Disconnect \/ Unknown \/ ReadEnd \/ SendFails \/ (SendDone /\ job.close)
  <2>1. UNCHANGED <<asked, pending, text>>
    BY <1>7 DEF Expires, Disconnect, Unknown, ReadEnd, SendFails, SendDone
  <2>2. rcv' = <<>>
    BY <1>7, Shuts DEF Shut
  <2>3. PICK n \in 0..Len(wire) : Leaves(n)
    BY <1>7, Shuts, ShutStep
  <2>4. \A i \in 1..Len(wire') : i + 0 \in 1..Len(wire) /\ wire'[i] = wire[i + 0]
    <3>1. Len(wire') = n /\ Len(wire) \in Nat /\ \A i \in 1..n : wire'[i] = wire[i]
      BY <2>3, Numbers DEF Leaves
    <3>2. \A i \in 1..n : i + 0 = i /\ i \in 1..Len(wire)
      BY <3>1
    <3> QED
      BY <3>1, <3>2
  <2>5. UNCHANGED <<asked, pending>> /\ text' = text /\ rcv' \in {rcv, <<>>} /\ 0 \in Int
    BY <2>1, <2>2
  <2> QED
    BY <1>1, <2>4, <2>5, StillNumbered
<1>8. CASE Decide
  BY <1>1, <1>8, NumberedDecide
<1>9. CASE AnswerPage \/ AnswerFresh \/ AnswerError
  <2>1. PICK x \in Seq(Token) : \E k \in 0..Len(x) : AnswersWith(x, k)
    BY <1>9, AnswerStep
  <2>2. PICK k \in 0..Len(x) : AnswersWith(x, k)
    BY <2>1
  <2>3. HasRequest /\ UNCHANGED <<asked, pending>>
    BY <1>9 DEF AnswerPage, AnswerFresh, AnswerError
  <2>4. Parsed.kind # "bare"
    <3>1. /\ text[1][2] \in 1..Len(asked)
          /\ Parsed = asked[text[1][2]] \/ Parsed.kind \in {"page", "missing", "refused"}
      BY <2>3, ParsedProperties
    <3>2. text[1][2] \in DOMAIN asked
      BY <3>1, Numbers
    <3> QED
      BY <1>1, <3>1, <3>2 DEF Parsable
  <2>5. text' = <<>>
    BY <1>9, <2>4 DEF AnswerPage, AnswerFresh, AnswerError
  <2> QED
    BY <1>1, <2>2, <2>3, <2>5, NumberedAnswer
<1>10. CASE AnswerSegment
  <2>1. text # <<>> /\ ~HasRequest
    BY <1>10 DEF AnswerSegment, Resuming
  <2>2. text[1][1] = "rest" /\ Len(text) >= 1
    BY <2>1, EmptySeq, LenProperties DEF HasRequest, TypeOK
  <2>3. 1 \in 1..Len(text)
    BY <2>2, Numbers
  <2> QED
    BY <1>1, <2>2, <2>3 DEF Whole, Segmented
<1>11. CASE AnswerFails
  BY <1>1, <1>11 DEF AnswerFails
<1>12. CASE SendSome
  <2>1. PICK x \in Seq(Token), k \in Nat : SendsSome(x, k)
    BY <1>12, SendSomeStep
  <2>2. /\ UNCHANGED <<asked, pending, text, rcv>> /\ Len(wire) \in Nat
        /\ Len(wire') = Len(wire) + k
        /\ \A i \in 1..Len(wire) : wire'[i] = wire[i]
        /\ \A i \in 1..k : wire'[Len(wire) + i] = IF replaced THEN New(off + i) ELSE Data(off + i)
    BY <2>1, Numbers DEF SendsSome, Adds
  <2>3. \A p : ~IsHead(New(p)) /\ ~IsHead(Data(p))
    BY DEF IsHead, New, Data
  <2>4. ASSUME NEW i \in 1..Len(wire'), IsHead(wire'[i])
        PROVE  i + 0 \in 1..Len(wire) /\ wire'[i] = wire[i + 0]
    <3>1. CASE i \in 1..Len(wire)
      <4>1. i + 0 = i
        OBVIOUS
      <4> QED
        BY <2>2, <3>1, <4>1
    <3>2. CASE i \notin 1..Len(wire)
      <4>1. i - Len(wire) \in 1..k /\ i = Len(wire) + (i - Len(wire))
        BY <2>2, <3>2
      <4>2. wire'[i] = New(off + (i - Len(wire))) \/ wire'[i] = Data(off + (i - Len(wire)))
        BY <2>2, <4>1
      <4> QED
        BY <2>3, <2>4, <4>2
    <3> QED
      BY <3>1, <3>2
  <2>5. UNCHANGED <<asked, pending>> /\ text' = text /\ rcv' \in {rcv, <<>>} /\ 0 \in Int
    BY <2>2
  <2> QED
    BY <1>1, <2>4, <2>5, StillNumbered
<1> QED
  BY <1>2, <1>3, <1>4, <1>5, <1>6, <1>7, <1>8, <1>9, <1>10, <1>11, <1>12
     DEF Next, Client, Tick, Server

LEMMA UnansweredNext ==
  ASSUME TypeOK, Sequences, Resuming, Whole, Unanswered, [Next]_vars
  PROVE  Unanswered'
<1>1. (Parsable /\ client = "open" => Numbered)'
  BY NumberedNext
<1>2. \A i \in DOMAIN asked : i \in DOMAIN asked' /\ asked'[i] = asked[i]
  <2>1. DOMAIN asked = 1..Len(asked) /\ DOMAIN asked' = 1..Len(asked')
    BY ClientNext, LenProperties DEF Sequences
  <2> QED
    BY <2>1, StaysAsked
<1>3. NeverUnasked'
  <2>1. CASE client = "unasked"
    BY <1>2, <2>1, StaysAsked DEF Unanswered, NeverUnasked
  <2>2. CASE client' # "unasked"
    BY <2>2 DEF NeverUnasked
  <2>3. CASE client # "unasked" /\ client' = "unasked"
    <3>1. Receive
      BY <2>3 DEF Next, Client, Tick, Ask, AskRest, Receive, SeesEnd, Leave, Replace, Ages,
         Server, EpollWait, Expires, Disconnect, Dispatch, Decide, Unknown, ReadRequest,
         ReadEnd, AnswerPage, AnswerFresh, AnswerError, AnswerSegment, AnswerFails, SendSome,
         SendYield, SendFails, SendDone, vars, clientVars
    <3>2. client = "open" /\ client' = Verdict(wire[1]) /\ Len(wire) >= 1 /\ UNCHANGED <<asked, split>>
      BY <3>1, ReceiveStep, Verdicts DEF Receive
    <3>3. pending = <<>> /\ IsHead(wire[1])
      BY <2>3, <3>2 DEF Verdict, IsHead
    <3>4. ASSUME Parsable
          PROVE  FALSE
      <4>1. Numbered
        BY <3>2, <3>4 DEF Unanswered
      <4>2. Len(pending) = 0 /\ Len(asked) \in Nat /\ 1 \in 1..Len(wire)
        BY <3>2, <3>3, Numbers
      <4>3. wire[1][2] \in (Len(asked) - 0 + 1)..Len(asked)
        BY <3>3, <4>1, <4>2 DEF Numbered, Between, HeadersRead
      <4> QED
        BY <4>2, <4>3
    <3> QED
      BY <3>2, <3>4 DEF Parsable, NeverUnasked
  <2> QED
    BY <2>1, <2>2, <2>3
<1> QED
  BY <1>1, <1>3 DEF Unanswered

------------------------------------------------------------------------------
(* The answer to the last request. *)

LEMMA SoundProperties ==
  ASSUME NEW r \in Request, Sound(r)
  PROVE  /\ r.kind \in {"page", "range", "fresh", "missing", "refused"}
         /\ Start(r) \in Nat /\ Wanted(r) \in Nat /\ r.size \in Nat
         /\ Paged(r) => Start(r) + Wanted(r) = r.size /\ Start(r) <= r.size /\ Wanted(r) = Length(r)
         /\ Code(r) \in {200, 206, 304, 403, 404}
         /\ ~Paged(r) /\ r.kind # "fresh" <=> Code(r) \in {403, 404}
<1>1. /\ r.kind \in Kinds /\ r.size \in Nat /\ r.first \in Nat
      /\ LastByte(r) \in Int
  BY Asked
<1>2. r.kind \in {"page", "range", "fresh", "missing", "refused"}
  BY <1>1 DEF Sound, Kinds
<1>3. CASE r.kind = "page"
  BY <1>1, <1>2, <1>3, Codes DEF Start, Wanted, Paged, Length
<1>4. CASE r.kind = "range"
  BY <1>1, <1>2, <1>4, Codes DEF Start, Wanted, Paged, Length, Sound
<1>5. CASE r.kind \in {"fresh", "missing", "refused"}
  BY <1>1, <1>2, <1>5, Codes DEF Start, Wanted, Paged
<1> QED
  BY <1>2, <1>3, <1>4, <1>5

LEMMA BodyOfAnswer ==
  ASSUME NEW i, NEW r \in Request, Sound(r), r = asked[i]
  PROVE  /\ Len(Body(i, Code(r), Wanted(r))) = Wanted(r)
         /\ \A p \in 1..Wanted(r) : Body(i, Code(r), Wanted(r))[p] = AnswerToken(i, r, p + 1)
<1>1. /\ Wanted(r) \in Nat /\ Start(r) \in Nat
      /\ ~Paged(r) /\ r.kind # "fresh" <=> Code(r) \in {403, 404}
  BY SoundProperties
<1>2. CASE Code(r) \in {403, 404}
  <2>1. Body(i, Code(r), Wanted(r)) = <<Error(Code(r))>> /\ Wanted(r) = 1
    BY <1>1, <1>2 DEF Body, Wanted
  <2>2. AnswerToken(i, r, 2) = Error(Code(r))
    BY <1>1, <1>2 DEF AnswerToken
  <2>3. Len(<<Error(Code(r))>>) = 1 /\ <<Error(Code(r))>>[1] = Error(Code(r))
    OBVIOUS
  <2> QED
    BY <2>1, <2>2, <2>3
<1>3. CASE Code(r) \notin {403, 404}
  <2> DEFINE b == [p \in 1..Wanted(r) |-> Data(Start(r) + p)]
  <2>1. Body(i, Code(r), Wanted(r)) = b
    BY <1>3 DEF Body
  <2>2. Len(b) = Wanted(r) /\ \A p \in 1..Wanted(r) : b[p] = Data(Start(r) + p)
    BY <1>1
  <2>3. \A p \in 1..Wanted(r) : AnswerToken(i, r, p + 1) = Data(Start(r) + p)
    <3> SUFFICES ASSUME NEW p \in 1..Wanted(r)
                 PROVE  AnswerToken(i, r, p + 1) = Data(Start(r) + p)
      OBVIOUS
    <3>1. p + 1 # 1 /\ Start(r) + (p + 1) - 1 = Start(r) + p
      BY <1>1
    <3>2. Paged(r)
      BY <1>1, <1>3 DEF Wanted
    <3> QED
      BY <3>1, <3>2 DEF AnswerToken
  <2> QED
    BY <2>1, <2>2, <2>3
<1> QED
  BY <1>2, <1>3

LEMMA CarefulBefore ==
  ASSUME TypeOK, Sequences, Careful', [Next]_vars
  PROVE  Careful
<1>1. ~pipelined /\ ~split /\ ~replaced
  BY StaysAsked DEF Careful
<1>2. DOMAIN asked = 1..Len(asked) /\ DOMAIN asked' = 1..Len(asked')
  BY ClientNext, LenProperties DEF Sequences
<1>3. ASSUME NEW i \in 1..Len(asked)
      PROVE  Sound(asked[i])
  <2>1. i \in 1..Len(asked') /\ asked'[i] = asked[i]
    BY StaysAsked
  <2>2. Sound(asked'[i])
    BY <1>2, <2>1 DEF Careful
  <2> QED
    BY <2>1, <2>2
<1> QED
  BY <1>1, <1>2, <1>3 DEF Careful

\* What the steps below start from.
Serving(i, r) ==
    /\ i = Len(asked) /\ i \in Nat \ {0} /\ r = asked[i] /\ r \in Request /\ Sound(r)
    /\ ~split /\ ~replaced /\ client = "open"
    /\ LastAnswer(i, r)

LEMMA ServingCareful ==
  ASSUME TypeOK, Sequences, Answering, Careful, client = "open", asked # <<>>
  PROVE  Serving(Len(asked), asked[Len(asked)])
<1>1. Len(asked) \in Nat \ {0} /\ DOMAIN asked = 1..Len(asked)
  BY Numbers, EmptySeq DEF Sequences
<1>2. Len(asked) \in 1..Len(asked)
  BY <1>1
<1>3. asked[Len(asked)] \in Request /\ Sound(asked[Len(asked)])
  BY <1>1, <1>2, Numbers DEF Careful
<1>4. LastAnswer(Len(asked), asked[Len(asked)])
  BY DEF Answering
<1> QED
  BY <1>1, <1>3, <1>4 DEF Serving, Careful

\* Once the client has its answer, nothing of it is left anywhere.
LEMMA Idle ==
  ASSUME TypeOK, Sequences, NEW i, NEW r, Serving(i, r), pending = <<>>, due = <<>>
  PROVE  NoAnswer
<1>1. Wanted(r) \in Nat /\ (Paged(r) => Start(r) + Wanted(r) = r.size) /\ Start(r) \in Nat
  BY SoundProperties DEF Serving
<1>2. Received(r) = Wanted(r) + 1
  BY <1>1 DEF Received
<1>3. pending # <<i>>
  OBVIOUS
<1>4. rcv = <<>> /\ text = <<>>
  BY <1>3 DEF Serving, LastAnswer
<1>5. Len(wire) = 0
  BY <1>1, <1>2, Numbers DEF Serving, LastAnswer
<1>6. wire = <<>>
  BY <1>5, EmptySeq DEF Sequences
<1>7. Sending => off = job.size
  BY <1>1, <1>2, <1>5 DEF Serving, LastAnswer
<1> QED
  BY <1>4, <1>6, <1>7 DEF NoAnswer

\* The client asks again, having its answer, or for the first time.
LEMMA AnsweringAsk ==
  ASSUME TypeOK, Sequences, NoAnswer, Ask, Careful',
         NEW i, NEW r, i = Len(asked'), r = asked'[i]
  PROVE  LastAnswer(i, r)'
<1> USE DEF clientVars, kernelVars, flagVars, pageVars
<1>1. /\ Len(asked') = Len(asked) + 1 /\ Len(asked) \in Nat
      /\ asked' \in Seq(Requests)
  BY AskStep, Numbers
<1>2. i = Len(asked) + 1 /\ i \in 1..Len(asked')
  BY <1>1
<1>3. r \in Request /\ Sound(r)
  <2>1. DOMAIN asked' = 1..Len(asked')
    BY <1>1, LenProperties
  <2>2. asked'[i] \in Requests
    BY <1>1, <1>2, ElementOfSeq
  <2> QED
    BY <1>2, <2>1, <2>2, RequestsAssumption DEF Careful
<1>4. pending' = <<i>>
  <2>1. pending' = Append(<<>>, i)
    BY <1>2, <1>1 DEF Ask, NoAnswer
  <2> QED
    BY <2>1
<1>5. rcv' = <<<<"whole", i>>>>
  <2>1. PICK kind \in {"whole", "front"} :
              rcv' = Append(rcv, <<kind, Len(asked) + 1>>) /\ (kind = "front" => split')
    BY AskStep
  <2>2. kind = "whole"
    BY <2>1 DEF Careful
  <2> QED
    BY <1>2, <2>1, <2>2 DEF NoAnswer
<1>6. /\ due' = <<>> /\ text' = <<>> /\ wire' = <<>> /\ UNCHANGED <<server, task, off, job>>
  BY DEF Ask, NoAnswer
<1>7. Sending' => off' = job'.size
  BY <1>6 DEF Sending, NoAnswer
<1>8. Wanted(r) \in Nat /\ Len(due') = 0 /\ Len(wire') = 0 /\ pending' # <<>>
  BY <1>3, <1>4, <1>6, SoundProperties
<1>9. Received(r)' = 0
  BY <1>8 DEF Received
<1> QED
  BY <1>4, <1>5, <1>6, <1>7, <1>8, <1>9 DEF LastAnswer

\* The token the client reads is the next one of its answer.
LEMMA NextToken ==
  ASSUME TypeOK, Sequences, NEW i, NEW r, Serving(i, r), Receive
  PROVE  /\ client' = "open"
         /\ \/ /\ pending = <<i>> /\ due = <<>> /\ pending' = <<>>
               /\ due' = Body(i, Code(r), Wanted(r))
            \/ /\ pending = <<>> /\ pending' = <<>> /\ due # <<>> /\ due' = Tail(due)
<1>1. /\ Len(wire) >= 1 /\ wire[1] \in Token /\ client' = Verdict(wire[1])
  BY ReceiveStep, Verdicts
<1>2. /\ Wanted(r) \in Nat /\ Start(r) \in Nat /\ Code(r) \in Nat /\ i \in Nat
  BY SoundProperties DEF Serving
<1>3. wire[1] = AnswerToken(i, r, Received(r) + 1)
  <2>1. 1 \in 1..Len(wire)
    BY <1>1, Numbers
  <2> QED
    BY <2>1 DEF Serving, LastAnswer
<1>4. CASE pending = <<i>> /\ due = <<>>
  <2>1. Received(r) = 0 /\ pending # <<>> /\ Head(pending) = i /\ Tail(pending) = <<>>
    BY <1>4 DEF Received
  <2>2. wire[1] = Header(i, Code(r), Wanted(r))
    BY <1>3, <2>1 DEF AnswerToken
  <2> DEFINE t == Header(i, Code(r), Wanted(r))
  <2>3. t[1] = "head" /\ t[2] = i /\ t[3] = Code(r) /\ t[4] = Wanted(r)
    BY DEF Header
  <2> HIDE DEF t
  <2>4. wire[1] = t
    BY <2>2 DEF t
  <2>5. Verdict(t) = "open"
    BY <1>4, <2>1, <2>3 DEF Verdict
  <2>6. client' = "open"
    BY <1>1, <2>4, <2>5
  <2>7. Head(wire) = t
    BY <2>4, ReceiveStep
  <2>8. pending' = Tail(pending) /\ due' = Body(t[2], t[3], t[4])
    BY <2>3, <2>6, <2>7 DEF Receive
  <2> QED
    BY <1>4, <2>1, <2>3, <2>6, <2>8
<1>5. CASE pending = <<>>
  <2>1. Received(r) = Wanted(r) + 1 - Len(due) /\ Len(due) \in Nat
    BY <1>5, Numbers DEF Received
  <2>2. Received(r) + Len(wire) <= Wanted(r) + 1 /\ Len(due) <= Wanted(r)
    BY DEF Serving, LastAnswer
  <2>3. Len(due) >= 1 /\ Received(r) + 1 # 1
    BY <1>1, <1>2, <2>1, <2>2, Numbers
  <2>4. due # <<>> /\ Head(due) = due[1]
    <3>1. Len(<<>>) = 0
      OBVIOUS
    <3> QED
      BY <2>3, <3>1 DEF Sequences
  <2>5. 1 \in 1..Len(due)
    BY <2>1, <2>3
  <2>6. due[1] = AnswerToken(i, r, Wanted(r) + 1 - Len(due) + 1)
    BY <2>5 DEF Serving, LastAnswer
  <2>7. wire[1] = due[1]
    BY <1>3, <2>1, <2>6
  <2>8. wire[1][1] # "head"
    BY <1>3, <2>3 DEF AnswerToken, Data, Error
  <2>9. Verdict(wire[1]) = "open"
    BY <2>4, <2>7, <2>8 DEF Verdict
  <2>10. Head(wire) = wire[1] /\ client' = "open"
    BY <1>1, <2>9, ReceiveStep
  <2>11. due' = Tail(due) /\ pending' = pending
    BY <2>8, <2>10 DEF Receive
  <2> QED
    BY <1>5, <2>4, <2>10, <2>11
<1> QED
  BY <1>4, <1>5 DEF Serving, LastAnswer

LEMMA AnsweringReceive ==
  ASSUME TypeOK, Sequences, NEW i, NEW r, Serving(i, r), Receive
  PROVE  /\ LastAnswer(i, r)'
         /\ Received(r)' + Len(wire') = Received(r) + Len(wire)
<1> USE DEF clientVars, kernelVars, flagVars, pageVars
<1>1. UNCHANGED <<rcv, text, server, task, off, now, job>>
  BY DEF Receive
<1>2. /\ Len(wire) >= 1 /\ Len(wire') = Len(wire) - 1
      /\ \A p \in 1..Len(wire') : wire'[p] = wire[1 + p]
  BY ReceiveStep
<1>3. Wanted(r) \in Nat /\ Start(r) \in Nat /\ Len(wire) \in Nat /\ Len(due) \in Nat
  BY SoundProperties, Numbers DEF Serving
<1>4. rcv = <<>> /\ text = <<>>
  <2>1. wire # <<>>
    BY ReceiveStep
  <2> QED
    BY <2>1 DEF Serving, LastAnswer
<1>5. Sending' <=> Sending
  BY <1>1 DEF Sending
<1>6. /\ pending' = <<>>
      /\ Len(due') \in Nat /\ Len(due') <= Wanted(r)
      /\ \A p \in 1..Len(due') : due'[p] = AnswerToken(i, r, Wanted(r) + 1 - Len(due') + p)
      /\ Wanted(r) + 1 - Len(due') = Received(r) + 1
  <2>1. CASE pending = <<i>> /\ due = <<>> /\ pending' = <<>> /\ due' = Body(i, Code(r), Wanted(r))
    <3>1. /\ Len(due') = Wanted(r)
          /\ \A p \in 1..Wanted(r) : due'[p] = AnswerToken(i, r, p + 1)
      BY <2>1, BodyOfAnswer DEF Serving
    <3>2. Received(r) = 0
      BY <2>1 DEF Received
    <3>3. \A p \in 1..Len(due') : Wanted(r) + 1 - Len(due') + p = p + 1
      BY <1>3, <3>1
    <3> QED
      BY <1>3, <2>1, <3>1, <3>2, <3>3
  <2>2. CASE pending = <<>> /\ pending' = <<>> /\ due # <<>> /\ due' = Tail(due)
    <3>1. /\ Len(due') = Len(due) - 1 /\ Len(due) >= 1
          /\ \A p \in 1..Len(due') : due'[p] = due[p + 1]
      BY <2>2, HeadTailProperties, LenProperties, EmptySeq DEF Sequences
    <3>2. Received(r) = Wanted(r) + 1 - Len(due)
      BY <2>2 DEF Received
    <3>3. ASSUME NEW p \in 1..Len(due')
          PROVE  due'[p] = AnswerToken(i, r, Wanted(r) + 1 - Len(due') + p)
      <4>1. p + 1 \in 1..Len(due)
                /\ Wanted(r) + 1 - Len(due) + (p + 1) = Wanted(r) + 1 - Len(due') + p
        BY <1>3, <3>1
      <4>2. due[p + 1] = AnswerToken(i, r, Wanted(r) + 1 - Len(due) + (p + 1))
        BY <4>1 DEF Serving, LastAnswer
      <4> QED
        BY <3>1, <4>1, <4>2
    <3>4. Len(due) <= Wanted(r)
      BY DEF Serving, LastAnswer
    <3> QED
      BY <1>3, <2>2, <3>1, <3>2, <3>3, <3>4
  <2> QED
    BY <2>1, <2>2, NextToken
<1>7. Received(r)' = Received(r) + 1 /\ Received(r) \in Int
  <2>1. Received(r) \in Int
    BY <1>3 DEF Received
  <2>2. Received(r)' = Wanted(r) + 1 - Len(due')
    BY <1>6 DEF Received
  <2> QED
    BY <1>6, <2>1, <2>2
<1>8. Received(r)' + Len(wire') = Received(r) + Len(wire)
  BY <1>2, <1>3, <1>7
<1>9. ASSUME NEW p \in 1..Len(wire')
      PROVE  wire'[p] = AnswerToken(i, r, Received(r)' + p)
  <2>1. 1 + p \in 1..Len(wire) /\ Received(r) + (1 + p) = Received(r)' + p
    BY <1>2, <1>3, <1>7
  <2>2. wire[1 + p] = AnswerToken(i, r, Received(r) + (1 + p))
    BY <2>1 DEF Serving, LastAnswer
  <2> QED
    BY <1>2, <2>1, <2>2
<1>10. Received(r)' + Len(wire') <= Wanted(r) + 1
  BY <1>8 DEF Serving, LastAnswer
<1>11. Sending' /\ off' # job'.size =>
         /\ job' = r /\ Paged(r) /\ off' <= now'
         /\ Received(r)' + Len(wire') >= 1
         /\ off' = Start(r) + Received(r)' + Len(wire') - 1
  <2> SUFFICES ASSUME Sending', off' # job'.size
               PROVE  /\ job' = r /\ Paged(r) /\ off' <= now'
                      /\ Received(r)' + Len(wire') >= 1
                      /\ off' = Start(r) + Received(r)' + Len(wire') - 1
    OBVIOUS
  <2>1. /\ job = r /\ Paged(r) /\ off <= now
        /\ Received(r) + Len(wire) >= 1
        /\ off = Start(r) + Received(r) + Len(wire) - 1
    BY <1>1, <1>5 DEF Serving, LastAnswer
  <2> QED
    BY <1>1, <1>2, <1>3, <1>7, <2>1
<1>12. LastAnswer(i, r)'
  BY <1>1, <1>4, <1>6, <1>9, <1>10, <1>11 DEF LastAnswer
<1> QED
  BY <1>8, <1>12

\* The steps that move nothing.
LEMMA AnsweringKept ==
  ASSUME TypeOK, NEW i, NEW r, Serving(i, r),
         UNCHANGED <<pending, due, rcv, wire, text, job, off, now>>,
         text = <<>> \/ server' = server, Sending' => Sending
  PROVE  LastAnswer(i, r)'
<1>1. Received(r)' = Received(r) /\ Len(wire') = Len(wire)
  BY DEF Received
<1>2. /\ pending' = <<>> \/ (pending' = <<i>> /\ due' = <<>>)
      /\ rcv' = <<>> \/ (rcv' = <<<<"whole", i>>>> /\ text' = <<>>)
      /\ text' = <<>> \/ (text' = <<<<"whole", i>>>> /\ server' = "answer")
      /\ rcv' # <<>> \/ text' # <<>> => pending' = <<i>> /\ wire' = <<>>
  BY DEF Serving, LastAnswer
<1>3. /\ Len(due') <= Wanted(r)
      /\ \A p \in 1..Len(due') : due'[p] = AnswerToken(i, r, Wanted(r) + 1 - Len(due') + p)
      /\ Received(r)' + Len(wire') <= Wanted(r) + 1
      /\ \A p \in 1..Len(wire') : wire'[p] = AnswerToken(i, r, Received(r)' + p)
  BY <1>1 DEF Serving, LastAnswer
<1>4. Sending' /\ off' # job'.size =>
         /\ job' = r /\ Paged(r) /\ off' <= now'
         /\ rcv' = <<>> /\ text' = <<>>
         /\ Received(r)' + Len(wire') >= 1
         /\ off' = Start(r) + Received(r)' + Len(wire') - 1
  BY <1>1 DEF Serving, LastAnswer
<1> QED
  BY <1>2, <1>3, <1>4 DEF LastAnswer

\* close() cuts the answer short.
LEMMA AnsweringShut ==
  ASSUME TypeOK, Sequences, NEW i, NEW r, Serving(i, r), server # "answer",
         UNCHANGED <<pending, due, text>>, rcv' = <<>>, server' = "closed",
         NEW n \in 0..Len(wire), Leaves(n)
  PROVE  LastAnswer(i, r)'
<1>1. /\ Len(wire') = n /\ n <= Len(wire) /\ Len(wire) \in Nat
      /\ \A p \in 1..n : p \in 1..Len(wire) /\ wire'[p] = wire[p]
  BY Numbers DEF Leaves
<1>2. Received(r)' = Received(r)
  BY DEF Received
<1>3. ~Sending' /\ text' = <<>>
  BY DEF Sending, Serving, LastAnswer
<1>4. Wanted(r) \in Nat /\ Received(r) \in Int
  BY SoundProperties, Numbers DEF Received, Serving
<1>5. Received(r)' + Len(wire') <= Wanted(r) + 1
  BY <1>1, <1>2, <1>4 DEF Serving, LastAnswer
<1>6. \A p \in 1..Len(wire') : wire'[p] = AnswerToken(i, r, Received(r)' + p)
  BY <1>1, <1>2 DEF Serving, LastAnswer
<1>7. /\ pending' = <<>> \/ (pending' = <<i>> /\ due' = <<>>)
      /\ Len(due') <= Wanted(r)
      /\ \A p \in 1..Len(due') : due'[p] = AnswerToken(i, r, Wanted(r) + 1 - Len(due') + p)
  BY DEF Serving, LastAnswer
<1> QED
  BY <1>3, <1>5, <1>6, <1>7 DEF LastAnswer

\* The request is answered, with the header that a careful client waits for.
LEMMA AnsweringAnswer ==
  ASSUME TypeOK, Sequences, Whole, NEW i, NEW r, Serving(i, r),
         AnswerPage \/ AnswerFresh \/ AnswerError
  PROVE  /\ LastAnswer(i, r)'
         /\ Received(r)' = 0
         /\ AnswerPage => /\ Len(wire') = 1 /\ Paged(r)
                          /\ job' = r /\ off' = Start(r)
         /\ ~AnswerPage /\ Window # 1 => Len(wire') = Wanted(r) + 1
<1> USE DEF clientVars, kernelVars, flagVars, pageVars
<1>1. HasRequest /\ server = "answer" /\ UNCHANGED <<asked, pending, due>>
  BY DEF AnswerPage, AnswerFresh, AnswerError
<1>2. /\ text = <<<<"whole", i>>>> /\ pending = <<i>> /\ wire = <<>> /\ due = <<>> /\ rcv = <<>>
  BY <1>1 DEF Serving, LastAnswer, HasRequest
<1>3. text[1][2] = i /\ Parsed = r
  <2>1. text[1][1] = "whole" /\ text[1][2] = i
    BY <1>2
  <2> QED
    BY <2>1 DEF Parsed, Serving
<1>4. PICK x \in Seq(Token) : \E k \in 0..Len(x) : AnswersWith(x, k)
  BY AnswerStep
<1>5. PICK k \in 0..Len(x) : AnswersWith(x, k)
  BY <1>4
<1>6. /\ k = Len(x) \/ k = Window
      /\ Len(x) \in {1, 2} /\ (Len(x) = 2 => Wanted(r) = 1 /\ ~Paged(r))
      /\ Len(x) = 1 => Paged(r) \/ Wanted(r) = 0
      /\ \A p \in 1..Len(x) : x[p] = AnswerToken(i, r, p)
      /\ rcv' = <<>>
      /\ Len(wire') = k /\ \A p \in 1..k : wire'[p] = x[p]
  <2>1. Len(wire) = 0 /\ Window \in Nat
    BY <1>2, BoundsAssumption
  <2>2. /\ k = Len(x) \/ Len(wire) + k = Window
        /\ Len(x) \in {1, 2} /\ (Len(x) = 2 => Wanted(r) = 1 /\ ~Paged(r))
        /\ Len(x) = 1 => Paged(r) \/ Wanted(r) = 0
        /\ \A p \in 1..Len(x) : x[p] = AnswerToken(i, r, p)
        /\ rcv' = <<>> /\ Adds(x, k)
    BY <1>2, <1>3, <1>5 DEF AnswersWith
  <2>3. k \in Nat
    BY <2>2
  <2>4. Len(wire') = k /\ \A p \in 1..k : wire'[p] = x[p]
    BY <2>1, <2>2, <2>3 DEF Adds
  <2> QED
    BY <2>1, <2>2, <2>3, <2>4
<1>7. k \in Nat \ {0} /\ k <= Len(x) /\ (Paged(r) => k = 1)
  <2>1. Len(x) \in {1, 2} /\ (k = Len(x) \/ k = Window) /\ k \in 0..Len(x)
        /\ (Len(x) = 2 => ~Paged(r))
    BY <1>6
  <2>2. k \in Nat /\ k # 0 /\ k <= Len(x)
    BY <2>1, BoundsAssumption
  <2>3. CASE Len(x) = 1
    BY <2>2, <2>3
  <2>4. CASE Len(x) = 2
    BY <2>1, <2>2, <2>4
  <2> QED
    BY <2>1, <2>3, <2>4
<1>8. /\ r.kind \in {"page", "range", "fresh", "missing", "refused"}
      /\ Wanted(r) \in Nat /\ Start(r) \in Nat /\ r.size \in Nat
      /\ Paged(r) => Start(r) <= r.size
  BY SoundProperties DEF Serving
<1>9. k <= Wanted(r) + 1
  BY <1>6, <1>7, <1>8
<1>10. text' = <<>>
  BY <1>3, <1>8 DEF AnswerPage, AnswerFresh, AnswerError
<1>11. Received(r)' = 0 /\ pending' = <<i>> /\ due' = <<>> /\ Len(due') = 0
  BY <1>1, <1>2 DEF Received
<1>12. \A p \in 1..Len(wire') : wire'[p] = AnswerToken(i, r, Received(r)' + p)
  <2>1. \A p \in 1..k : p \in 1..Len(x) /\ 0 + p = p
    BY <1>7
  <2> QED
    BY <1>6, <1>11, <2>1
<1>13. CASE AnswerPage
  <2>1. /\ Paged(r) /\ job' = r /\ off' = Start(r) /\ now' = r.size
    BY <1>3, <1>13, PageStep
  <2>2. /\ off' <= now' /\ Received(r)' + Len(wire') >= 1
        /\ off' = Start(r) + Received(r)' + Len(wire') - 1
    BY <1>6, <1>7, <1>8, <1>11, <2>1
  <2>3. LastAnswer(i, r)'
    BY <1>6, <1>8, <1>9, <1>10, <1>11, <1>12, <2>1, <2>2 DEF LastAnswer
  <2> QED
    BY <1>6, <1>7, <1>11, <1>13, <2>1, <2>3
<1>14. CASE AnswerFresh \/ AnswerError
  <2>1. ~Sending' /\ ~Paged(r) /\ ~AnswerPage
    BY <1>3, <1>14 DEF AnswerFresh, AnswerError, AnswerPage, NextRound, Sending, Paged
  <2>2. LastAnswer(i, r)'
    BY <1>6, <1>8, <1>9, <1>10, <1>11, <1>12, <2>1 DEF LastAnswer
  <2>3. ASSUME Window # 1
        PROVE  k = Wanted(r) + 1
    <3>1. k \in Nat \ {0} /\ Window \in Nat /\ (k = Len(x) \/ k = Window) /\ k <= Len(x)
      BY <1>6, <1>7, BoundsAssumption
    <3>2. CASE Len(x) = 1
      BY <1>6, <2>1, <3>1, <3>2
    <3>3. CASE Len(x) = 2
      BY <1>6, <2>3, <3>1, <3>3
    <3> QED
      BY <1>6, <3>2, <3>3
  <2> QED
    BY <1>6, <1>11, <2>1, <2>2, <2>3
<1> QED
  BY <1>13, <1>14

LEMMA AnsweringSend ==
  ASSUME TypeOK, Sequences, Paging, NEW i, NEW r, Serving(i, r), SendSome
  PROVE  /\ LastAnswer(i, r)'
         /\ Start(r) + Wanted(r) = r.size /\ job = r
         /\ off' = Start(r) + Received(r)' + Len(wire') - 1
<1> USE DEF clientVars, kernelVars, flagVars, pageVars
<1>1. PICK x \in Seq(Token), k \in Nat : SendsSome(x, k)
  BY SendSomeStep
<1>2. /\ k \in Nat \ {0} /\ k <= now - off /\ off' = off + k
      /\ server = "send" /\ off # job.size
      /\ UNCHANGED <<asked, pending, due, rcv, text, server, job, now>>
      /\ Len(wire') = Len(wire) + k
      /\ \A p \in 1..Len(wire) : wire'[p] = wire[p]
      /\ \A p \in 1..k : wire'[Len(wire) + p] = Data(off + p)
  BY <1>1 DEF SendsSome, Adds, Serving
<1>3. /\ job = r /\ Paged(r) /\ off <= now /\ rcv = <<>> /\ text = <<>>
      /\ Received(r) + Len(wire) >= 1
      /\ off = Start(r) + Received(r) + Len(wire) - 1
  BY <1>2 DEF Serving, LastAnswer, Sending
<1>4. /\ Wanted(r) \in Nat /\ Start(r) \in Nat /\ r.size \in Nat /\ Len(wire) \in Nat
      /\ Len(due) \in Nat
      /\ Start(r) + Wanted(r) = r.size /\ now = r.size /\ off \in Nat
  <2>1. r \in Request /\ Sound(r) /\ now = job.size /\ off \in Nat
    BY DEF Serving, Paging, TypeOK
  <2>2. Wanted(r) \in Nat /\ Start(r) \in Nat /\ Start(r) + Wanted(r) = r.size
    BY <1>3, <2>1, SoundProperties
  <2>3. r.size \in Nat /\ now = r.size
    BY <1>3, <2>1 DEF Request
  <2> QED
    BY <2>1, <2>2, <2>3, Numbers
<1>5. Received(r)' = Received(r) /\ Received(r) \in Int
  BY <1>2, <1>4 DEF Received
<1> DEFINE m == Received(r)
           l == Len(wire)
           s == Start(r)
           w == Wanted(r)
<1>10. /\ k \in Nat \ {0} /\ m \in Int /\ l \in Nat /\ s \in Nat /\ w \in Nat
       /\ now \in Nat /\ off \in Nat
       /\ k <= now - off /\ off' = off + k /\ now' = now
       /\ m + l >= 1 /\ off = s + m + l - 1 /\ s + w = now
       /\ Received(r)' = m /\ Len(wire') = l + k
  BY <1>2, <1>3, <1>4, <1>5
<1> HIDE DEF m, l, s, w
<1>11. m + (l + k) <= w + 1 /\ off + k <= now /\ m + (l + k) >= 1
       /\ off + k = s + m + (l + k) - 1
  BY <1>10
<1>6. Received(r)' + Len(wire') <= Wanted(r) + 1
  BY <1>10, <1>11 DEF w
<1>7. ASSUME NEW p \in 1..Len(wire')
      PROVE  wire'[p] = AnswerToken(i, r, Received(r)' + p)
  <2>1. CASE p \in 1..Len(wire)
    BY <1>2, <1>5, <2>1 DEF Serving, LastAnswer
  <2>2. CASE p \notin 1..Len(wire)
    <3>1. p - Len(wire) \in 1..k /\ p = Len(wire) + (p - Len(wire))
      <4>1. Len(wire') = Len(wire) + k /\ Len(wire) \in Nat /\ k \in Nat
        BY <1>2, <1>4
      <4> QED
        BY <2>2, <4>1
    <3>2. wire'[p] = Data(off + (p - Len(wire)))
      BY <1>2, <3>1
    <3>3. /\ Received(r)' + p # 1
          /\ Start(r) + (Received(r)' + p) - 1 = off + (p - Len(wire))
      <4>1. p - l \in 1..k /\ p \in Int
        BY <3>1 DEF l
      <4>2. m + p # 1 /\ s + (m + p) - 1 = off + (p - l)
        BY <1>10, <4>1
      <4> QED
        BY <1>10, <4>2 DEF l, s
    <3> QED
      BY <1>3, <3>2, <3>3 DEF AnswerToken
  <2> QED
    BY <2>1, <2>2
<1>8. /\ off' <= now' /\ Received(r)' + Len(wire') >= 1
      /\ off' = Start(r) + Received(r)' + Len(wire') - 1
  BY <1>10, <1>11 DEF s
<1>9. /\ pending' = <<>> \/ (pending' = <<i>> /\ due' = <<>>)
      /\ Len(due') <= Wanted(r)
      /\ \A p \in 1..Len(due') : due'[p] = AnswerToken(i, r, Wanted(r) + 1 - Len(due') + p)
  BY <1>2 DEF Serving, LastAnswer
<1>12. LastAnswer(i, r)'
  BY <1>2, <1>3, <1>6, <1>7, <1>8, <1>9 DEF LastAnswer
<1> QED
  BY <1>3, <1>4, <1>8, <1>12

\* The server takes the request up.
LEMMA AnsweringRead ==
  ASSUME TypeOK, Sequences, Resuming, NEW i, NEW r, Serving(i, r), Decide \/ ReadRequest
  PROVE  LastAnswer(i, r)'
<1> USE DEF clientVars, kernelVars, flagVars, pageVars
<1>1. rcv # <<>> /\ server' = "answer" /\ UNCHANGED <<asked, pending, due, wire>>
  BY DEF Decide, ReadRequest, Resuming
<1>2. rcv = <<<<"whole", i>>>> /\ text = <<>> /\ pending = <<i>> /\ wire = <<>> /\ due = <<>>
  BY <1>1 DEF Serving, LastAnswer
<1>3. text' = <<<<"whole", i>>>> /\ rcv' = <<>>
  <2>1. text' = rcv \/ text' = <<>> \o rcv
    BY <1>2 DEF Decide, ReadRequest
  <2>2. <<>> \o <<<<"whole", i>>>> = <<<<"whole", i>>>>
    OBVIOUS
  <2>3. rcv' = <<>>
    BY <1>2 DEF Decide, ReadRequest
  <2> QED
    BY <1>2, <2>1, <2>2, <2>3
<1>4. ~Sending'
  BY <1>1 DEF Sending
<1>5. Received(r)' = 0 /\ Len(due') = 0 /\ Len(wire') = 0 /\ Wanted(r) \in Nat
  BY <1>1, <1>2, SoundProperties DEF Received, Serving
<1> QED
  BY <1>1, <1>2, <1>3, <1>4, <1>5 DEF LastAnswer

LEMMA QuietSteps ==
  ASSUME TypeOK, Resuming,
         \/ EpollWait \/ Dispatch \/ SendYield \/ (SendDone /\ ~job.close)
         \/ Ages \/ UNCHANGED vars
  PROVE  /\ UNCHANGED <<asked, pending, due, rcv, wire, text, job, off, now>>
         /\ server # "answer" \/ server' = server
         /\ Sending' => Sending
<1> USE DEF clientVars, kernelVars, flagVars, pageVars
<1>1. CASE EpollWait
  BY <1>1 DEF EpollWait, Sending
<1>2. CASE Dispatch
  BY <1>2 DEF Dispatch, Sending, TypeOK
<1>3. CASE SendYield
  BY <1>3 DEF SendYield, Sending
<1>4. CASE SendDone /\ ~job.close
  BY <1>4 DEF SendDone, NextRound, Sending
<1>5. CASE Ages \/ UNCHANGED vars
  BY <1>5 DEF Ages, vars, Sending
<1> QED
  BY <1>1, <1>2, <1>3, <1>4, <1>5

\* A connection on which nothing was asked yet.
LEMMA NoAnswerKept ==
  ASSUME TypeOK, Sequences, Resuming, Whole, NoAnswer, client = "open", ~split, ~replaced',
         client' = "open", Client \/ Leave \/ Replace \/ Tick \/ Server \/ UNCHANGED vars
  PROVE  NoAnswer'
<1> USE DEF clientVars, kernelVars, flagVars, pageVars
<1>1. CASE \/ EpollWait \/ Dispatch \/ SendYield \/ (SendDone /\ ~job.close)
           \/ Ages \/ UNCHANGED vars
  BY <1>1, QuietSteps DEF NoAnswer
<1>2. CASE Expires \/ Disconnect \/ Unknown \/ ReadEnd \/ SendFails \/ (SendDone /\ job.close)
  <2>1. UNCHANGED <<pending, due, text>>
    BY <1>2 DEF Expires, Disconnect, Unknown, ReadEnd, SendFails, SendDone
  <2>2. PICK n \in 0..Len(wire) : Leaves(n)
    BY <1>2, Shuts, ShutStep
  <2>3. rcv' = <<>> /\ server' = "closed"
    BY <1>2, Shuts, ShutStep
  <2>4. wire' = <<>>
    <3>1. Len(wire) = 0
      BY DEF NoAnswer
    <3>2. Len(wire') = 0 /\ wire' \in Seq(Token)
      BY <2>2, <3>1 DEF Leaves
    <3> QED
      BY <3>2, EmptySeq
  <2> QED
    BY <2>1, <2>3, <2>4 DEF NoAnswer, Sending
<1>3. CASE AskRest \/ Receive \/ SeesEnd \/ Leave \/ Replace
  BY <1>3 DEF AskRest, Receive, SeesEnd, Leave, Replace, NoAnswer, Whole
<1>4. CASE Decide \/ ReadRequest \/ AnswerPage \/ AnswerFresh \/ AnswerError \/ AnswerSegment
           \/ AnswerFails
  BY <1>4 DEF Decide, ReadRequest, AnswerPage, AnswerFresh, AnswerError, AnswerSegment,
     AnswerFails, NoAnswer, Resuming, Left
<1>5. CASE SendSome
  BY <1>5 DEF SendSome, NoAnswer, Sending
<1> QED
  BY <1>1, <1>2, <1>3, <1>4, <1>5 DEF Client, Tick, Server

LEMMA LastAnswerKept ==
  ASSUME TypeOK, Sequences, Resuming, Whole, Paging, NEW i, NEW r, Serving(i, r), ~replaced',
         client' = "open", Client \/ Leave \/ Replace \/ Tick \/ Server \/ UNCHANGED vars
  PROVE  LastAnswer(i, r)'
<1> USE DEF clientVars, kernelVars, flagVars, pageVars
<1>1. ~split /\ ~Left
  BY DEF Serving, Left
<1>2. CASE \/ EpollWait \/ Dispatch \/ SendYield \/ (SendDone /\ ~job.close)
           \/ Ages \/ UNCHANGED vars
  <2>1. /\ UNCHANGED <<pending, due, rcv, wire, text, job, off, now>>
        /\ server # "answer" \/ server' = server
        /\ Sending' => Sending
    BY <1>2, QuietSteps
  <2>2. text = <<>> \/ server' = server
    BY <2>1 DEF Serving, LastAnswer
  <2> QED
    BY <2>1, <2>2, AnsweringKept
<1>3. CASE Expires \/ Disconnect \/ Unknown \/ ReadEnd \/ SendFails \/ (SendDone /\ job.close)
  <2>1. UNCHANGED <<pending, due, text>> /\ server # "answer"
    BY <1>3 DEF Expires, Disconnect, Unknown, ReadEnd, SendFails, SendDone
  <2>2. PICK n \in 0..Len(wire) : Leaves(n)
    BY <1>3, Shuts, ShutStep
  <2>3. rcv' = <<>> /\ server' = "closed"
    BY <1>3, Shuts, ShutStep
  <2> QED
    BY <2>1, <2>2, <2>3, AnsweringShut
<1>4. CASE Receive
  BY <1>4, AnsweringReceive
<1>5. CASE AskRest \/ SeesEnd \/ Leave \/ Replace \/ AnswerFails
  BY <1>1, <1>5 DEF AskRest, SeesEnd, Leave, Replace, AnswerFails, Whole
<1>6. CASE Decide \/ ReadRequest
  BY <1>6, AnsweringRead
<1>7. CASE AnswerPage \/ AnswerFresh \/ AnswerError
  BY <1>7, AnsweringAnswer
<1>8. CASE AnswerSegment
  <2>1. text # <<>> /\ ~HasRequest
    BY <1>8 DEF AnswerSegment, Resuming
  <2>2. text[1][1] = "rest" /\ Len(text) >= 1
    BY <2>1, EmptySeq, LenProperties DEF HasRequest, TypeOK
  <2>3. 1 \in 1..Len(text)
    BY <2>2, Numbers
  <2> QED
    BY <1>1, <2>2, <2>3 DEF Whole, Segmented
<1>9. CASE SendSome
  BY <1>9, AnsweringSend
<1> QED
  BY <1>2, <1>3, <1>4, <1>5, <1>6, <1>7, <1>8, <1>9 DEF Client, Tick, Server

\* Only a client that asks changes what was asked.
LEMMA AskedKept ==
  ASSUME Client \/ Leave \/ Replace \/ Tick \/ Server \/ UNCHANGED vars
  PROVE  asked' = asked
  BY DEF Client, AskRest, Receive, SeesEnd, Leave, Replace, Tick, Ages, vars, clientVars,
     Server, EpollWait, Expires, Disconnect, Dispatch, Decide, Unknown, ReadRequest, ReadEnd,
     AnswerPage, AnswerFresh, AnswerError, AnswerSegment, AnswerFails, SendSome, SendYield,
     SendFails, SendDone

LEMMA FramedNext ==
  ASSUME TypeOK, Sequences, Answering, [Next]_vars
  PROVE  Framed'
<1> SUFFICES ASSUME client' \in Wrong, Careful'
             PROVE  FALSE
  BY DEF Framed
<1>1. Careful
  BY CarefulBefore
<1>2. CASE client \in Wrong
  BY <1>1, <1>2 DEF Answering, Framed
<1>3. CASE client \notin Wrong
  <2>1. Receive
    BY <1>3 DEF Next, Client, Tick, Ask, AskRest, Receive, SeesEnd, Leave, Replace, Ages,
       Server, EpollWait, Expires, Disconnect, Dispatch, Decide, Unknown, ReadRequest, ReadEnd,
       AnswerPage, AnswerFresh, AnswerError, AnswerSegment, AnswerFails, SendSome, SendYield,
       SendFails, SendDone, vars, clientVars, Wrong
  <2>2. client = "open" /\ wire # <<>>
    BY <2>1, ReceiveStep
  <2>3. asked # <<>>
    BY <1>1, <2>2 DEF Answering, NoAnswer
  <2>4. Serving(Len(asked), asked[Len(asked)])
    BY <1>1, <2>2, <2>3, ServingCareful
  <2>5. client' = "open"
    BY <2>1, <2>4, NextToken
  <2> QED
    BY <2>5 DEF Wrong
<1> QED
  BY <1>2, <1>3

LEMMA AnsweringNext ==
  ASSUME TypeOK, Sequences, Resuming, Whole, Paging, Answering, [Next]_vars
  PROVE  Answering'
<1>1. ASSUME Careful', client' = "open"
      PROVE  (IF asked = <<>> THEN NoAnswer ELSE LastAnswer(Len(asked), asked[Len(asked)]))'
  <2>1. Careful /\ client = "open" /\ ~split /\ ~replaced'
    BY <1>1, CarefulBefore, ClientLeaves DEF Left, Careful
  <2> DEFINE i == Len(asked)
             r == asked[Len(asked)]
  <2>2. CASE Ask
    <3>1. NoAnswer
      <4>1. CASE asked = <<>>
        BY <2>1, <4>1 DEF Answering
      <4>2. CASE asked # <<>>
        <5>1. Serving(i, r)
          BY <2>1, <4>2, ServingCareful
        <5>2. pending = <<>> /\ due = <<>>
          BY <1>1, <2>2 DEF Ask, Careful
        <5> QED
          BY <5>1, <5>2, Idle
      <4> QED
        BY <4>1, <4>2
    <3>2. asked' # <<>>
      BY <2>2, AskStep, Numbers
    <3>3. \A n, q : n = Len(asked') /\ q = asked'[n] => LastAnswer(n, q)'
      BY <1>1, <2>2, <3>1, AnsweringAsk
    <3>4. LastAnswer(Len(asked), asked[Len(asked)])'
      BY <3>3
    <3> QED
      BY <3>2, <3>4
  <2>3. CASE Client \/ Leave \/ Replace \/ Tick \/ Server \/ UNCHANGED vars
    <3>1. asked' = asked
      BY <2>3, AskedKept
    <3>2. CASE asked = <<>>
      <4>1. NoAnswer
        BY <2>1, <3>2 DEF Answering
      <4>2. NoAnswer'
        BY <1>1, <2>1, <2>3, <4>1, NoAnswerKept
      <4> QED
        BY <3>1, <3>2, <4>2
    <3>3. CASE asked # <<>>
      <4>1. Serving(i, r)
        BY <2>1, <3>3, ServingCareful
      <4>2. \A n, q : Serving(n, q) => LastAnswer(n, q)'
        BY <1>1, <2>1, <2>3, LastAnswerKept
      <4>3. \A n, q : n = i /\ q = r => LastAnswer(n, q)'
        BY <4>1, <4>2
      <4>4. LastAnswer(Len(asked), asked[Len(asked)])'
        BY <3>1, <4>3
      <4> QED
        BY <3>1, <3>3, <4>4
    <3> QED
      BY <3>2, <3>3
  <2> QED
    BY <2>2, <2>3 DEF Next, Tick
<1>2. Framed'
  BY FramedNext
<1> QED
  BY <1>1, <1>2 DEF Answering

------------------------------------------------------------------------------
(* The invariant of the specification, and what follows from it. *)

LEMMA InitInvariant == Init => IInv
<1> SUFFICES ASSUME Init
             PROVE  IInv
  OBVIOUS
<1> USE DEF Init
<1>1. Len(<<>>) = 0 /\ \A i \in 1..0 : FALSE
  OBVIOUS
<1>2. Resuming
  BY DEF Resuming
<1>3. Whole
  BY <1>1 DEF Whole, Segmented
<1>4. Paging
  BY DEF Paging, Nobody
<1>5. Caused
  BY DEF Caused, ClosedForCause, Nobody, Length
<1>6. Unanswered
  BY <1>1 DEF Unanswered, NeverUnasked, Numbered
<1>7. Answering
  <2>1. NoAnswer
    BY DEF NoAnswer, Sending
  <2>2. Framed
    BY DEF Framed, Wrong
  <2> QED
    BY <2>1, <2>2 DEF Answering
<1> QED
  BY <1>2, <1>3, <1>4, <1>5, <1>6, <1>7, TypeInit DEF IInv, Checked

LEMMA StepInvariant == IInv /\ [Next]_vars => IInv'
<1> SUFFICES ASSUME IInv, [Next]_vars
             PROVE  IInv'
  OBVIOUS
<1>1. /\ TypeOK /\ Sequences /\ Resuming /\ Whole /\ Paging /\ Caused /\ Unanswered
      /\ Answering
  BY DEF IInv, Checked
<1>2. TypeOK' /\ Sequences'
  BY <1>1, TypeNext
<1>3. Resuming' /\ Whole'
  BY <1>1, ResumingNext, WholeNext
<1>4. Paging' /\ Caused'
  BY <1>1, PagingNext, CausedNext
<1>5. Unanswered' /\ Answering'
  BY <1>1, UnansweredNext, AnsweringNext
<1> QED
  BY <1>2, <1>3, <1>4, <1>5 DEF IInv, Checked

\* Between any two system calls of the server and any two moves of the client,
\* the coroutine's flags, the requests in flight and the answer under way fit
\* together.
THEOREM Invariance == Spec => []IInv
  BY InitInvariant, StepInvariant, PTL DEF Spec

\* The connection's state keeps its shape.
THEOREM Typing == Spec => []TypeOK
<1>1. IInv => TypeOK
  BY DEF IInv
<1> QED
  BY <1>1, Invariance, PTL

\* The sendfile64 loop of handle_http hangs the server for no page but a
\* replaced one, and for no range but an empty one or one that starts past the
\* end.
THEOREM OddRangesSpinOnly == Spec => []OnlyOddRangesSpin
<1>1. ASSUME IInv
      PROVE  OnlyOddRangesSpin
  <2>1. SUFFICES ASSUME Spinning, ~replaced
                 PROVE  job.first > job.size \/ LastByte(job) < job.first
    BY DEF OnlyOddRangesSpin
  <2>2. job \in Request /\ off \in Nat /\ now \in Nat /\ Paging
    BY <1>1 DEF IInv, Checked, TypeOK
  <2>3. job.size \in Nat /\ job.first \in Nat /\ LastByte(job) \in Int
    BY <2>2, Asked
  <2>4. now = job.size /\ (off <= now \/ job.first > job.size)
    BY <2>1, <2>2 DEF Paging
  <2>5. off # job.size /\ (Length(job) = 0 \/ off >= now)
    BY <2>1 DEF Spinning
  <2>6. CASE off >= now
    BY <2>2, <2>3, <2>4, <2>5, <2>6
  <2>7. CASE Length(job) = 0
    <3>1. CASE job.kind = "range"
      BY <2>3, <2>7, <3>1 DEF Length
    <3>2. CASE job.kind # "range"
      BY <2>2, <2>3, <2>4, <2>5, <2>7, <3>2 DEF Length
    <3> QED
      BY <3>1, <3>2
  <2> QED
    BY <2>5, <2>6, <2>7
<1> QED
  BY <1>1, Invariance, PTL

\* A client that stays is closed on only if it asked for that, sent a range
\* that runs backwards, or a segment that is no request, or if an alarm finds
\* an entry that no event has renewed: whatever end of decide_action, of
\* handle_http or of the timer's branch closes the socket.
THEOREM ClosesForCause == Spec => []ClosedForCause
<1>1. IInv => ClosedForCause
  BY DEF IInv, Checked, Caused
<1> QED
  BY <1>1, Invariance, PTL

\* However many requests a client sends ahead, and whichever of decide_action
\* and handle_http reads them, none is answered twice -- but for those that
\* arrive in two segments and those that parse_http_request throws over, which
\* the code does answer again.
THEOREM UnaskedNever == Spec => []NeverUnasked
<1>1. IInv => NeverUnasked
  BY DEF IInv, Checked, Unanswered
<1> QED
  BY <1>1, Invariance, PTL

\* What a careful client reads is, for every request it sent on the connection,
\* one header and exactly the bytes that header announces, in their places.
THEOREM FramedAlways == Spec => []Framed
<1>1. IInv => Framed
  BY DEF IInv, Checked, Answering
<1> QED
  BY <1>1, Invariance, PTL
=============================================================================
