---------------------------- MODULE UploadProofs ----------------------------
(***************************************************************************)
(* Proofs about Upload, for every set of sizes, every MAXARRSZ and NUMSTOP *)
(* and every window, with alarms of the timer at any time.                 *)
(*                                                                         *)
(* The bytes of the file are in three places at once, the disk, the buffer *)
(* and the socket; NothingLost says that together they are what was sent.  *)
(* It is inductive only with the protocol around it: one upload is asked   *)
(* for, its coroutine is resumed until it has an outcome, and only a       *)
(* client that has sent everything sends something else.                   *)
(***************************************************************************)
EXTENDS Upload, BytesProofs

Active == code /\ outcome = "none" /\ server # "closed"

\* The receive buffer has room for what a client sends next.
Room ==
    /\ client # "asked" => Len(rcv) <= Window
    /\ client = "start" => rcv = <<>> /\ request = <<>>

\* One upload is asked for, and it is started once.
AskedOnce ==
    /\ code => /\ \A i \in 1..Len(rcv) : rcv[i] # FileRequest
               /\ \A i \in 1..Len(request) : request[i] # FileRequest
    /\ ~code => /\ client \in {"start", "code", "aborted"}
                /\ sent = 0
                /\ outcome = "none"
                /\ file = <<>> /\ buf = <<>>
    /\ client = "start" => ~code

\* The coroutine of the upload runs, or waits to be resumed, until it has an
\* outcome.
Resumable ==
    /\ server \in {"small", "large"} => code /\ outcome = "none"
    /\ server = "small" => size < Max
    /\ server = "large" => size >= Max
    /\ server = "decide" => ~awaiting
    /\ awaiting => code /\ outcome = "none"
    /\ Active => \/ server \in {"small", "large"}
                 \/ server \in {"wait", "dispatch"} /\ awaiting

\* What the counters of the two paths say about the file.
Counted ==
    /\ outcome = "none" /\ size < Max => file = <<>> /\ (Len(buf) < size \/ buf = <<>>)
    /\ Active /\ size >= Max => written = Len(file) + Len(buf) /\ written < size

\* A client that does something else has sent all of the file.
AllSent ==
    server # "closed" /\ client \in {"sent", "asked", "closed"} => sent = size

Protocol == Room /\ AskedOnce /\ Resumable /\ Counted /\ AllSent

------------------------------------------------------------------------------
(* The tokens. *)

LEMMA Tokens ==
  /\ FileRequest \in Token /\ GetRequest \in Token /\ Zero \in Token
  /\ \A i \in Nat \ {0} : Data(i) \in Token
  /\ FileRequest # GetRequest
  /\ \A i \in Nat \ {0} : Data(i) # FileRequest /\ Data(i) # GetRequest /\ Data(i) # Zero
  BY DEF Token, FileRequest, GetRequest, Zero, Data

LEMMA SizeIsNat == TypeOK => size \in Nat /\ sent \in 0..size
  BY SizesAssumption DEF TypeOK

LEMMA CountRange ==
  ASSUME TypeOK, NEW room \in Int, Count(room) > 0
  PROVE  Count(room) \in 1..Len(rcv) /\ Count(room) <= room
<1>1. Len(rcv) \in Nat
  BY LenProperties DEF TypeOK
<1>2. /\ Count(room) \in Int /\ Count(room) <= room /\ Count(room) <= Len(rcv)
  BY <1>1, LeastBound DEF Count
<1> QED
  BY <1>1, <1>2

\* What the two reads do, with the number of bytes they take.
Rest(k) == SubSeq(rcv, k + 1, Len(rcv))
Got(k) == Cat(buf, SubSeq(rcv, 1, k))

LEMMA GotProperties ==
  ASSUME TypeOK, NEW k \in 0..Len(rcv)
  PROVE  /\ Got(k) \in Seq(Token) /\ Len(Got(k)) = Len(buf) + k
         /\ Rest(k) \in Seq(Token) /\ Len(Rest(k)) = Len(rcv) - k
         /\ \A i \in 1..Len(Rest(k)) : \E j \in 1..Len(rcv) : Rest(k)[i] = rcv[j]
         /\ Cat(Cat(file, Got(k)), Rest(k)) = Cat(Cat(file, buf), rcv)
<1>1. /\ file \in Seq(Token) /\ buf \in Seq(Token) /\ rcv \in Seq(Token)
  BY DEF TypeOK
<1>2. /\ Cat(Cat(file, Got(k)), Rest(k)) = Cat(Cat(file, buf), rcv)
      /\ Got(k) \in Seq(Token)
      /\ Len(Got(k)) = Len(buf) + k
      /\ Rest(k) \in Seq(Token)
      /\ Len(Rest(k)) = Len(rcv) - k
  <2>1. /\ Cat(Cat(file, Cat(buf, SubSeq(rcv, 1, k))), SubSeq(rcv, k + 1, Len(rcv)))
             = Cat(Cat(file, buf), rcv)
        /\ Cat(buf, SubSeq(rcv, 1, k)) \in Seq(Token)
        /\ Len(Cat(buf, SubSeq(rcv, 1, k))) = Len(buf) + k
    BY <1>1, ReadMoves
  <2>2. /\ SubSeq(rcv, k + 1, Len(rcv)) \in Seq(Token)
        /\ Len(SubSeq(rcv, k + 1, Len(rcv))) = Len(rcv) - k
    BY <1>1, ReadSplits
  <2> QED
    BY <2>1, <2>2 DEF Got, Rest
<1>3. \A i \in 1..(Len(rcv) - k) : Rest(k)[i] = rcv[k + i] /\ k + i \in 1..Len(rcv)
  <2>1. Len(rcv) \in Nat
    BY <1>1, LenProperties
  <2>2. \A i \in 1..(Len(rcv) - k) : Rest(k)[i] = rcv[k + i]
    BY <1>1, ReadSplits DEF Rest
  <2> QED
    BY <2>1, <2>2
<1> QED
  BY <1>2, <1>3

\* An alarm changes nothing, or drops what the coroutine and the socket hold.
LEMMA TickCloses ==
  ASSUME Tick \/ UNCHANGED vars
  PROVE  /\ UNCHANGED <<clientVars, fin, edge, ev, code, request, awaiting, written,
                         file, outcome, answered>>
         /\ \/ UNCHANGED <<server, rcv, buf>>
            \/ /\ server \in {"wait", "dispatch"} /\ server' = "closed"
               /\ rcv' = <<>> /\ buf' = <<>>
  BY DEF Tick, Ages, Expires, vars, clientVars, kernelVars, handlerVars

Ends(f, how) ==
    /\ file' = f /\ outcome' = how
    /\ buf' = <<>> /\ awaiting' = FALSE /\ server' = "wait"

LEMMA EndsType ==
  ASSUME NEW f \in Seq(Token), NEW how \in {"incomplete", "complete"}, Ends(f, how)
  PROVE  /\ file' \in Seq(Token) /\ buf' \in Seq(Token)
         /\ outcome' \in {"none", "failed", "incomplete", "complete"}
         /\ awaiting' \in BOOLEAN
         /\ server' \in {"wait", "dispatch", "decide", "small", "large", "closed"}
<1>1. awaiting' \in BOOLEAN
  BY Zenon DEF Ends
<1>2. file' \in Seq(Token) /\ buf' \in Seq(Token)
  BY DEF Ends
<1> QED
  BY <1>1, <1>2, Zenon DEF Ends

LEMMA SmallReadStep ==
  ASSUME TypeOK, SmallRead
  PROVE  \E k \in 1..Len(rcv) :
           /\ server = "small" /\ size > 0 /\ k <= size - Len(buf)
           /\ rcv' = Rest(k)
           /\ \/ Len(Got(k)) = size /\ Ends(Got(k), "complete")
              \/ /\ Len(Got(k)) # size /\ buf' = Got(k)
                 /\ UNCHANGED <<server, awaiting, file, outcome>>
           /\ UNCHANGED <<clientVars, fin, edge, ev, code, request, written, answered, aged>>
<1> DEFINE k == Count(size - Len(buf))
<1>1. size - Len(buf) \in Int
  BY SizeIsNat, LenProperties DEF TypeOK
<1>2. k \in 1..Len(rcv) /\ k <= size - Len(buf)
  BY <1>1, CountRange DEF SmallRead
<1> QED
  BY <1>2 DEF SmallRead, Rest, Got, Cat, Ends, Store

LEMMA LargeReadStep ==
  ASSUME TypeOK, LargeRead
  PROVE  \E k \in 1..Len(rcv) :
           /\ server = "large"
           /\ rcv' = Rest(k)
           /\ written' = written + k
           /\ \/ written + k >= size /\ Ends(Cat(file, Got(k)), "complete")
              \/ /\ written + k < size
                 /\ file' = Cat(file, Got(k)) /\ buf' = <<>>
                 /\ UNCHANGED <<server, awaiting, outcome>>
              \/ /\ written + k < size
                 /\ buf' = Got(k)
                 /\ UNCHANGED <<server, awaiting, file, outcome>>
           /\ UNCHANGED <<clientVars, fin, edge, ev, code, request, answered, aged>>
<1> DEFINE k == Count(Max - Len(buf))
<1>1. Max - Len(buf) \in Int
  BY BufferAssumption, LenProperties DEF TypeOK
<1>2. k \in 1..Len(rcv)
  BY <1>1, CountRange DEF LargeRead
<1> QED
  BY <1>2 DEF LargeRead, Rest, Got, Cat, Ends, Store, Appended

------------------------------------------------------------------------------
(* Types. *)

LEMMA TypeInit == Init => TypeOK
<1> SUFFICES ASSUME Init
             PROVE  TypeOK
  OBVIOUS
<1>1. sent \in 0..size
  BY SizesAssumption DEF Init
<1>2. <<>> \in Seq(Token) /\ Len(<<>>) <= Window + 1
  BY WindowAssumption
<1> QED
  BY <1>1, <1>2 DEF Init, TypeOK

LEMMA ClientType ==
  ASSUME TypeOK, Room, Client \/ ClientAbort
  PROVE  TypeOK'
<1> USE DEF clientVars, kernelVars, handlerVars
<1>1. CASE ClientRequest
  <2>1. rcv = <<>> /\ rcv' \in {rcv, Append(rcv, FileRequest)}
    BY <1>1 DEF ClientRequest, Arrive, Room
  <2>2. /\ <<>> \in Seq(Token) /\ Len(<<>>) <= Window + 1
        /\ Append(<<>>, FileRequest) \in Seq(Token)
        /\ Len(Append(<<>>, FileRequest)) <= Window + 1
    BY Tokens, WindowAssumption
  <2>3. rcv' \in Seq(Token) /\ Len(rcv') <= Window + 1
    BY <2>1, <2>2
  <2> QED
    BY <1>1, <2>3 DEF TypeOK, ClientRequest, Arrive
<1>2. CASE ClientReadCode
  BY <1>2 DEF TypeOK, ClientReadCode
<1>3. CASE ClientSend
  <2>1. sent + 1 \in 0..size /\ Data(sent + 1) \in Token
    BY <1>3, Tokens, SizeIsNat DEF ClientSend
  <2>2. rcv' = Append(rcv, Data(sent + 1))
    BY <1>3 DEF ClientSend, Arrive
  <2>3. rcv' \in Seq(Token) /\ Len(rcv') <= Window + 1
    BY <1>3, <2>1, <2>2, AppendProperties, LenProperties, WindowAssumption DEF TypeOK, ClientSend
  <2> QED
    BY <1>3, <2>1, <2>3 DEF TypeOK, ClientSend, Arrive
<1>4. CASE ClientSent
  BY <1>4 DEF TypeOK, ClientSent
<1>5. CASE ClientAsk
  <2>1. rcv' \in {rcv, Append(rcv, GetRequest)}
    BY <1>5 DEF ClientAsk, Arrive
  <2>2. rcv \in Seq(Token) /\ Len(rcv) \in Nat /\ Len(rcv) <= Window
    BY <1>5, LenProperties DEF TypeOK, ClientAsk, Room
  <2>3. Append(rcv, GetRequest) \in Seq(Token) /\ Len(Append(rcv, GetRequest)) = Len(rcv) + 1
    BY <2>2, Tokens, AppendProperties
  <2>4. rcv' \in Seq(Token) /\ Len(rcv') <= Window + 1
    BY <2>1, <2>2, <2>3, WindowAssumption
  <2> QED
    BY <1>5, <2>4 DEF TypeOK, ClientAsk, Arrive
<1>6. CASE ClientClose \/ ClientAbort
  BY <1>6 DEF TypeOK, ClientClose, ClientAbort, Leave
<1> QED
  BY <1>1, <1>2, <1>3, <1>4, <1>5, <1>6 DEF Client

LEMMA SessionType ==
  ASSUME TypeOK,
         \/ EpollWait \/ Disconnect \/ Dispatch \/ DecideRead \/ StartUpload
         \/ StartUploadFails \/ AnswerGet \/ UnknownRequest
         \/ SmallYield \/ LargeYield
  PROVE  TypeOK'
<1> USE DEF clientVars, kernelVars, handlerVars
<1>1. CASE EpollWait
  BY <1>1 DEF TypeOK, EpollWait, Mask
<1>2. CASE Disconnect
  BY <1>2, WindowAssumption DEF TypeOK, Disconnect
<1>3. CASE Dispatch
  BY <1>3 DEF TypeOK, Dispatch
<1>4. CASE DecideRead
  <2>1. request \o rcv \in Seq(Token)
    BY ConcatProperties DEF TypeOK
  <2> QED
    BY <1>4, <2>1, WindowAssumption DEF TypeOK, DecideRead
<1>5. CASE StartUpload
  BY <1>5 DEF TypeOK, StartUpload, Decide
<1>6. CASE StartUploadFails
  BY <1>6 DEF TypeOK, StartUploadFails, Decide
<1>7. CASE AnswerGet
  BY <1>7 DEF TypeOK, AnswerGet, Decide
<1>8. CASE UnknownRequest
  BY <1>8 DEF TypeOK, UnknownRequest
<1>9. CASE SmallYield \/ LargeYield
  BY <1>9 DEF TypeOK, SmallYield, LargeYield, Yield
<1> QED
  BY <1>1, <1>2, <1>3, <1>4, <1>5, <1>6, <1>7, <1>8, <1>9

LEMMA FillingType ==
  ASSUME TypeOK, Counted, Resumable,
         SmallRead \/ SmallEnd \/ SmallEmpty \/ LargeRead \/ LargeEnd
  PROVE  TypeOK'
<1> USE DEF clientVars, kernelVars
<1>1. CASE SmallRead
  <2>1. PICK k \in 1..Len(rcv) :
           /\ rcv' = Rest(k)
           /\ \/ Ends(Got(k), "complete")
              \/ buf' = Got(k) /\ UNCHANGED <<server, awaiting, file, outcome>>
           /\ UNCHANGED <<clientVars, fin, edge, ev, code, request, written, answered, aged>>
    BY <1>1, SmallReadStep
  <2>2. Got(k) \in Seq(Token) /\ Rest(k) \in Seq(Token) /\ Len(Rest(k)) = Len(rcv) - k
    BY GotProperties, LenProperties DEF TypeOK
  <2>3. Len(Rest(k)) <= Window + 1
    BY <2>2, LenProperties, WindowAssumption DEF TypeOK
  <2>4. CASE Ends(Got(k), "complete")
    <3>1. /\ file' \in Seq(Token) /\ buf' \in Seq(Token)
          /\ outcome' \in {"none", "failed", "incomplete", "complete"}
          /\ awaiting' \in BOOLEAN
          /\ server' \in {"wait", "dispatch", "decide", "small", "large", "closed"}
      BY <2>2, <2>4, EndsType
    <3>2. rcv' \in Seq(Token) /\ Len(rcv') <= Window + 1
      BY <2>1, <2>2, <2>3
    <3>3. UNCHANGED <<clientVars, fin, edge, ev, code, request, written, answered, aged>>
      BY <2>1
    <3> QED
      BY <3>1, <3>2, <3>3 DEF TypeOK
  <2>5. CASE buf' = Got(k) /\ UNCHANGED <<server, awaiting, file, outcome>>
    BY <2>1, <2>2, <2>3, <2>5 DEF TypeOK
  <2> QED
    BY <2>1, <2>4, <2>5
<1>2. CASE SmallEnd
  <2>1. size - Len(buf) \in Nat
    BY <1>2, SizeIsNat, LenProperties DEF TypeOK, SmallEnd, Counted, Resumable
  <2>2. buf \o Zeros(size - Len(buf)) \in Seq(Token)
    BY <2>1, ZerosProperties, Tokens, ConcatProperties DEF TypeOK
  <2> QED
    BY <1>2, <2>2 DEF TypeOK, SmallEnd, Store
<1>3. CASE SmallEmpty
  BY <1>3 DEF TypeOK, SmallEmpty
<1>4. CASE LargeRead
  <2>1. PICK k \in 1..Len(rcv) :
           /\ rcv' = Rest(k)
           /\ written' = written + k
           /\ \/ Ends(Cat(file, Got(k)), "complete")
              \/ /\ file' = Cat(file, Got(k)) /\ buf' = <<>>
                 /\ UNCHANGED <<server, awaiting, outcome>>
              \/ buf' = Got(k) /\ UNCHANGED <<server, awaiting, file, outcome>>
           /\ UNCHANGED <<clientVars, fin, edge, ev, code, request, answered, aged>>
    BY <1>4, LargeReadStep
  <2>2. Got(k) \in Seq(Token) /\ Rest(k) \in Seq(Token) /\ Len(Rest(k)) = Len(rcv) - k
    BY GotProperties, LenProperties DEF TypeOK
  <2>3. Len(Rest(k)) <= Window + 1
    BY <2>2, LenProperties, WindowAssumption DEF TypeOK
  <2>4. Cat(file, Got(k)) \in Seq(Token)
    BY <2>2, CatProperties DEF TypeOK
  <2>5. written + k \in Nat
    BY LenProperties DEF TypeOK
  <2>6. CASE Ends(Cat(file, Got(k)), "complete")
    <3>1. /\ file' \in Seq(Token) /\ buf' \in Seq(Token)
          /\ outcome' \in {"none", "failed", "incomplete", "complete"}
          /\ awaiting' \in BOOLEAN
          /\ server' \in {"wait", "dispatch", "decide", "small", "large", "closed"}
      BY <2>4, <2>6, EndsType
    <3>2. rcv' \in Seq(Token) /\ Len(rcv') <= Window + 1 /\ written' \in Nat
      BY <2>1, <2>2, <2>3, <2>5
    <3>3. UNCHANGED <<clientVars, fin, edge, ev, code, request, answered, aged>>
      BY <2>1
    <3> QED
      BY <3>1, <3>2, <3>3 DEF TypeOK
  <2>7. CASE /\ file' = Cat(file, Got(k)) /\ buf' = <<>>
             /\ UNCHANGED <<server, awaiting, outcome>>
    BY <2>1, <2>2, <2>3, <2>4, <2>5, <2>7 DEF TypeOK
  <2>8. CASE buf' = Got(k) /\ UNCHANGED <<server, awaiting, file, outcome>>
    BY <2>1, <2>2, <2>3, <2>5, <2>8 DEF TypeOK
  <2> QED
    BY <2>1, <2>6, <2>7, <2>8
<1>5. CASE LargeEnd
  <2>1. file \o buf \in Seq(Token)
    BY ConcatProperties DEF TypeOK
  <2> QED
    BY <1>5, <2>1 DEF TypeOK, LargeEnd, Store, Appended
<1> QED
  BY <1>1, <1>2, <1>3, <1>4, <1>5

LEMMA TypeNext ==
  ASSUME TypeOK, Protocol, [Next]_vars
  PROVE  TypeOK'
<1>1. CASE Tick \/ UNCHANGED vars
  <2>1. aged' \in BOOLEAN
    BY <1>1 DEF TypeOK, Tick, Ages, Expires, vars
  <2>2. /\ UNCHANGED <<size, after, client, sent, fin, edge, ev, code, request, awaiting,
                        written, file, outcome, answered>>
        /\ server' \in {server, "closed"}
        /\ rcv' = rcv \/ rcv' = <<>>
        /\ buf' = buf \/ buf' = <<>>
    BY <1>1, TickCloses DEF clientVars
  <2>3. <<>> \in Seq(Token) /\ Len(<<>>) <= Window + 1
    BY WindowAssumption
  <2>4. rcv' \in Seq(Token) /\ Len(rcv') <= Window + 1 /\ buf' \in Seq(Token)
    BY <2>2, <2>3 DEF TypeOK
  <2> QED
    BY <2>1, <2>2, <2>4 DEF TypeOK
<1> QED
  BY <1>1, ClientType, SessionType, FillingType DEF Protocol, Next, Server

------------------------------------------------------------------------------
(* The protocol around the bytes. *)

LEMMA ProtocolInit == Init => Protocol
<1> SUFFICES ASSUME Init
             PROVE  Protocol
  OBVIOUS
<1>1. Len(rcv) = 0
  BY DEF Init
<1>2. Room /\ AskedOnce
  BY <1>1, WindowAssumption DEF Init, Room, AskedOnce
<1>3. Resumable /\ AllSent /\ ~code
  BY Zenon DEF Init, Resumable, AllSent, Active
<1>4. Counted
  BY <1>3 DEF Init, Counted, Active
<1> QED
  BY <1>2, <1>3, <1>4 DEF Protocol

\* What waits in the socket and in the request after a step of the server was
\* there before.
LEMMA ServerTakes ==
  ASSUME TypeOK, Server
  PROVE  /\ UNCHANGED clientVars
         /\ Len(rcv') <= Len(rcv)
         /\ \A i \in 1..Len(rcv') : \E j \in 1..Len(rcv) : rcv'[i] = rcv[j]
         /\ rcv = <<>> /\ request = <<>> => rcv' = <<>> /\ request' = <<>>
         /\ \A i \in 1..Len(request') :
              \/ \E j \in 1..Len(request) : request'[i] = request[j]
              \/ \E j \in 1..Len(rcv) : request'[i] = rcv[j]
<1> DEFINE Fewer == /\ Len(rcv') <= Len(rcv)
                    /\ \A i \in 1..Len(rcv') : \E j \in 1..Len(rcv) : rcv'[i] = rcv[j]
                    /\ rcv = <<>> => rcv' = <<>>
<1>1. Len(rcv) \in Nat /\ Len(request) \in Nat
  BY LenProperties DEF TypeOK
<1>2. rcv' = rcv \/ rcv' = <<>> => Fewer
  BY <1>1
<1>3. ASSUME NEW k \in 1..Len(rcv), rcv' = Rest(k)
      PROVE  Fewer
  <2>1. k \in 0..Len(rcv) /\ rcv # <<>>
    BY <1>1
  <2>2. /\ Len(Rest(k)) = Len(rcv) - k
        /\ \A i \in 1..Len(Rest(k)) : \E j \in 1..Len(rcv) : Rest(k)[i] = rcv[j]
    BY <2>1, GotProperties
  <2> QED
    BY <1>1, <1>3, <2>1, <2>2
<1> HIDE DEF Fewer
<1>4. CASE EpollWait \/ Disconnect \/ Dispatch \/ SmallYield \/ SmallEnd \/ SmallEmpty
             \/ LargeYield \/ LargeEnd \/ StartUpload \/ StartUploadFails \/ AnswerGet
             \/ UnknownRequest
  <2> USE DEF kernelVars, handlerVars
  <2>1. /\ UNCHANGED clientVars
        /\ rcv' = rcv \/ rcv' = <<>>
        /\ request' = request \/ request' = <<>>
    <3>1. CASE EpollWait \/ Disconnect \/ Dispatch
      BY <3>1 DEF EpollWait, Disconnect, Dispatch
    <3>2. CASE SmallYield \/ LargeYield
      BY <3>2 DEF SmallYield, LargeYield, Yield
    <3>3. CASE SmallEnd \/ SmallEmpty \/ LargeEnd
      BY <3>3 DEF SmallEnd, SmallEmpty, LargeEnd
    <3>4. CASE StartUpload \/ StartUploadFails \/ AnswerGet \/ UnknownRequest
      BY <3>4 DEF StartUpload, StartUploadFails, AnswerGet, UnknownRequest, Decide
    <3> QED
      BY <1>4, <3>1, <3>2, <3>3, <3>4
  <2> QED
    BY <1>1, <1>2, <2>1 DEF Fewer
<1>5. CASE DecideRead
  <2>1. UNCHANGED clientVars /\ rcv' = <<>> /\ request' = request \o rcv
    BY <1>5 DEF DecideRead
  <2>2. /\ Len(request') = Len(request) + Len(rcv)
        /\ \A i \in 1..Len(request') :
             request'[i] = IF i <= Len(request) THEN request[i] ELSE rcv[i - Len(request)]
    BY <2>1, ConcatProperties DEF TypeOK
  <2>3. rcv = <<>> /\ request = <<>> => request' = <<>>
    BY <2>1
  <2> QED
    BY <1>1, <1>2, <2>1, <2>2, <2>3 DEF Fewer
<1>6. CASE SmallRead \/ LargeRead
  <2>1. UNCHANGED clientVars /\ UNCHANGED request
    BY <1>6 DEF SmallRead, LargeRead
  <2>2. \E k \in 1..Len(rcv) : rcv' = Rest(k)
    BY <1>6, SmallReadStep, LargeReadStep
  <2> QED
    BY <1>1, <1>3, <2>1, <2>2 DEF Fewer
<1> QED
  BY <1>4, <1>5, <1>6 DEF Server

LEMMA RoomNext ==
  ASSUME TypeOK, TypeOK', Room, [Next]_vars
  PROVE  Room'
<1>1. Len(rcv) \in Nat /\ Len(rcv') \in Nat
  BY LenProperties DEF TypeOK
<1>2. CASE Server
  <2>1. /\ UNCHANGED clientVars /\ Len(rcv') <= Len(rcv)
        /\ rcv = <<>> /\ request = <<>> => rcv' = <<>> /\ request' = <<>>
    BY <1>2, ServerTakes
  <2> QED
    BY <1>1, <2>1, WindowAssumption DEF Room, clientVars
<1>3. CASE ClientRequest
  <2>1. rcv' \in {<<>>, Append(<<>>, FileRequest)} /\ client' = "code"
    BY <1>3 DEF ClientRequest, Arrive, Room
  <2>2. Len(<<>>) <= Window /\ Len(Append(<<>>, FileRequest)) <= Window
    BY WindowAssumption
  <2> QED
    BY <2>1, <2>2 DEF Room
<1>4. CASE ClientSend
  <2>1. rcv' = Append(rcv, Data(sent + 1)) /\ Len(rcv) < Window /\ client' = "sending"
    BY <1>4 DEF ClientSend, Arrive
  <2>2. Len(rcv') = Len(rcv) + 1
    BY <2>1 DEF TypeOK
  <2> QED
    BY <1>1, <2>1, <2>2, WindowAssumption DEF Room
<1>5. CASE ClientAsk
  BY <1>5 DEF ClientAsk, Room
<1>6. CASE ClientReadCode \/ ClientSent \/ ClientClose \/ ClientAbort \/ UNCHANGED vars
  <2>1. /\ UNCHANGED <<rcv, request>>
        /\ client # "asked" => client' # "asked"
        /\ client' \in {"start", "asked"} => client' = client
    BY <1>6 DEF vars, clientVars, kernelVars, handlerVars, ClientReadCode, ClientSent,
                ClientClose, ClientAbort, Leave
  <2>2. ClientReadCode \/ ClientSent \/ ClientClose \/ ClientAbort => client # "asked"
    BY DEF ClientReadCode, ClientSent, ClientClose, ClientAbort
  <2> QED
    BY <1>6, <2>1, <2>2 DEF Room, vars, clientVars
<1>7. CASE Tick
  <2>1. UNCHANGED <<clientVars, request>> /\ (rcv' = rcv \/ rcv' = <<>>)
    BY <1>7, TickCloses
  <2>2. Len(<<>>) <= Window
    BY WindowAssumption
  <2> QED
    BY <2>1, <2>2 DEF Room, clientVars
<1> QED
  BY <1>2, <1>3, <1>4, <1>5, <1>6, <1>7 DEF Next, Client

LEMMA AskedOnceNext ==
  ASSUME TypeOK, TypeOK', Room, AskedOnce, Resumable, [Next]_vars
  PROVE  AskedOnce'
<1>1. Len(rcv) \in Nat /\ Len(rcv') \in Nat /\ Len(request) \in Nat
  BY LenProperties DEF TypeOK
<1> DEFINE Unasked(q) == \A i \in 1..Len(q) : q[i] # FileRequest
<1>2. CASE Server /\ code
  <2>1. code' /\ UNCHANGED clientVars
    BY <1>2, ServerTakes DEF Server, EpollWait, Disconnect, Dispatch, DecideRead, StartUpload,
       StartUploadFails, AnswerGet, UnknownRequest, SmallRead, SmallYield, SmallEnd, SmallEmpty,
       LargeRead, LargeYield, LargeEnd, Yield, handlerVars
  <2>2. Unasked(rcv) /\ Unasked(request)
    BY <1>2 DEF AskedOnce
  <2>3. Unasked(rcv') /\ Unasked(request')
    BY <1>2, <2>2, ServerTakes
  <2> QED
    BY <1>2, <2>1, <2>3 DEF AskedOnce, clientVars
<1>3. CASE Server /\ ~code
  <2>1. UNCHANGED clientVars
    BY <1>3, ServerTakes
  <2>2. CASE StartUpload \/ StartUploadFails
    <3>1. rcv' = <<>> /\ request' = <<>> /\ code'
      BY <2>2 DEF StartUpload, StartUploadFails, Decide, kernelVars
    <3>2. client # "start"
      BY <2>2 DEF StartUpload, StartUploadFails, Decide, Room
    <3> QED
      BY <2>1, <3>1, <3>2 DEF AskedOnce, clientVars
  <2>3. CASE EpollWait \/ Disconnect \/ Dispatch \/ DecideRead \/ AnswerGet \/ UnknownRequest
                \/ SmallYield \/ LargeYield
    <3>1. ~code' /\ outcome' = outcome /\ file' = file /\ (buf' = buf \/ buf' = <<>>)
      BY <1>3, <2>3 DEF EpollWait, Disconnect, Dispatch, DecideRead, AnswerGet, UnknownRequest,
                  SmallYield, LargeYield, Yield, handlerVars
    <3> QED
      BY <1>3, <2>1, <3>1 DEF AskedOnce, clientVars
  <2>4. server \notin {"small", "large"}
    BY <1>3 DEF Resumable
  <2> QED
    BY <1>3, <2>2, <2>3, <2>4 DEF Server, SmallRead, SmallEnd, SmallEmpty, LargeRead, LargeEnd
<1>4. CASE ClientRequest
  BY <1>4 DEF ClientRequest, handlerVars, AskedOnce
<1>5. CASE ClientReadCode
  BY <1>5 DEF ClientReadCode, handlerVars, kernelVars, AskedOnce
<1>6. CASE ClientSend \/ ClientAsk
  <2>1. \E x \in Token : x # FileRequest /\ rcv' \in {rcv, Append(rcv, x)}
    BY <1>6, Tokens, SizeIsNat DEF ClientSend, ClientAsk, Arrive
  <2>2. code /\ code' /\ UNCHANGED request /\ client' # "start"
    BY <1>6 DEF ClientSend, ClientAsk, AskedOnce, handlerVars
  <2>3. PICK x \in Token : x # FileRequest /\ rcv' \in {rcv, Append(rcv, x)}
    BY <2>1
  <2>4. Unasked(rcv) /\ Unasked(request)
    BY <2>2 DEF AskedOnce
  <2>5. Unasked(Append(rcv, x))
    <3>1. rcv \in Seq(Token)
      BY <1>1 DEF TypeOK
    <3> QED
      BY <2>3, <2>4, <3>1, AppendProperties
  <2>6. Unasked(rcv') /\ Unasked(request')
    BY <2>2, <2>3, <2>4, <2>5
  <2> QED
    BY <2>2, <2>6 DEF AskedOnce
<1>7. CASE ClientSent \/ ClientClose \/ ClientAbort \/ UNCHANGED vars
  <2>1. /\ UNCHANGED <<rcv, request, code, sent, outcome, file, buf>>
        /\ \/ client' = client
           \/ client' = "aborted"
           \/ client \in {"sending", "sent"} /\ client' # "start"
    BY <1>7 DEF vars, clientVars, kernelVars, handlerVars, ClientSent, ClientClose,
                ClientAbort, Leave
  <2> QED
    BY <2>1 DEF AskedOnce
<1>8. CASE Tick
  <2>1. /\ UNCHANGED <<clientVars, request, code, outcome, file>>
        /\ rcv' = rcv \/ rcv' = <<>>
        /\ buf' = buf \/ buf' = <<>>
    BY <1>8, TickCloses
  <2>2. Len(<<>>) = 0
    OBVIOUS
  <2> QED
    BY <2>1, <2>2 DEF AskedOnce, clientVars
<1> QED
  BY <1>2, <1>3, <1>4, <1>5, <1>6, <1>7, <1>8 DEF Next, Client

\* The only FileRequest is the one that starts the upload.
LEMMA StartsOnce ==
  ASSUME TypeOK, AskedOnce, Decide(FileRequest)
  PROVE  ~code /\ outcome = "none" /\ file = <<>> /\ buf = <<>> /\ sent = 0
<1>1. request \in Seq(Token) /\ request # <<>> /\ Head(request) = FileRequest
  BY DEF TypeOK, Decide
<1>2. 1 \in 1..Len(request) /\ request[1] = FileRequest
  BY <1>1
<1> QED
  BY <1>2 DEF AskedOnce

LEMMA ClientLeaves ==
  ASSUME Client \/ ClientAbort
  PROVE  UNCHANGED <<server, handlerVars, size>>
  BY DEF Client, ClientRequest, ClientReadCode, ClientSend, ClientSent, ClientAsk, ClientClose,
         ClientAbort, Leave, clientVars, kernelVars

LEMMA ResumableNext ==
  ASSUME TypeOK, AskedOnce, Resumable, [Next]_vars
  PROVE  Resumable'
<1> USE DEF clientVars, kernelVars, handlerVars
<1>1. CASE Client \/ ClientAbort \/ UNCHANGED vars
  <2>1. UNCHANGED <<server, code, awaiting, outcome, size>>
    BY <1>1, ClientLeaves DEF vars
  <2> QED
    BY <2>1 DEF Resumable, Active
<1>2. CASE EpollWait
  BY <1>2 DEF EpollWait, Resumable, Active
<1>3. CASE Disconnect
  BY <1>3 DEF Disconnect, Resumable, Active
<1>4. CASE Dispatch
  BY <1>4, SizeIsNat, BufferAssumption DEF Dispatch, Resumable, Active
<1>5. CASE DecideRead
  BY <1>5 DEF DecideRead, Resumable, Active
<1>6. CASE StartUpload
  <2>1. outcome = "none"
    BY <1>6, StartsOnce DEF StartUpload
  <2>2. ~awaiting
    BY <1>6 DEF StartUpload, Decide, Resumable
  <2> QED
    BY <1>6, <2>1, <2>2, SizeIsNat, BufferAssumption DEF StartUpload, Resumable, Active
<1>7. CASE StartUploadFails
  BY <1>7 DEF StartUploadFails, Decide, Resumable, Active
<1>8. CASE AnswerGet
  BY <1>8 DEF AnswerGet, Decide, Resumable, Active
<1>9. CASE UnknownRequest
  BY <1>9 DEF UnknownRequest, Resumable, Active
<1>10. CASE SmallRead
  BY <1>10, SmallReadStep DEF Ends, Resumable, Active
<1>11. CASE SmallYield \/ LargeYield
  BY <1>11 DEF SmallYield, LargeYield, Yield, Resumable, Active
<1>12. CASE SmallEnd \/ LargeEnd
  BY <1>12 DEF SmallEnd, LargeEnd, Store, Resumable, Active
<1>13. CASE SmallEmpty
  BY <1>13 DEF SmallEmpty, Resumable, Active
<1>14. CASE LargeRead
  BY <1>14, LargeReadStep DEF Ends, Resumable, Active
<1>15. CASE Tick
  <2>1. /\ UNCHANGED <<size, code, awaiting, outcome>>
        /\ server' = server \/ (server # "closed" /\ server' = "closed")
    BY <1>15, TickCloses
  <2> QED
    BY <2>1 DEF Resumable, Active
<1> QED
  BY <1>1, <1>2, <1>3, <1>4, <1>5, <1>6, <1>7, <1>8, <1>9, <1>10, <1>11, <1>12, <1>13, <1>14,
     <1>15
  DEF Next, Server

LEMMA AllSentNext ==
  ASSUME AllSent, Resumable, [Next]_vars
  PROVE  AllSent'
<1> USE DEF clientVars, kernelVars, handlerVars
<1>1. CASE Client \/ ClientAbort
  BY <1>1 DEF AllSent, Client, ClientRequest, ClientReadCode, ClientSend, ClientSent, ClientAsk,
              ClientClose, ClientAbort, Leave
<1>2. CASE Server
  <2>1. UNCHANGED clientVars
    BY <1>2 DEF Server, EpollWait, Disconnect, Dispatch, DecideRead, StartUpload,
       StartUploadFails, AnswerGet, UnknownRequest, SmallRead, SmallYield, SmallEnd, SmallEmpty,
       LargeRead, LargeYield, LargeEnd, Yield
  <2>2. server # "closed"
    BY <1>2 DEF Server, EpollWait, Disconnect, Dispatch, DecideRead, StartUpload,
       StartUploadFails, AnswerGet, UnknownRequest, SmallRead, SmallYield, SmallEnd, SmallEmpty,
       LargeRead, LargeYield, LargeEnd, Yield, Decide
  <2> QED
    BY <2>1, <2>2 DEF AllSent
<1>3. CASE Tick \/ UNCHANGED vars
  <2>1. UNCHANGED clientVars /\ (server' = server \/ server' = "closed")
    BY <1>3, TickCloses
  <2> QED
    BY <2>1 DEF AllSent
<1> QED
  BY <1>1, <1>2, <1>3 DEF Next

LEMMA CountedNext ==
  ASSUME TypeOK, TypeOK', AskedOnce, Resumable, Counted, [Next]_vars
  PROVE  Counted'
<1> USE DEF clientVars, kernelVars, handlerVars
<1>1. CASE Client \/ ClientAbort \/ UNCHANGED vars
  <2>1. UNCHANGED <<server, code, written, buf, file, outcome, size>>
    BY <1>1, ClientLeaves DEF vars
  <2> QED
    BY <2>1 DEF Counted, Active
<1>2. CASE EpollWait \/ Disconnect \/ Dispatch \/ DecideRead \/ AnswerGet
             \/ UnknownRequest \/ SmallYield \/ LargeYield
  <2>1. /\ UNCHANGED <<size, code, written, file, outcome>>
        /\ buf' = buf \/ (buf' = <<>> /\ server' = "closed")
        /\ server' = "closed" \/ server # "closed"
    BY <1>2 DEF EpollWait, Disconnect, Dispatch, DecideRead, AnswerGet, Decide,
       UnknownRequest, SmallYield, LargeYield, Yield
  <2> QED
    BY <2>1 DEF Counted, Active
<1>3. CASE StartUpload
  <2>1. file' = <<>> /\ buf' = <<>> /\ written' = 0 /\ Len(<<>>) = 0 /\ size' = size
    BY <1>3 DEF StartUpload
  <2>2. size' >= Max => 0 < size'
    BY <2>1, SizeIsNat, BufferAssumption
  <2> QED
    BY <2>1, <2>2 DEF Counted, Active
<1>4. CASE StartUploadFails \/ SmallEnd \/ SmallEmpty \/ LargeEnd
  BY <1>4 DEF StartUploadFails, SmallEnd, SmallEmpty, LargeEnd, Store, Counted, Active
<1>5. CASE SmallRead
  <2>1. PICK k \in 1..Len(rcv) :
           /\ server = "small" /\ size > 0 /\ k <= size - Len(buf)
           /\ \/ Len(Got(k)) = size /\ Ends(Got(k), "complete")
              \/ /\ Len(Got(k)) # size /\ buf' = Got(k)
                 /\ UNCHANGED <<server, awaiting, file, outcome>>
           /\ UNCHANGED size
    BY <1>5, SmallReadStep
  <2>2. size < Max /\ outcome = "none" /\ size \in Nat /\ Max \in Nat
    BY <2>1, SizeIsNat, BufferAssumption DEF Resumable
  <2>3. Len(Got(k)) = Len(buf) + k /\ Len(buf) \in Nat /\ Len(rcv) \in Nat
    BY GotProperties, LenProperties DEF TypeOK
  <2> QED
    BY <2>1, <2>2, <2>3 DEF Counted, Active, Ends
<1>6. CASE LargeRead
  <2>1. PICK k \in 1..Len(rcv) :
           /\ server = "large"
           /\ written' = written + k
           /\ \/ written + k >= size /\ Ends(Cat(file, Got(k)), "complete")
              \/ /\ written + k < size
                 /\ file' = Cat(file, Got(k)) /\ buf' = <<>>
                 /\ UNCHANGED <<server, awaiting, outcome>>
              \/ /\ written + k < size
                 /\ buf' = Got(k)
                 /\ UNCHANGED <<server, awaiting, file, outcome>>
           /\ UNCHANGED <<size, code>>
    BY <1>6, LargeReadStep
  <2>2. /\ size >= Max /\ Active /\ size \in Nat /\ Max \in Nat
        /\ written = Len(file) + Len(buf)
    BY <2>1, SizeIsNat, BufferAssumption DEF Resumable, Counted, Active
  <2>3. /\ Len(Got(k)) = Len(buf) + k /\ Got(k) \in Seq(Token)
        /\ Len(buf) \in Nat /\ Len(rcv) \in Nat /\ Len(file) \in Nat
    BY GotProperties, LenProperties DEF TypeOK
  <2>4. Len(Cat(file, Got(k))) = Len(file) + Len(Got(k)) /\ Len(<<>>) = 0
    BY <2>3, CatProperties DEF TypeOK
  <2> QED
    BY <2>1, <2>2, <2>3, <2>4 DEF Counted, Active, Ends
<1>7. CASE Tick
  <2>1. /\ UNCHANGED <<size, code, written, file, outcome>>
        /\ UNCHANGED <<server, buf>> \/ (server' = "closed" /\ buf' = <<>>)
    BY <1>7, TickCloses
  <2> QED
    BY <2>1 DEF Counted, Active
<1> QED
  BY <1>1, <1>2, <1>3, <1>4, <1>5, <1>6, <1>7 DEF Next, Server

------------------------------------------------------------------------------
(* NothingLost. *)

Stream == Cat(Cat(file, buf), rcv)
Followed == IF client = "asked" THEN <<GetRequest>> ELSE <<>>
Handed == Cat(Prefix(sent), Followed)

LEMMA HandedType ==
  ASSUME TypeOK
  PROVE  /\ Prefix(sent) \in Seq(Token) /\ Len(Prefix(sent)) = sent /\ sent \in Nat
         /\ \A i \in 1..sent : Prefix(sent)[i] = Data(i)
         /\ Followed \in Seq(Token)
         /\ Len(Followed) = IF client = "asked" THEN 1 ELSE 0
<1>1. sent \in Nat /\ \A i \in 1..sent : Data(i) \in Token
  BY SizeIsNat, Tokens
<1>2. Followed \in Seq(Token) /\ Len(Followed) = IF client = "asked" THEN 1 ELSE 0
  BY Tokens DEF Followed
<1> QED
  BY <1>1, <1>2, PrefixProperties

LEMMA NothingLostAsStream ==
  ASSUME TypeOK
  PROVE  NothingLost <=> (Active => Stream = Handed)
<1>1. SubSeq(Content, 1, sent) = Prefix(sent)
  BY SizeIsNat, FrontOfPrefix DEF Content
<1> QED
  BY <1>1 DEF NothingLost, Active, Stream, Handed, Followed, Cat

\* A step that reads moves the stream along; one that starts or ends the
\* upload has nothing to keep or leaves nothing to be kept.
LEMMA StreamNext ==
  ASSUME TypeOK, TypeOK', Protocol, Active => Stream = Handed, [Next]_vars
  PROVE  Active' => Stream' = Handed'
<1> USE DEF clientVars, kernelVars, handlerVars
<1> SUFFICES ASSUME Active'
             PROVE  Stream' = Handed'
  OBVIOUS
<1>1. CASE UNCHANGED <<file, buf, rcv, sent>> /\ client # "asked" /\ client' # "asked" /\ Active
  <2>1. UNCHANGED Stream /\ UNCHANGED Handed
    BY <1>1 DEF Stream, Handed, Followed
  <2> QED
    BY <1>1, <2>1
<1>2. CASE ClientRequest
  BY <1>2, ClientLeaves DEF ClientRequest, Protocol, AskedOnce, Active, Client
<1>3. CASE ClientReadCode \/ ClientSent \/ ClientClose \/ ClientAbort
  <2>1. Active
    BY <1>3, ClientLeaves DEF Active, Client
  <2> QED
    BY <1>1, <1>3, <2>1 DEF ClientReadCode, ClientSent, ClientClose, ClientAbort, Leave
<1>4. CASE ClientSend
  <2>1. Active /\ Stream = Handed /\ server # "closed"
    BY <1>4, ClientLeaves DEF Active, Client
  <2>2. /\ rcv' = Append(rcv, Data(sent + 1)) /\ sent' = sent + 1
        /\ UNCHANGED <<file, buf, client>> /\ client = "sending"
    BY <1>4 DEF ClientSend, Arrive
  <2>3. Data(sent + 1) \in Token /\ sent \in Nat
    BY SizeIsNat, Tokens
  <2>4. Cat(file, buf) \in Seq(Token) /\ rcv \in Seq(Token)
    BY CatProperties DEF TypeOK
  <2>5. Stream' = Append(Stream, Data(sent + 1))
    BY <2>2, <2>3, <2>4, ArrivalAppends DEF Stream
  <2>6. Prefix(sent) \in Seq(Token) /\ Prefix(sent + 1) \in Seq(Token)
    <3>1. \A i \in 1..(sent + 1) : Data(i) \in Token
      BY <2>3, Tokens
    <3> QED
      BY <2>3, <3>1, PrefixProperties
  <2>7. Handed = Prefix(sent) /\ Handed' = Prefix(sent + 1)
    BY <2>2, <2>6, CatEmpty DEF Handed, Followed
  <2> QED
    BY <2>1, <2>3, <2>5, <2>7, PrefixGrows
<1>5. CASE ClientAsk
  <2>1. Active /\ Stream = Handed /\ server # "closed"
    BY <1>5, ClientLeaves DEF Active, Client
  <2>2. /\ rcv' = Append(rcv, GetRequest) /\ client = "sent" /\ client' = "asked"
        /\ UNCHANGED <<file, buf, sent>>
    BY <1>5, <2>1 DEF ClientAsk, Arrive
  <2>3. Cat(file, buf) \in Seq(Token) /\ rcv \in Seq(Token) /\ GetRequest \in Token
    BY CatProperties, Tokens DEF TypeOK
  <2>4. Stream' = Append(Stream, GetRequest)
    BY <2>2, <2>3, ArrivalAppends DEF Stream
  <2>5. Prefix(sent) \in Seq(Token)
    BY HandedType
  <2>6. Handed = Prefix(sent)
    BY <2>2, <2>5, CatEmpty DEF Handed, Followed
  <2>7. Handed' = Append(Prefix(sent), GetRequest)
    BY <2>2, <2>3, <2>5, AppendIsConcat DEF Handed, Followed, Cat
  <2> QED
    BY <2>1, <2>4, <2>6, <2>7
<1>6. CASE EpollWait \/ Dispatch \/ SmallYield \/ LargeYield \/ UNCHANGED vars
  <2>1. UNCHANGED <<file, buf, rcv, sent, client>> /\ Active
    BY <1>6 DEF EpollWait, Dispatch, SmallYield, LargeYield, Yield, Active, vars
  <2> QED
    BY <2>1 DEF Stream, Handed, Followed
<1>7. CASE DecideRead \/ AnswerGet
  <2>1. Active /\ server = "decide"
    BY <1>7 DEF DecideRead, AnswerGet, Decide, Active
  <2> QED
    BY <2>1 DEF Protocol, Resumable
<1>8. CASE StartUpload
  <2>1. sent = 0 /\ client # "asked" /\ ~code
    BY <1>8, StartsOnce DEF StartUpload, Protocol, AskedOnce
  <2>2. /\ rcv' = <<>> /\ file' = <<>> /\ buf' = <<>>
        /\ sent' = 0 /\ client' # "asked"
    BY <1>8, <2>1 DEF StartUpload, Decide
  <2>3. Stream' = <<>> /\ Handed' = <<>>
    BY <2>2, PrefixOfNothing DEF Stream, Handed, Followed, Cat
  <2> QED
    BY <2>3
<1>9. CASE Disconnect \/ StartUploadFails \/ UnknownRequest \/ SmallEnd \/ SmallEmpty \/ LargeEnd
  BY <1>9 DEF Disconnect, StartUploadFails, UnknownRequest, SmallEnd, SmallEmpty, LargeEnd,
              Store, Active
<1>10. CASE SmallRead
  <2>1. PICK k \in 1..Len(rcv) :
          /\ server = "small"
          /\ rcv' = Rest(k)
          /\ \/ Ends(Got(k), "complete")
             \/ buf' = Got(k) /\ UNCHANGED file
          /\ UNCHANGED <<sent, client, code>>
    BY <1>10, SmallReadStep
  <2>2. Stream = Handed
    BY <2>1 DEF Protocol, Resumable, Active
  <2>3. buf' = Got(k) /\ file' = file
    BY <2>1 DEF Active, Ends
  <2>4. Cat(Cat(file, Got(k)), Rest(k)) = Stream
    BY GotProperties, LenProperties DEF Stream, TypeOK
  <2> QED
    BY <2>1, <2>2, <2>3, <2>4 DEF Stream, Handed, Followed
<1>11. CASE LargeRead
  <2>1. PICK k \in 1..Len(rcv) :
          /\ server = "large"
          /\ rcv' = Rest(k)
          /\ \/ Ends(Cat(file, Got(k)), "complete")
             \/ file' = Cat(file, Got(k)) /\ buf' = <<>>
             \/ buf' = Got(k) /\ UNCHANGED file
          /\ UNCHANGED <<sent, client, code>>
    BY <1>11, LargeReadStep
  <2>2. Stream = Handed
    BY <2>1 DEF Protocol, Resumable, Active
  <2>3. Cat(Cat(file, Got(k)), Rest(k)) = Stream
    BY GotProperties, LenProperties DEF Stream, TypeOK
  <2>4. Cat(file, Got(k)) \in Seq(Token)
    <3>1. Got(k) \in Seq(Token)
      BY GotProperties, LenProperties DEF TypeOK
    <3> QED
      BY <3>1, CatProperties DEF TypeOK
  <2>5. CASE file' = Cat(file, Got(k)) /\ buf' = <<>>
    <3>1. Cat(file', buf') = Cat(file, Got(k))
      BY <2>4, <2>5, CatEmpty
    <3> QED
      BY <2>1, <2>2, <2>3, <3>1 DEF Stream, Handed, Followed
  <2>6. CASE buf' = Got(k) /\ UNCHANGED file
    BY <2>1, <2>2, <2>3, <2>6 DEF Stream, Handed, Followed
  <2> QED
    BY <2>1, <2>5, <2>6 DEF Active, Ends
<1>12. CASE Tick
  <2>1. UNCHANGED <<file, buf, rcv, sent, client>>
    BY <1>12, TickCloses DEF Active
  <2>2. Active
    BY <1>12, TickCloses DEF Active
  <2> QED
    BY <2>1, <2>2 DEF Stream, Handed, Followed
<1> QED
  BY <1>2, <1>3, <1>4, <1>5, <1>6, <1>7, <1>8, <1>9, <1>10, <1>11, <1>12
  DEF Next, Client, Server

LEMMA NothingLostNext ==
  ASSUME TypeOK, TypeOK', Protocol, NothingLost, [Next]_vars
  PROVE  NothingLost'
<1>1. Active => Stream = Handed
  BY NothingLostAsStream
<1>2. Active' => Stream' = Handed'
  BY <1>1, StreamNext
<1>3. (NothingLost <=> (Active => Stream = Handed))'
  BY NothingLostAsStream, PTL
<1> QED
  BY <1>2, <1>3

------------------------------------------------------------------------------
(* What a step does to the file, given all that: four kinds. *)

Unmoved ==
    /\ UNCHANGED <<size, file, outcome>>
    /\ sent' \in sent..size

Grows ==
    /\ outcome = "none" /\ size >= Max
    /\ \E n \in Len(file)..sent : file' = Prefix(n)
    /\ UNCHANGED <<size, sent, outcome>>

Succeeds ==
    /\ outcome = "none" /\ outcome' = "complete"
    /\ sent = size
    /\ file' \in Seq(Token)
    /\ Len(file') >= size /\ SubSeq(file', 1, size) = Prefix(size)
    /\ size < Max => file' = Prefix(size)
    /\ UNCHANGED <<size, sent>>

BreaksOff ==
    /\ outcome = "none" /\ outcome' \in {"incomplete", "failed"}
    /\ \E n \in Len(file)..sent :
         \/ file' = Prefix(n)
         \/ /\ file' = Cat(Prefix(n), Zeros(size - n))
            /\ size < Max /\ outcome' = "incomplete"
    /\ UNCHANGED <<size, sent>>

\* The front of the stream is the front of the file, up to the file's size.
LEMMA StreamFront ==
  ASSUME TypeOK, Protocol, NothingLost, Active,
         NEW p \in Seq(Token), NEW q \in Seq(Token), Cat(p, q) = Stream
  PROVE  /\ Len(p) <= size => p = Prefix(Len(p)) /\ Len(p) <= sent
         /\ Len(p) >= size => sent = size /\ SubSeq(p, 1, size) = Prefix(size)
<1>1. Cat(p, q) = Handed
  BY NothingLostAsStream
<1>2. /\ size \in Nat /\ sent \in 0..size
      /\ client = "asked" => sent = size
  BY SizeIsNat DEF Protocol, AllSent, Active
<1>3. /\ Len(Handed) = sent + (IF client = "asked" THEN 1 ELSE 0)
      /\ \A i \in 1..sent : Handed[i] = Data(i)
  <2>1. /\ Prefix(sent) \in Seq(Token) /\ Len(Prefix(sent)) = sent /\ sent \in Nat
        /\ \A i \in 1..sent : Prefix(sent)[i] = Data(i)
        /\ Followed \in Seq(Token)
        /\ Len(Followed) = IF client = "asked" THEN 1 ELSE 0
    BY HandedType
  <2>2. /\ Len(Handed) = Len(Prefix(sent)) + Len(Followed)
        /\ \A i \in 1..Len(Prefix(sent)) : Handed[i] = Prefix(sent)[i]
    BY <2>1, CatProperties DEF Handed
  <2> QED
    BY <2>1, <2>2
<1>4. /\ Len(p) \in Nat /\ Len(q) \in Nat
      /\ Len(Handed) = Len(p) + Len(q)
      /\ \A i \in 1..Len(p) : Handed[i] = p[i]
  BY <1>1, CatProperties
<1>5. \A i \in 1..Len(p) : i <= size => i <= sent /\ p[i] = Data(i)
  BY <1>2, <1>3, <1>4
<1>6. ASSUME Len(p) <= size
      PROVE  p = Prefix(Len(p)) /\ Len(p) <= sent
  <2>1. \A i \in 1..Len(p) : p[i] = Data(i)
    BY <1>2, <1>4, <1>5, <1>6
  <2>2. Len(p) <= sent
    BY <1>2, <1>3, <1>4, <1>6
  <2> QED
    BY <2>1, <2>2, InPlaceIsPrefix
<1>7. ASSUME Len(p) >= size
      PROVE  sent = size /\ SubSeq(p, 1, size) = Prefix(size)
  <2>1. sent = size
    BY <1>2, <1>3, <1>4, <1>7
  <2>2. /\ SubSeq(p, 1, size) \in Seq(Token) /\ Len(SubSeq(p, 1, size)) = size
        /\ \A i \in 1..size : SubSeq(p, 1, size)[i] = p[i]
    BY <1>2, <1>4, <1>7, ReadSplits
  <2> DEFINE front == SubSeq(p, 1, size)
  <2>3. front \in Seq(Token) /\ Len(front) = size /\ \A i \in 1..Len(front) : front[i] = Data(i)
    BY <1>2, <1>4, <1>5, <1>7, <2>2
  <2> HIDE DEF front
  <2>4. front = Prefix(size)
    BY <2>3, InPlaceIsPrefix
  <2> QED
    BY <2>1, <2>4 DEF front
<1> QED
  BY <1>6, <1>7

LEMMA SmallReadKind ==
  ASSUME TypeOK, Protocol, NothingLost, SmallRead
  PROVE  Unmoved \/ Succeeds
<1>1. PICK k \in 1..Len(rcv) :
        /\ server = "small"
        /\ \/ Len(Got(k)) = size /\ Ends(Got(k), "complete")
           \/ UNCHANGED <<file, outcome>>
        /\ UNCHANGED clientVars
  BY SmallReadStep
<1>2. Active /\ outcome = "none" /\ size < Max /\ size \in Nat /\ file = <<>>
  BY <1>1, SizeIsNat DEF Protocol, Resumable, Active, Counted
<1>3. CASE UNCHANGED <<file, outcome>>
  BY <1>1, <1>3, SizeIsNat DEF Unmoved, clientVars
<1>4. CASE Len(Got(k)) = size /\ Ends(Got(k), "complete")
  <2>1. k \in 0..Len(rcv)
    BY LenProperties DEF TypeOK
  <2>2. /\ Got(k) \in Seq(Token) /\ Rest(k) \in Seq(Token)
        /\ Cat(Cat(file, Got(k)), Rest(k)) = Stream
    BY <2>1, GotProperties DEF Stream
  <2>3. Cat(file, Got(k)) = Got(k)
    BY <1>2, <2>2, CatEmpty
  <2>4. /\ Got(k) = Prefix(Len(Got(k)))
        /\ sent = size /\ SubSeq(Got(k), 1, size) = Prefix(size)
    BY <1>2, <1>4, <2>2, <2>3, StreamFront
  <2>5. file' = Got(k) /\ outcome' = "complete" /\ UNCHANGED <<size, sent>>
    BY <1>1, <1>4 DEF Ends, clientVars
  <2> QED
    BY <1>2, <1>4, <2>2, <2>4, <2>5 DEF Succeeds
<1> QED
  BY <1>1, <1>3, <1>4

LEMMA LargeReadKind ==
  ASSUME TypeOK, Protocol, NothingLost, LargeRead
  PROVE  Unmoved \/ Grows \/ Succeeds
<1>1. PICK k \in 1..Len(rcv) :
        /\ server = "large"
        /\ \/ written + k >= size /\ Ends(Cat(file, Got(k)), "complete")
           \/ /\ written + k < size
              /\ file' = Cat(file, Got(k)) /\ UNCHANGED outcome
           \/ UNCHANGED <<file, outcome>>
        /\ UNCHANGED clientVars
  BY LargeReadStep
<1>2. /\ Active /\ outcome = "none" /\ size >= Max /\ size \in Nat /\ Max \in Nat
      /\ written = Len(file) + Len(buf)
  BY <1>1, SizeIsNat, BufferAssumption DEF Protocol, Resumable, Active, Counted
<1> DEFINE p == Cat(file, Got(k))
<1>3. k \in 0..Len(rcv) /\ Len(file) \in Nat /\ Len(buf) \in Nat
  BY LenProperties DEF TypeOK
<1>4. /\ Got(k) \in Seq(Token) /\ Rest(k) \in Seq(Token)
      /\ Len(Got(k)) = Len(buf) + k
      /\ Cat(p, Rest(k)) = Stream
  BY <1>3, GotProperties DEF Stream
<1>5. p \in Seq(Token) /\ Len(p) = written + k /\ Len(p) \in Nat /\ Len(p) >= Len(file)
  <2>1. Cat(file, Got(k)) \in Seq(Token) /\ Len(Cat(file, Got(k))) = Len(file) + Len(Got(k))
    BY <1>4, CatProperties DEF TypeOK
  <2> QED
    BY <1>2, <1>3, <1>4, <2>1
<1> HIDE DEF p
<1>6. /\ Len(p) <= size => p = Prefix(Len(p)) /\ Len(p) <= sent
      /\ Len(p) >= size => sent = size /\ SubSeq(p, 1, size) = Prefix(size)
  BY <1>2, <1>4, <1>5, StreamFront
<1>7. CASE UNCHANGED <<file, outcome>>
  BY <1>1, <1>7, SizeIsNat DEF Unmoved, clientVars
<1>8. CASE written + k < size /\ file' = p /\ UNCHANGED outcome
  BY <1>1, <1>2, <1>3, <1>5, <1>6, <1>8, SizeIsNat DEF Grows, clientVars
<1>9. CASE written + k >= size /\ Ends(p, "complete")
  <2>1. file' = p /\ outcome' = "complete" /\ UNCHANGED <<size, sent>>
    BY <1>1, <1>9 DEF Ends, clientVars
  <2> QED
    BY <1>2, <1>5, <1>6, <1>9, <2>1 DEF Succeeds
<1> QED
  BY <1>1, <1>7, <1>8, <1>9 DEF p

\* A handler that meets the end of the stream has everything that was sent in
\* its buffer and on the disk.
LEMMA EndKind ==
  ASSUME TypeOK, Protocol, NothingLost, SmallEnd \/ LargeEnd
  PROVE  BreaksOff
<1>1. /\ rcv = <<>> /\ outcome' = "incomplete" /\ UNCHANGED <<size, sent>>
      /\ Active /\ outcome = "none"
  BY DEF SmallEnd, LargeEnd, Store, clientVars, Protocol, Resumable, Active
<1>2. /\ file \in Seq(Token) /\ buf \in Seq(Token)
      /\ Len(file) \in Nat /\ Len(buf) \in Nat /\ size \in Nat
  BY SizeIsNat, LenProperties DEF TypeOK
<1> DEFINE p == Cat(file, buf)
<1>3. /\ p \in Seq(Token) /\ Len(p) = Len(file) + Len(buf)
      /\ Cat(p, rcv) = Stream /\ rcv \in Seq(Token)
      /\ file = <<>> => p = buf
  BY <1>2, CatProperties, CatEmpty DEF Stream, TypeOK
<1> HIDE DEF p
<1>4. Len(p) <= size => p = Prefix(Len(p)) /\ Len(p) <= sent
  BY <1>1, <1>3, StreamFront
<1>5. CASE SmallEnd
  <2>1. file = <<>> /\ Len(buf) < size /\ size < Max
    BY <1>1, <1>2, <1>5 DEF SmallEnd, Protocol, Resumable, Counted
  <2>2. buf = Prefix(Len(buf)) /\ Len(buf) <= sent
    BY <1>2, <1>3, <1>4, <2>1
  <2>3. file' = Cat(buf, Zeros(size - Len(buf)))
    BY <1>5 DEF SmallEnd, Store, Cat
  <2>4. Len(file) = 0 /\ Len(buf) \in Len(file)..sent
    BY <1>2, <2>1, <2>2, SizeIsNat
  <2> QED
    BY <1>1, <2>1, <2>2, <2>3, <2>4 DEF BreaksOff
<1>6. CASE LargeEnd
  <2>1. Len(p) < size
    BY <1>1, <1>2, <1>3, <1>6, SizeIsNat, BufferAssumption
    DEF LargeEnd, Protocol, Resumable, Counted
  <2>2. p = Prefix(Len(p)) /\ Len(p) \in Len(file)..sent
    BY <1>2, <1>3, <1>4, <2>1, SizeIsNat
  <2>3. file' = p
    BY <1>6 DEF LargeEnd, Store, Appended, Cat, p
  <2> QED
    BY <1>1, <2>2, <2>3 DEF BreaksOff
<1> QED
  BY <1>5, <1>6

LEMMA StepKinds ==
  ASSUME TypeOK, Protocol, NothingLost, [Next]_vars
  PROVE  Unmoved \/ Grows \/ Succeeds \/ BreaksOff
<1> USE DEF clientVars, kernelVars, handlerVars
<1>1. CASE Client \/ ClientAbort \/ UNCHANGED vars
  <2>1. UNCHANGED <<file, outcome, size>>
    BY <1>1, ClientLeaves DEF vars
  <2>2. sent' = sent \/ (sent' = sent + 1 /\ sent < size)
    BY <1>1 DEF vars, Client, ClientRequest, ClientReadCode, ClientSend, ClientSent, ClientAsk,
                ClientClose, ClientAbort, Leave
  <2> QED
    BY <2>1, <2>2, SizeIsNat DEF Unmoved
<1>2. CASE EpollWait \/ Disconnect \/ Dispatch \/ DecideRead \/ AnswerGet
             \/ UnknownRequest \/ SmallYield \/ LargeYield
  <2>1. UNCHANGED <<size, sent, file, outcome>>
    BY <1>2 DEF EpollWait, Disconnect, Dispatch, DecideRead, AnswerGet, Decide,
       UnknownRequest, SmallYield, LargeYield, Yield
  <2> QED
    BY <2>1, SizeIsNat DEF Unmoved
<1>3. CASE StartUpload
  <2>1. UNCHANGED <<size, sent, file, outcome>>
    BY <1>3, StartsOnce DEF StartUpload, Protocol
  <2> QED
    BY <2>1, SizeIsNat DEF Unmoved
<1>4. CASE StartUploadFails \/ SmallEmpty
  <2>1. /\ outcome = "none" /\ outcome' \in {"incomplete", "failed"}
        /\ file = <<>> /\ UNCHANGED <<size, sent, file>>
    <3>1. CASE StartUploadFails
      BY <3>1, StartsOnce DEF StartUploadFails, Protocol
    <3>2. CASE SmallEmpty
      BY <3>2, SizeIsNat, BufferAssumption DEF SmallEmpty, Protocol, Resumable, Counted
    <3> QED
      BY <1>4, <3>1, <3>2
  <2>2. Len(file) = 0 /\ 0 \in 0..sent /\ file' = Prefix(0)
    BY <2>1, SizeIsNat, PrefixOfNothing
  <2> QED
    BY <2>1, <2>2 DEF BreaksOff
<1>5. CASE Tick
  <2>1. UNCHANGED <<size, sent, file, outcome>>
    BY <1>5, TickCloses
  <2> QED
    BY <2>1, SizeIsNat DEF Unmoved
<1> QED
  BY <1>1, <1>2, <1>3, <1>4, <1>5, SmallReadKind, LargeReadKind, EndKind DEF Next, Server

------------------------------------------------------------------------------
(* StoredWasSent and CompleteIsStored follow from the kinds of steps. *)

LEMMA StoredWasSentNext ==
  ASSUME TypeOK, StoredWasSent, Unmoved \/ Grows \/ Succeeds \/ BreaksOff
  PROVE  StoredWasSent'
<1>1. size \in Nat /\ sent \in 0..size /\ Max \in Nat
  BY SizeIsNat, BufferAssumption
<1>2. \A n \in 0..size : /\ Prefix(n) \in Seq(Token) /\ Len(Prefix(n)) = n
                         /\ \A i \in 1..n : Prefix(n)[i] = Data(i)
  <2> TAKE n \in 0..size
  <2>1. n \in Nat /\ \A i \in 1..n : Data(i) \in Token
    BY <1>1, Tokens
  <2> QED
    BY <2>1, PrefixProperties
<1>3. CASE Unmoved
  BY <1>1, <1>3 DEF Unmoved, StoredWasSent
<1>4. ASSUME NEW n \in 0..sent, file' = Prefix(n), UNCHANGED <<size, sent>>
      PROVE  StoredWasSent'
  BY <1>1, <1>2, <1>4 DEF StoredWasSent
<1>5. CASE Grows
  BY <1>1, <1>4, <1>5, LenProperties DEF Grows, TypeOK
<1>6. CASE Succeeds
  <2>1. CASE size < Max
    BY <1>1, <1>4, <1>6, <2>1 DEF Succeeds
  <2>2. CASE size >= Max
    <3>1. \A i \in 1..size : file'[i] = Data(i)
      <4>1. file' \in Seq(Token) /\ size \in 0..Len(file')
        BY <1>1, <1>6, LenProperties DEF Succeeds
      <4>2. \A i \in 1..size : SubSeq(file', 1, size)[i] = file'[i]
        BY <4>1, ReadSplits
      <4> QED
        BY <1>1, <1>2, <1>6, <4>2 DEF Succeeds
    <3> QED
      BY <1>1, <1>6, <2>2, <3>1, LenProperties DEF Succeeds, StoredWasSent
  <2> QED
    BY <1>1, <2>1, <2>2
<1>7. CASE BreaksOff
  <2>1. PICK n \in Len(file)..sent :
               \/ file' = Prefix(n)
               \/ /\ file' = Cat(Prefix(n), Zeros(size - n))
                  /\ size < Max /\ outcome' = "incomplete"
    BY <1>7 DEF BreaksOff
  <2>2. n \in 0..sent /\ size - n \in Nat /\ UNCHANGED <<size, sent>>
    BY <1>1, <1>7, LenProperties DEF BreaksOff, TypeOK
  <2>3. CASE file' = Cat(Prefix(n), Zeros(size - n)) /\ size < Max /\ outcome' = "incomplete"
    <3>1. /\ Len(file') = size
          /\ \A i \in 1..n : file'[i] = Data(i)
          /\ \A i \in (n + 1)..size : file'[i] = Zero
      <4>1. n \in 0..size /\ Zero \in Token /\ \A i \in 1..size : Data(i) \in Token
        BY <1>1, <2>2, Tokens
      <4>2. size \in Nat
        BY <1>1
      <4> QED
        BY <2>3, <4>1, <4>2, PaddedProperties
    <3> QED
      BY <1>1, <2>2, <2>3, <3>1 DEF StoredWasSent
  <2> QED
    BY <1>4, <2>1, <2>2, <2>3
<1> QED
  BY <1>3, <1>5, <1>6, <1>7

LEMMA CompleteIsStoredNext ==
  ASSUME CompleteIsStored, Unmoved \/ Grows \/ Succeeds \/ BreaksOff
  PROVE  CompleteIsStored'
<1>1. CASE Unmoved
  BY <1>1 DEF Unmoved, CompleteIsStored, Stored, Content
<1>2. CASE Grows \/ BreaksOff
  BY <1>2 DEF Grows, BreaksOff, CompleteIsStored
<1>3. CASE Succeeds
  BY <1>3 DEF Succeeds, CompleteIsStored, Stored, Content
<1> QED
  BY <1>1, <1>2, <1>3

------------------------------------------------------------------------------
(* The theorems. *)

IInv ==
    /\ TypeOK
    /\ Protocol
    /\ NothingLost
    /\ StoredWasSent
    /\ CompleteIsStored

LEMMA IInvInit == Init => IInv
<1> SUFFICES ASSUME Init
             PROVE  IInv
  OBVIOUS
<1>1. TypeOK /\ Protocol
  BY TypeInit, ProtocolInit
<1>2. file = <<>> /\ Len(file) = 0 /\ ~code /\ outcome = "none"
  BY DEF Init
<1> QED
  BY <1>1, <1>2 DEF IInv, NothingLost, StoredWasSent, CompleteIsStored

LEMMA IInvNext == IInv /\ [Next]_vars => IInv'
<1> SUFFICES ASSUME IInv, [Next]_vars
             PROVE  IInv'
  OBVIOUS
<1>1. TypeOK /\ Protocol /\ NothingLost /\ StoredWasSent /\ CompleteIsStored
  BY DEF IInv
<1>2. TypeOK'
  BY <1>1, TypeNext
<1>3. Protocol'
  <2>1. Room /\ AskedOnce /\ Resumable /\ Counted /\ AllSent
    BY <1>1 DEF Protocol
  <2>2. Room' /\ AskedOnce'
    BY <1>1, <1>2, <2>1, RoomNext, AskedOnceNext
  <2>3. Resumable' /\ Counted' /\ AllSent'
    BY <1>1, <1>2, <2>1, ResumableNext, CountedNext, AllSentNext
  <2> QED
    BY <2>2, <2>3 DEF Protocol
<1>4. NothingLost'
  BY <1>1, <1>2, NothingLostNext
<1>5. StoredWasSent' /\ CompleteIsStored'
  BY <1>1, StepKinds, StoredWasSentNext, CompleteIsStoredNext
<1> QED
  BY <1>2, <1>3, <1>4, <1>5 DEF IInv

\* The inductive invariant: the bytes on the disk, in the buffer and in the
\* socket are what was handed over, and the protocol around them holds.
THEOREM Invariance == Spec => []IInv
  BY IInvInit, IInvNext, PTL DEF Spec

\* Every variable of the upload keeps its type; in particular the receive
\* buffer never holds more than the window and one request behind it.
THEOREM Typing == Spec => []TypeOK
<1>1. IInv => TypeOK
  BY DEF IInv
<1> QED
  BY <1>1, Invariance, PTL

\* Between sendfile and the disk no byte is lost, repeated or moved, whatever
\* the sizes of the file, of the buffers and of the window.
THEOREM NothingIsLost == Spec => []NothingLost
<1>1. IInv => NothingLost
  BY DEF IInv
<1> QED
  BY <1>1, Invariance, PTL

\* Every byte on disk is the byte that was sent for its place, except for the
\* padding of a small file that broke off and what lies behind a large file.
THEOREM OnlySentIsStored == Spec => []StoredWasSent
<1>1. IInv => StoredWasSent
  BY DEF IInv
<1> QED
  BY <1>1, Invariance, PTL

\* `Success on receiving file' is logged only for a file that is all there.
THEOREM SuccessIsStored == Spec => []CompleteIsStored
<1>1. IInv => CompleteIsStored
  BY DEF IInv
<1> QED
  BY <1>1, Invariance, PTL

LEMMA PromiseInit == Init => Promise!Init
  BY DEF Init, Promise!Init

\* Each kind of step is one action of Delivery.
LEMMA PromiseNext ==
  ASSUME TypeOK, Unmoved \/ Grows \/ Succeeds \/ BreaksOff
  PROVE  Promise!Next
<1>1. \A n \in Int : Promise!Prefix(n) = Prefix(n)
  BY DEF Promise!Prefix, Promise!Data, Prefix, Data
<1>2. \A n \in Int : Promise!Zeros(n) = Zeros(n)
  BY DEF Promise!Zeros, Promise!Zero, Zeros, Zero
<1>3. size \in Nat /\ sent \in 0..size /\ Len(file) \in Nat
  BY SizeIsNat, LenProperties DEF TypeOK
<1>4. CASE Unmoved
  BY <1>4 DEF Unmoved, Promise!Next, Promise!Offer
<1>5. CASE Grows
  <2>1. PICK n \in Len(file)..sent : file' = Prefix(n)
    BY <1>5 DEF Grows
  <2>2. file' = Promise!Prefix(n)
    BY <1>1, <1>3, <2>1
  <2>3. Promise!Extend
    BY <1>5, <2>1, <2>2 DEF Grows, Promise!Extend
  <2> QED
    BY <2>3 DEF Promise!Next
<1>6. CASE Succeeds
  <2>1. SubSeq(file', 1, size) = Promise!Prefix(size)
    BY <1>1, <1>3, <1>6 DEF Succeeds
  <2>2. Promise!Complete
    BY <1>6, <2>1 DEF Succeeds, Promise!Complete
  <2> QED
    BY <2>2 DEF Promise!Next
<1>7. CASE BreaksOff
  <2>1. PICK n \in Len(file)..sent :
               \/ file' = Prefix(n)
               \/ file' = Prefix(n) \o Zeros(size - n)
    BY <1>7 DEF BreaksOff, Cat
  <2>2. Promise!Prefix(n) = Prefix(n) /\ Promise!Zeros(size - n) = Zeros(size - n)
    BY <1>1, <1>2, <1>3
  <2>3. Promise!GiveUp
    BY <1>7, <2>1, <2>2 DEF BreaksOff, Promise!GiveUp
  <2> QED
    BY <2>3 DEF Promise!Next
<1> QED
  BY <1>4, <1>5, <1>6, <1>7

\* What a client and the server do with a file, one system call a step,
\* implements the Delivery of that file.
THEOREM UploadDelivers == Spec => Delivers
<1>1. IInv /\ [Next]_vars => [Promise!Next]_(Promise!vars)
  BY StepKinds, PromiseNext DEF IInv
<1> QED
  BY <1>1, Invariance, PromiseInit, PTL DEF Spec, Delivers, Promise!Spec

------------------------------------------------------------------------------
(* The loop does not fall asleep over an upload.  Every arrival is an edge; *)
(* an edge is spent only on a mask that shows what has arrived, and the     *)
(* handler reads on until the socket is empty.                              *)

\* The end of the stream has an edge to come, or is being dispatched.
EndSeen ==
    fin /\ server # "closed" => edge \/ (server = "dispatch" /\ "HUP" \in ev)

\* What is unread while the loop waits has an edge to come; the exception is
\* what follows a file that has its outcome.
Roused ==
    server = "wait" /\ rcv # <<>> => edge \/ (client = "asked" /\ outcome # "none")

\* The request for the upload is in the socket, or about to be decided.
Requested ==
    client = "code" /\ ~code /\ server # "closed" =>
        \/ rcv = <<FileRequest>> /\ request = <<>>
        \/ rcv = <<>> /\ request = <<FileRequest>> /\ server = "decide"

\* Only an end breaks an upload off, and an empty file never waits.
Grounded ==
    /\ outcome = "incomplete" => fin \/ server = "closed"
    /\ awaiting => size > 0

Attended == EndSeen /\ Roused /\ Requested /\ Grounded

LEMMA AttendedInit == Init => Attended
  BY DEF Init, Attended, EndSeen, Roused, Requested, Grounded

LEMMA EndSeenNext ==
  ASSUME EndSeen, [Next]_vars
  PROVE  EndSeen'
<1> USE DEF clientVars, kernelVars, handlerVars
<1>1. CASE Client \/ ClientAbort
  <2>1. \/ edge'
        \/ UNCHANGED <<fin, edge, ev, server>>
    BY <1>1 DEF Client, ClientRequest, ClientReadCode, ClientSend, ClientSent, ClientAsk,
                ClientClose, ClientAbort, Leave, Arrive
  <2> QED
    BY <2>1 DEF EndSeen
<1>2. CASE EpollWait
  BY <1>2 DEF EpollWait, Mask, EndSeen
<1>3. CASE Disconnect
  BY <1>3 DEF Disconnect, EndSeen
<1>4. CASE Server /\ ~EpollWait /\ ~Disconnect
  <2>1. /\ UNCHANGED <<fin, edge>>
        /\ server # "closed"
        /\ server = "dispatch" => "HUP" \notin ev
    BY <1>4 DEF Server, Dispatch, DecideRead, StartUpload, StartUploadFails, AnswerGet,
                UnknownRequest, SmallRead, SmallYield, SmallEnd, SmallEmpty, LargeRead,
                LargeYield, LargeEnd, Yield, Decide
  <2> QED
    BY <2>1 DEF EndSeen
<1>5. CASE Tick \/ UNCHANGED vars
  <2>1. UNCHANGED <<fin, edge, ev>> /\ (server' = server \/ server' = "closed")
    BY <1>5, TickCloses
  <2> QED
    BY <2>1 DEF EndSeen
<1> QED
  BY <1>1, <1>2, <1>3, <1>4, <1>5 DEF Next

\* The read that completes the file leaves nothing unread, unless the client
\* has asked for something else behind it.
LEMMA NothingBehind ==
  ASSUME TypeOK, Protocol, NothingLost, Active, NEW k \in 1..Len(rcv), client # "asked",
         Len(file) + Len(buf) + k >= size
  PROVE  Rest(k) = <<>>
<1>1. k \in 0..Len(rcv) /\ Len(rcv) \in Nat /\ Len(file) \in Nat /\ Len(buf) \in Nat
  BY LenProperties DEF TypeOK
<1>2. Rest(k) \in Seq(Token) /\ Len(Rest(k)) = Len(rcv) - k
  BY <1>1, GotProperties
<1>3. Len(Stream) = Len(file) + Len(buf) + Len(rcv)
  <2>1. Cat(file, buf) \in Seq(Token) /\ Len(Cat(file, buf)) = Len(file) + Len(buf)
    BY CatProperties DEF TypeOK
  <2>2. Len(Cat(Cat(file, buf), rcv)) = Len(Cat(file, buf)) + Len(rcv)
    BY <2>1, CatProperties DEF TypeOK
  <2> QED
    BY <2>1, <2>2 DEF Stream
<1>4. Len(Handed) = sent
  <2>1. /\ Prefix(sent) \in Seq(Token) /\ Len(Prefix(sent)) = sent
        /\ Followed \in Seq(Token) /\ Len(Followed) = 0 /\ sent \in Nat
    BY HandedType
  <2>2. Len(Handed) = Len(Prefix(sent)) + Len(Followed)
    BY <2>1, CatProperties DEF Handed
  <2> QED
    BY <2>1, <2>2
<1>5. Stream = Handed /\ sent \in 0..size /\ size \in Nat
  BY NothingLostAsStream, SizeIsNat
<1>6. Len(Rest(k)) = 0
  BY <1>1, <1>2, <1>3, <1>4, <1>5, LenProperties
<1> QED
  BY <1>2, <1>6, EmptySeq

LEMMA RousedNext ==
  ASSUME TypeOK, Protocol, NothingLost, Roused, [Next]_vars
  PROVE  Roused'
<1> USE DEF clientVars, kernelVars, handlerVars
<1>1. CASE Client \/ ClientAbort
  <2>1. \/ edge'
        \/ UNCHANGED <<rcv, edge, server, outcome>> /\ client # "asked"
    BY <1>1 DEF Client, ClientRequest, ClientReadCode, ClientSend, ClientSent, ClientAsk,
                ClientClose, ClientAbort, Leave, Arrive
  <2> QED
    BY <2>1 DEF Roused
<1>2. CASE EpollWait \/ Disconnect \/ Dispatch \/ DecideRead \/ StartUpload \/ UnknownRequest
             \/ SmallEmpty
  <2>1. server' # "wait"
    BY <1>2, SizeIsNat DEF EpollWait, Disconnect, Dispatch, DecideRead, StartUpload,
       UnknownRequest, SmallEmpty, Decide
  <2> QED
    BY <2>1 DEF Roused
<1>3. CASE StartUploadFails \/ AnswerGet \/ SmallYield \/ LargeYield \/ SmallEnd \/ LargeEnd
  <2>1. rcv' = <<>>
    BY <1>3 DEF StartUploadFails, AnswerGet, Decide, SmallYield, LargeYield, Yield, SmallEnd,
                LargeEnd
  <2> QED
    BY <2>1 DEF Roused
<1>4. CASE SmallRead
  <2>1. PICK k \in 1..Len(rcv) :
          /\ server = "small"
          /\ rcv' = Rest(k)
          /\ \/ Len(Got(k)) = size /\ Ends(Got(k), "complete")
             \/ UNCHANGED server
          /\ UNCHANGED <<client, edge>>
    BY <1>4, SmallReadStep
  <2>2. Active /\ file = <<>>
    BY <2>1 DEF Protocol, Resumable, Counted, Active
  <2>3. Len(Got(k)) = Len(buf) + k /\ Len(file) = 0
    BY <2>2, GotProperties, LenProperties DEF TypeOK
  <2>4. CASE Len(Got(k)) = size /\ Ends(Got(k), "complete")
    <3>1. client # "asked" => Rest(k) = <<>>
      <4>1. Len(file) + Len(buf) + k >= size
        BY <2>3, <2>4, SizeIsNat, LenProperties DEF TypeOK
      <4> QED
        BY <2>2, <4>1, NothingBehind
    <3> QED
      BY <2>1, <2>4, <3>1 DEF Roused, Ends
  <2> QED
    BY <2>1, <2>4 DEF Roused
<1>5. CASE LargeRead
  <2>1. PICK k \in 1..Len(rcv) :
          /\ server = "large"
          /\ rcv' = Rest(k)
          /\ \/ written + k >= size /\ Ends(Cat(file, Got(k)), "complete")
             \/ UNCHANGED server
          /\ UNCHANGED <<client, edge>>
    BY <1>5, LargeReadStep
  <2>2. Active /\ written = Len(file) + Len(buf)
    BY <2>1 DEF Protocol, Resumable, Counted, Active
  <2>3. CASE written + k >= size /\ Ends(Cat(file, Got(k)), "complete")
    <3>1. client # "asked" => Rest(k) = <<>>
      BY <2>2, <2>3, NothingBehind
    <3> QED
      BY <2>1, <2>3, <3>1 DEF Roused, Ends
  <2> QED
    BY <2>1, <2>3 DEF Roused
<1>6. CASE Tick \/ UNCHANGED vars
  <2>1. /\ UNCHANGED <<client, edge, outcome>>
        /\ UNCHANGED <<server, rcv>> \/ server' = "closed"
    BY <1>6, TickCloses
  <2> QED
    BY <2>1 DEF Roused
<1> QED
  BY <1>1, <1>2, <1>3, <1>4, <1>5, <1>6 DEF Next, Server

LEMMA RequestedNext ==
  ASSUME TypeOK, Protocol, Requested, [Next]_vars
  PROVE  Requested'
<1> USE DEF clientVars, kernelVars, handlerVars
<1>1. CASE ClientRequest
  <2>1. /\ rcv = <<>> /\ request' = <<>>
        /\ server' # "closed" => rcv' = Append(<<>>, FileRequest)
    BY <1>1 DEF ClientRequest, Arrive, Protocol, Room
  <2>2. Append(<<>>, FileRequest) = <<FileRequest>>
    OBVIOUS
  <2> QED
    BY <2>1, <2>2 DEF Requested
<1>2. CASE (Client /\ ~ClientRequest) \/ ClientAbort
  <2>1. client' # "code"
    BY <1>2 DEF Client, ClientReadCode, ClientSend, ClientSent, ClientAsk, ClientClose,
                ClientAbort, Leave
  <2> QED
    BY <2>1 DEF Requested
<1>3. CASE EpollWait \/ Dispatch
  <2>1. UNCHANGED <<client, code, rcv, request>> /\ server \in {"wait", "dispatch"}
    BY <1>3 DEF EpollWait, Dispatch
  <2> QED
    BY <2>1 DEF Requested
<1>4. CASE DecideRead
  <2>1. /\ UNCHANGED <<client, code, server>> /\ rcv # <<>> /\ server = "decide"
        /\ rcv' = <<>> /\ request' = request \o rcv
    BY <1>4 DEF DecideRead
  <2>2. <<>> \o <<FileRequest>> = <<FileRequest>>
    OBVIOUS
  <2> QED
    BY <2>1, <2>2 DEF Requested
<1>5. CASE StartUpload \/ StartUploadFails
  BY <1>5 DEF StartUpload, StartUploadFails, Requested
<1>6. CASE AnswerGet
  <2>1. rcv = <<>> /\ request # <<FileRequest>> /\ server # "closed"
        /\ UNCHANGED <<client, code>>
    BY <1>6, Tokens DEF AnswerGet, Decide
  <2>2. rcv # <<FileRequest>>
    BY <2>1
  <2> QED
    BY <2>1, <2>2 DEF Requested
<1>7. CASE Disconnect \/ UnknownRequest \/ SmallEmpty
  BY <1>7 DEF Disconnect, UnknownRequest, SmallEmpty, Requested
<1>8. CASE SmallRead \/ SmallYield \/ SmallEnd \/ LargeRead \/ LargeYield \/ LargeEnd
  <2>1. code'
    BY <1>8 DEF SmallRead, SmallYield, SmallEnd, LargeRead, LargeYield, LargeEnd, Yield,
                Protocol, Resumable
  <2> QED
    BY <2>1 DEF Requested
<1>9. CASE Tick \/ UNCHANGED vars
  <2>1. /\ UNCHANGED <<client, code, request>>
        /\ UNCHANGED <<server, rcv>> \/ server' = "closed"
    BY <1>9, TickCloses
  <2> QED
    BY <2>1 DEF Requested
<1> QED
  BY <1>1, <1>2, <1>3, <1>4, <1>5, <1>6, <1>7, <1>8, <1>9 DEF Next, Server

LEMMA GroundedNext ==
  ASSUME TypeOK, Protocol, Grounded, [Next]_vars
  PROVE  Grounded'
<1> USE DEF clientVars, kernelVars, handlerVars
<1>1. CASE Client \/ ClientAbort
  <2>1. UNCHANGED <<server, outcome, awaiting, size>> /\ (fin => fin')
    BY <1>1, ClientLeaves DEF Client, ClientRequest, ClientReadCode, ClientSend, ClientSent,
       ClientAsk, ClientClose, ClientAbort, Leave, Arrive
  <2> QED
    BY <2>1 DEF Grounded
<1>2. CASE EpollWait \/ Disconnect \/ Dispatch \/ DecideRead \/ AnswerGet \/ UnknownRequest
             \/ StartUpload
  <2>1. UNCHANGED <<fin, outcome, awaiting, size>> /\ server # "closed"
    BY <1>2 DEF EpollWait, Disconnect, Dispatch, DecideRead, AnswerGet, UnknownRequest,
                StartUpload, Decide
  <2> QED
    BY <2>1 DEF Grounded
<1>3. CASE StartUploadFails
  BY <1>3 DEF StartUploadFails, Grounded
<1>4. CASE SmallYield \/ LargeYield
  <2>1. /\ UNCHANGED <<fin, outcome, size>> /\ server # "closed"
        /\ size > 0
    BY <1>4, SizeIsNat, BufferAssumption
    DEF SmallYield, LargeYield, Yield, Protocol, Resumable
  <2> QED
    BY <2>1 DEF Grounded
<1>5. CASE SmallEnd \/ LargeEnd \/ SmallEmpty
  BY <1>5 DEF SmallEnd, LargeEnd, SmallEmpty, Store, Grounded
<1>6. CASE SmallRead \/ LargeRead
  <2>1. /\ UNCHANGED <<fin, size>>
        /\ \/ outcome' = "complete" /\ awaiting' = FALSE
           \/ UNCHANGED <<outcome, server, awaiting>>
    BY <1>6, SmallReadStep, LargeReadStep DEF Ends
  <2> QED
    BY <2>1 DEF Grounded
<1>7. CASE Tick \/ UNCHANGED vars
  <2>1. /\ UNCHANGED <<fin, outcome, awaiting, size>>
        /\ server' = server \/ server' = "closed"
    BY <1>7, TickCloses
  <2> QED
    BY <2>1 DEF Grounded
<1> QED
  BY <1>1, <1>2, <1>3, <1>4, <1>5, <1>6, <1>7 DEF Next, Server

LEMMA AttendedInvariant == Spec => []Attended
<1>1. IInv /\ Attended /\ [Next]_vars => Attended'
  BY EndSeenNext, RousedNext, RequestedNext, GroundedNext DEF IInv, Attended
<1> QED
  BY <1>1, AttendedInit, Invariance, PTL DEF Spec

\* An upload whose coroutine waits with an empty socket is short of bytes.
LEMMA WaitingIsShort ==
  ASSUME IInv, Attended, Active, server = "wait", rcv = <<>>
  PROVE  sent < size
<1>1. TypeOK /\ Protocol /\ NothingLost
  BY DEF IInv
<1>2. awaiting /\ size > 0 /\ size \in Nat /\ sent \in 0..size
  BY <1>1, SizeIsNat DEF Protocol, Resumable, Attended, Grounded
<1>3. Len(file) \in Nat /\ Len(buf) \in Nat /\ Len(file) + Len(buf) < size
  <2>1. Len(file) \in Nat /\ Len(buf) \in Nat
    BY <1>1, LenProperties DEF TypeOK
  <2>2. CASE size < Max
    <3>1. Len(file) = 0 /\ (Len(buf) < size \/ Len(buf) = 0)
      BY <1>1, <2>2 DEF Protocol, Counted, Active
    <3> QED
      BY <1>2, <2>1, <3>1
  <2>3. CASE size >= Max
    BY <1>1, <2>1, <2>3 DEF Protocol, Counted
  <2> QED
    BY <1>2, <2>1, <2>2, <2>3, BufferAssumption
<1>4. Cat(file, buf) \in Seq(Token) /\ Len(Cat(file, buf)) = Len(file) + Len(buf)
  BY <1>1, CatProperties DEF TypeOK
<1>5. Stream = Cat(file, buf)
  BY <1>4, CatEmpty DEF Stream
<1>6. Len(Handed) >= sent
  <2>1. /\ Prefix(sent) \in Seq(Token) /\ Len(Prefix(sent)) = sent
        /\ Followed \in Seq(Token) /\ Len(Followed) \in Nat /\ sent \in Nat
    BY <1>1, HandedType
  <2>2. Len(Handed) = Len(Prefix(sent)) + Len(Followed)
    BY <2>1, CatProperties DEF Handed
  <2> QED
    BY <2>1, <2>2
<1>7. Stream = Handed
  BY <1>1, NothingLostAsStream
<1> QED
  BY <1>2, <1>3, <1>4, <1>5, <1>6, <1>7

LEMMA BlockedOwesNothing == IInv /\ Attended => BlocksOwingNothing
<1> SUFFICES ASSUME IInv, Attended, server = "wait", ~(edge /\ Mask # {})
             PROVE  /\ ~fin
                    /\ client = "code" => code
                    /\ client # "asked" => rcv = <<>>
                    /\ client \in {"sent", "asked"} => Stored \/ outcome = "failed"
  BY DEF BlocksOwingNothing
<1>1. /\ TypeOK /\ Protocol /\ NothingLost /\ CompleteIsStored
      /\ EndSeen /\ Roused /\ Requested /\ Grounded
  BY DEF IInv, Attended
<1>2. rcv # <<>> \/ fin => ~edge
  BY DEF Mask
<1>3. ~fin
  BY <1>1, <1>2 DEF EndSeen
<1>4. rcv # <<>> => client = "asked" /\ outcome # "none"
  BY <1>1, <1>2 DEF Roused
<1>5. ASSUME client = "code"
      PROVE  code
  <2>1. ~code => rcv = <<FileRequest>>
    BY <1>1, <1>5 DEF Requested
  <2>2. <<FileRequest>> # <<>>
    OBVIOUS
  <2> QED
    BY <1>4, <1>5, <2>1, <2>2
<1>6. ASSUME client \in {"sent", "asked"}
      PROVE  Stored \/ outcome = "failed"
  <2>1. code /\ sent = size
    BY <1>1, <1>6 DEF Protocol, AskedOnce, AllSent
  <2>2. outcome # "incomplete"
    BY <1>1, <1>3 DEF Grounded
  <2>3. outcome # "none"
    <3>1. SUFFICES ASSUME outcome = "none"
                   PROVE  FALSE
      OBVIOUS
    <3>2. Active /\ rcv = <<>>
      BY <1>4, <2>1, <3>1 DEF Active
    <3>3. sent < size
      BY <3>2, WaitingIsShort
    <3> QED
      BY <1>1, <2>1, <3>3, SizeIsNat
  <2> QED
    BY <1>1, <2>2, <2>3 DEF CompleteIsStored, TypeOK
<1> QED
  BY <1>3, <1>4, <1>5, <1>6

\* epoll_wait never blocks over an upload that has something to be done: no
\* edge is spent on bytes or on an end that stay unread, and a client that has
\* sent all of its file finds it stored, whatever the sizes and the window.
THEOREM NeverAsleep == Spec => []BlocksOwingNothing
  BY Invariance, AttendedInvariant, BlockedOwesNothing, PTL
==============================================================================
