--------------------------- MODULE DownloadProofs ---------------------------
(***************************************************************************)
(* Proofs about Download, for every set of sizes, every MAXARRSZ and       *)
(* NUMSTOP and every window, with the server's file replaced at any time,  *)
(* either side stopped at any time, and alarms of the timer at any time.   *)
(*                                                                         *)
(* The argument follows the stream: what is on the client's disk, in its   *)
(* buffer and in the socket are the bytes sendfile has sent, each in its   *)
(* place.  It is inductive only with the conversation that precedes the    *)
(* stream (Asking) and with what the flags of the coroutine say about the  *)
(* edges that may still come (Resuming); the latter is also what keeps the *)
(* server from resuming a coroutine that has ended.                        *)
(***************************************************************************)
EXTENDS Download, BytesProofs

Byte == {"data", "new"} \X (Nat \ {0})
FileByte == {Zero} \cup Byte

Contents ==
    /\ buf \in Seq(Byte)
    /\ client \in {"small", "large"} => wire \in Seq(Byte)

\* The handler before the request, and between the size and the flag.
Fresh ==
    /\ server \in {"wait", "dispatch", "decide"}
    /\ task = "none" /\ ~reading /\ ~writing /\ ~nospace /\ off = 0

AwaitsFlag ==
    /\ server = "flag" \/ (server \in {"wait", "dispatch"} /\ task = "flag" /\ reading)
    /\ ~writing /\ off = 0

Announcing == client = "size" /\ wire \notin {<<>>, <<NoFile>>}

\* The conversation before the first byte: one request, one size, one flag,
\* and no byte is sent before the flag.
Asking ==
    /\ rcv \in {<<>>, <<GetRequest>>, <<Flag>>}
    /\ client = "start" =>
         /\ rcv = <<>> /\ wire = <<>> /\ ~edge
         /\ Gone \/ (server = "wait" /\ Fresh)
    /\ client = "size" =>
         /\ rcv # <<Flag>>
         /\ wire = <<>> \/ rcv = <<>>
         /\ ~replaced => wire \in {<<>>, <<NoFile>>, <<SizeOf(size)>>}
    /\ client \in {"small", "large"} => rcv # <<GetRequest>>
    /\ client \in {"start", "size"} =>
         /\ server # "send" /\ task # "send"
         /\ off = 0 /\ buf = <<>> /\ file = <<>>
    /\ ~Gone =>
         /\ rcv = <<GetRequest>> => Fresh
         /\ rcv = <<Flag>> \/ Announcing => AwaitsFlag

\* A coroutine that is being resumed or runs, or has ended with its flags up.
Roused ==
    \/ server \in {"dispatch", "send"}
    \/ server = "wait" /\ task = "done"

\* Which event may resume the coroutine: one that has ended is not resumed,
\* because no edge is due that is not the client's leaving.
Resuming ==
    /\ nospace => Len(wire) = Window
    /\ client \in {"start", "size"} => ~nospace /\ ~writing
    /\ "HUP" \in ev => Left
    /\ server = "closed" => Left \/ aged
    /\ writing => task \in {"send", "done"}
    /\ server = "flag" => ~writing
    /\ server = "dispatch" /\ "HUP" \notin ev =>
         /\ "IN" \in ev => rcv # <<>>
         /\ writing => task = "send"
    /\ writing /\ Roused /\ ~Left => ~edge /\ ~nospace

\* The two sides of the transfer on their own.
Sides ==
    /\ client = "small" => /\ file = <<>> /\ announced < Max
                           /\ Len(buf) < announced \/ buf = <<>>
    /\ ~replaced => announced = size /\ disk = Prefix(size) /\ off <= size
    /\ \A i \in 1..Len(disk) : disk[i] \in {Data(i), New(i)}

Stream == Cat(Cat(file, buf), wire)

\* A byte of the stream at place i.
IsByteOf(x, i) == x = Data(i) \/ (replaced /\ x = New(i))

InPlace ==
    client \in {"small", "large"} =>
        /\ Len(Stream) = off
        /\ \A i \in 1..off : IsByteOf(Stream[i], i)

\* What became of a client that has ended.
Finished ==
    /\ EveryByteInPlace
    /\ client = "short" => server = "stopped" \/ (server = "closed" /\ aged)
    /\ client = "done" /\ ~replaced => file = Prefix(size)

IInv == TypeOK /\ Contents /\ Asking /\ Resuming /\ Sides /\ InPlace /\ Finished

------------------------------------------------------------------------------
(* The tokens, and what the steps that move bytes do. *)

LEMMA Tokens ==
  /\ \A i \in Nat \ {0} : Data(i) \in Byte /\ New(i) \in Byte
  /\ Byte \subseteq FileByte /\ Zero \in FileByte
  /\ \A i \in Nat \ {0} : Data(i) # Zero /\ New(i) # Zero
  /\ GetRequest # Flag
  /\ \A n \in Nat : SizeOf(n) # NoFile
  /\ \A n, m \in Nat : SizeOf(n) = SizeOf(m) => n = m
  BY DEF Byte, FileByte, Data, New, Zero, GetRequest, Flag, SizeOf, NoFile

LEMMA Numbers ==
  TypeOK => /\ size \in Nat /\ announced \in Nat /\ off \in Nat /\ left \in Nat
            /\ Len(disk) \in Nat /\ disk \in Seq(Byte) /\ file \in Seq(FileByte)
  BY SizesAssumption, LenProperties DEF TypeOK, Byte, FileByte

\* The reads of the client, with the number of bytes they take.
Got(k) == Cat(buf, SubSeq(wire, 1, k))
Rest(k) == SubSeq(wire, k + 1, Len(wire))

Takes(k) ==
    /\ wire' = Rest(k)
    /\ edge' = (edge \/ nospace \/ client' \in Ended)
    /\ nospace' = FALSE
    /\ UNCHANGED <<size, disk, replaced, announced, rcv, ev, server, taskVars>>

LEMMA Taken ==
  ASSUME NEW room \in Int, wire \in Seq(Byte), Least(room, Len(wire)) > 0
  PROVE  Least(room, Len(wire)) \in 1..Len(wire) /\ Least(room, Len(wire)) <= room
<1>1. Len(wire) \in Nat
  BY LenProperties
<1>2. Least(room, Len(wire)) \in Int /\ Least(room, Len(wire)) <= Len(wire)
      /\ Least(room, Len(wire)) <= room
  BY <1>1, LeastBound
<1> QED
  BY <1>1, <1>2

LEMMA SmallReadStep ==
  ASSUME TypeOK, Contents, SmallRead
  PROVE  \E k \in 1..Len(wire) :
           /\ client = "small" /\ k <= announced - Len(buf)
           /\ Takes(k) /\ buf' = Got(k)
           /\ \/ Len(Got(k)) = announced /\ file' = Got(k) /\ client' = "done"
              \/ Len(Got(k)) # announced /\ UNCHANGED <<file, client>>
<1> DEFINE k == Least(announced - Len(buf), Len(wire))
<1>1. announced - Len(buf) \in Int /\ wire \in Seq(Byte) /\ client = "small" /\ k > 0
  BY Numbers, LenProperties DEF SmallRead, Contents
<1>2. k \in 1..Len(wire) /\ k <= announced - Len(buf)
  BY <1>1, Taken
<1> QED
  BY <1>2 DEF SmallRead, Read, Takes, Rest, Got, Cat

LEMMA LargeReadStep ==
  ASSUME TypeOK, Contents, LargeRead
  PROVE  \E k \in 1..Len(wire) :
           /\ client = "large" /\ k <= Max - Len(buf)
           /\ Takes(k)
           /\ \/ /\ file' = Cat(file, Got(k)) /\ buf' = <<>>
                 /\ \/ Len(file') >= announced /\ client' = "done"
                    \/ ~(Len(file') >= announced) /\ UNCHANGED client
              \/ /\ ~(Len(Got(k)) + Len(file) >= announced)
                 /\ buf' = Got(k) /\ UNCHANGED <<file, client>>
<1> DEFINE k == Least(Max - Len(buf), Len(wire))
<1>1. Max - Len(buf) \in Int /\ wire \in Seq(Byte) /\ client = "large" /\ k > 0
  BY BufferAssumption, LenProperties DEF LargeRead, Contents
<1>2. k \in 1..Len(wire) /\ k <= Max - Len(buf)
  BY <1>1, Taken
<1> QED
  BY <1>2 DEF LargeRead, Read, Takes, Rest, Got, Cat

\* The bytes one sendfile takes from the file.
Chunk(k) == SubSeq(disk, off + 1, off + k)

LEMMA SendSomeStep ==
  ASSUME TypeOK, SendSome, Len(wire) \in Nat
  PROVE  \E k \in Nat \ {0} :
           /\ k <= left /\ k <= Window - Len(wire) /\ k <= Len(disk) - off
           /\ server = "send" /\ ~Left
           /\ wire' = Cat(wire, Chunk(k)) /\ off' = off + k /\ left' = left - k
           /\ UNCHANGED <<size, disk, replaced, clientVars, rcv, nospace, edge, ev,
                          server, task, reading, writing>>
<1> DEFINE m == Least(Window - Len(wire), Len(disk) - off)
           k == Least(left, m)
<1>1. Window - Len(wire) \in Int /\ Len(disk) - off \in Int /\ left \in Int
  BY Numbers, WindowAssumption
<1>2. m \in Int /\ m <= Window - Len(wire) /\ m <= Len(disk) - off
  BY <1>1, LeastBound
<1> HIDE DEF m
<1>3. k \in Int /\ k <= left /\ k <= m
  BY <1>1, <1>2, LeastBound
<1>4. /\ server = "send" /\ ~Left /\ k > 0
      /\ wire' = Cat(wire, Chunk(k)) /\ off' = off + k /\ left' = left - k
      /\ UNCHANGED <<size, disk, replaced, clientVars, rcv, nospace, edge, ev,
                     server, task, reading, writing>>
  BY DEF SendSome, Chunk, Cat, m
<1> HIDE DEF k
<1>5. k \in Nat \ {0} /\ k <= left /\ k <= Window - Len(wire) /\ k <= Len(disk) - off
  BY <1>1, <1>2, <1>3, <1>4
<1> QED
  BY <1>4, <1>5

LEMMA ChunkProperties ==
  ASSUME TypeOK, NEW k \in Nat \ {0}, k <= Len(disk) - off
  PROVE  /\ Chunk(k) \in Seq(Byte) /\ Len(Chunk(k)) = k
         /\ \A i \in 1..k : Chunk(k)[i] = disk[off + i]
<1>1. disk \in Seq(Byte) /\ off \in Nat /\ off + k <= Len(disk)
  BY Numbers
<1> QED
  BY <1>1, PieceProperties DEF Chunk

LEMMA GotProperties ==
  ASSUME TypeOK, Contents, client \in {"small", "large"}, NEW k \in 1..Len(wire)
  PROVE  /\ Got(k) \in Seq(Byte) /\ Len(Got(k)) = Len(buf) + k
         /\ Rest(k) \in Seq(Byte) /\ Len(Rest(k)) = Len(wire) - k
         /\ Cat(Cat(file, Got(k)), Rest(k)) = Stream
         /\ Len(buf) \in Nat /\ Len(wire) \in Nat
<1>1. /\ buf \in Seq(Byte) /\ wire \in Seq(Byte) /\ file \in Seq(FileByte)
      /\ buf \in Seq(FileByte) /\ wire \in Seq(FileByte)
      /\ Len(wire) \in Nat /\ Len(buf) \in Nat
  BY Numbers, Tokens, LenProperties DEF Contents
<1>2. k \in 0..Len(wire)
  BY <1>1
<1>3. ASSUME NEW x \in Seq(Byte)
      PROVE  Cat(buf, x) \in Seq(Byte) /\ Len(Cat(buf, x)) = Len(buf) + Len(x)
  BY <1>1, CatProperties
<1>4. /\ Got(k) \in Seq(Byte)
      /\ Len(Got(k)) = Len(buf) + k
      /\ Rest(k) \in Seq(Byte)
      /\ Len(Rest(k)) = Len(wire) - k
  <2> DEFINE x == SubSeq(wire, 1, k)
  <2>1. x \in Seq(Byte) /\ Len(x) = k /\ Rest(k) \in Seq(Byte) /\ Len(Rest(k)) = Len(wire) - k
    BY <1>1, <1>2, ReadSplits DEF Rest
  <2> HIDE DEF x
  <2>2. Cat(buf, x) \in Seq(Byte) /\ Len(Cat(buf, x)) = Len(buf) + Len(x)
    BY <1>3, <2>1
  <2> QED
    BY <2>1, <2>2 DEF Got, x
<1>5. Cat(Cat(file, Got(k)), Rest(k)) = Stream
  BY <1>1, <1>2, ReadMoves DEF Got, Rest, Stream
<1> QED
  BY <1>1, <1>4, <1>5

------------------------------------------------------------------------------
(* Types. *)

LEMMA TypeInit == Init => TypeOK /\ Contents
<1> SUFFICES ASSUME Init
             PROVE  TypeOK /\ Contents
  OBVIOUS
<1>1. size \in Nat /\ Max \in Nat /\ Window \in Nat
  BY SizesAssumption, BufferAssumption, WindowAssumption DEF Init
<1>2. \A i \in 1..size : Data(i) \in Byte
  BY <1>1, Tokens
<1>3. disk \in Seq(Byte)
  BY <1>1, <1>2, PrefixProperties DEF Init
<1>4. /\ nospace \in BOOLEAN /\ edge \in BOOLEAN /\ reading \in BOOLEAN
      /\ writing \in BOOLEAN /\ aged \in BOOLEAN
  BY Zenon DEF Init
<1>5. /\ Len(buf) = 0 /\ Len(rcv) = 0 /\ Len(wire) = 0
      /\ buf \in Seq(Byte) /\ file \in Seq(FileByte)
  BY DEF Init
<1>6. /\ size \in Sizes /\ replaced \in BOOLEAN /\ client = "start" /\ announced \in Sizes
      /\ ev \subseteq {"IN", "OUT", "HUP"} /\ server = "wait" /\ task = "none"
      /\ off = 0 /\ left = 0
  BY Zenon DEF Init
<1>7. TypeOK
  BY <1>1, <1>3, <1>4, <1>5, <1>6 DEF TypeOK, Byte, FileByte
<1> QED
  BY <1>5, <1>6, <1>7 DEF Contents

LEMMA FlagsNext ==
  ASSUME TypeOK, [Next]_vars
  PROVE  /\ nospace' \in BOOLEAN /\ edge' \in BOOLEAN
         /\ reading' \in BOOLEAN /\ writing' \in BOOLEAN /\ aged' \in BOOLEAN
<1> USE DEF clientVars, kernelVars, taskVars
<1>1. /\ nospace \in BOOLEAN /\ edge \in BOOLEAN /\ reading \in BOOLEAN
      /\ writing \in BOOLEAN /\ aged \in BOOLEAN
  BY DEF TypeOK
<1>2. CASE Client \/ Environment
  <2>1. UNCHANGED <<reading, writing, aged>>
    BY <1>2 DEF Client, Environment, AskFile, ReadSize, OpenFails, NotFound, ReadFails,
       SmallRead, SmallEmpty, SmallEnd, LargeRead, LargeEnd, ClientKilled, ServerStopped,
       Truncate, Rewrite
  <2>2. nospace' = nospace \/ nospace' = FALSE
    BY <1>2 DEF Client, Environment, AskFile, ReadSize, OpenFails, NotFound, ReadFails,
       SmallRead, SmallEmpty, SmallEnd, LargeRead, LargeEnd, ClientKilled, ServerStopped,
       Truncate, Rewrite, Read
  <2>3. edge' = edge \/ edge' = TRUE \/ edge' = (edge \/ nospace \/ client' \in Ended)
    BY <1>2 DEF Client, Environment, AskFile, ReadSize, OpenFails, NotFound, ReadFails,
       SmallRead, SmallEmpty, SmallEnd, LargeRead, LargeEnd, ClientKilled, ServerStopped,
       Truncate, Rewrite, Read, Write
  <2> QED
    BY <1>1, <2>1, <2>2, <2>3, Zenon
<1>3. CASE Server
  <2>1. /\ nospace' = nospace \/ nospace' = TRUE
        /\ edge' = edge \/ edge' = FALSE
        /\ reading' = reading \/ reading' = TRUE \/ reading' = FALSE
        /\ writing' = writing \/ writing' = TRUE \/ writing' = FALSE
        /\ aged' = aged \/ aged' = FALSE
    BY <1>3 DEF Server, EpollWait, Disconnect, Dispatch, StartDownload, StartDownloadFails,
       StartDownloadThrows, UnknownRequest, FlagYield, ReadFlag, FlagMissing, SendSome,
       SendYield, SendDone, SendStaleErrno, SendGivesUp, Yield, Finish
  <2> QED
    BY <1>1, <2>1, Zenon
<1>4. CASE Tick \/ UNCHANGED vars
  BY <1>1, <1>4 DEF Tick, Ages, Expires, vars
<1> QED
  BY <1>2, <1>3, <1>4 DEF Next

LEMMA ClientType ==
  ASSUME TypeOK, Contents, Asking, Sides, Client
  PROVE  /\ client' \in {"start"} \cup Reading \cup Ended
         /\ announced' \in Sizes
         /\ buf' \in Seq(Byte) /\ Len(buf') <= Max
         /\ file' \in Seq(FileByte)
         /\ Len(rcv') <= 1 /\ Len(wire') <= Window
         /\ client' \in {"small", "large"} => wire' \in Seq(Byte)
         /\ UNCHANGED <<size, disk, replaced, ev, server, taskVars>>
<1> USE DEF clientVars, kernelVars, Reading, Ended
<1>1. CASE AskFile
  <2>1. rcv = <<>>
    BY <1>1 DEF AskFile, Asking
  <2>2. Len(rcv') <= 1
    BY <1>1, <2>1 DEF AskFile, Write
  <2> QED
    BY <1>1, <2>2 DEF AskFile, TypeOK, Contents, FileByte, Byte
<1>2. CASE ReadSize
  <2>1. \E n \in Sizes : wire = <<SizeOf(n)>> /\ announced' = n
    BY <1>2 DEF ReadSize
  <2>2. rcv = <<>>
    BY <1>2, <2>1 DEF ReadSize, Asking
  <2>3. Len(rcv') <= 1
    BY <1>2, <2>2 DEF ReadSize, Write
  <2>4. wire' = <<>> /\ Len(wire') <= Window /\ wire' \in Seq(Byte)
    BY <1>2, WindowAssumption DEF ReadSize
  <2> QED
    BY <1>2, <2>1, <2>3, <2>4 DEF ReadSize, TypeOK, Contents, FileByte, Byte
<1>3. CASE OpenFails \/ ReadFails \/ SmallEmpty \/ LargeEnd
  BY <1>3 DEF OpenFails, ReadFails, SmallEmpty, LargeEnd, TypeOK, Contents, FileByte, Byte
<1>4. CASE NotFound
  BY <1>4, WindowAssumption DEF NotFound, TypeOK, Contents, FileByte, Byte
<1>5. CASE SmallRead
  <2>1. PICK k \in 1..Len(wire) :
           /\ client = "small" /\ k <= announced - Len(buf)
           /\ Takes(k) /\ buf' = Got(k)
           /\ \/ file' = Got(k) /\ client' = "done"
              \/ UNCHANGED <<file, client>>
    BY <1>5, SmallReadStep
  <2>2. /\ Got(k) \in Seq(Byte) /\ Len(Got(k)) = Len(buf) + k
        /\ Rest(k) \in Seq(Byte) /\ Len(Rest(k)) = Len(wire) - k
        /\ Len(buf) \in Nat /\ Len(wire) \in Nat
    BY <2>1, GotProperties
  <2>3. /\ buf' \in Seq(Byte) /\ Len(buf') <= Max
        /\ wire' \in Seq(Byte) /\ Len(wire') <= Window
    <3>1. wire' = Rest(k) /\ k \in Nat /\ announced < Max /\ Len(wire) <= Window
      BY <2>1 DEF Takes, Sides, TypeOK
    <3>2. announced \in Nat /\ Max \in Nat /\ Window \in Nat
      BY Numbers, BufferAssumption, WindowAssumption
    <3> QED
      BY <2>1, <2>2, <3>1, <3>2
  <2>4. file' \in Seq(FileByte)
    BY <2>1, <2>2, Tokens, Numbers
  <2> QED
    BY <2>1, <2>3, <2>4 DEF Takes, TypeOK
<1>6. CASE SmallEnd
  <2>1. file' \in Seq(FileByte)
    BY <1>6, Tokens, Numbers, ZerosProperties DEF SmallEnd
  <2> QED
    BY <1>6, <2>1 DEF SmallEnd, TypeOK, Contents
<1>7. CASE LargeRead
  <2>1. PICK k \in 1..Len(wire) :
           /\ client = "large" /\ k <= Max - Len(buf)
           /\ Takes(k)
           /\ \/ /\ file' = Cat(file, Got(k)) /\ buf' = <<>>
                 /\ client' = "done" \/ UNCHANGED client
              \/ buf' = Got(k) /\ UNCHANGED <<file, client>>
    BY <1>7, LargeReadStep
  <2>2. /\ Got(k) \in Seq(Byte) /\ Len(Got(k)) = Len(buf) + k
        /\ Rest(k) \in Seq(Byte) /\ Len(Rest(k)) = Len(wire) - k
        /\ Len(buf) \in Nat /\ Len(wire) \in Nat
    BY <2>1, GotProperties
  <2>3. /\ buf' \in Seq(Byte) /\ Len(buf') <= Max
        /\ wire' \in Seq(Byte) /\ Len(wire') <= Window
    <3>1. wire' \in Seq(Byte) /\ Len(wire') <= Window
      BY <2>1, <2>2, WindowAssumption DEF Takes, TypeOK
    <3>2. CASE buf' = <<>>
      BY <3>1, <3>2, BufferAssumption
    <3>3. CASE buf' = Got(k)
      BY <2>1, <2>2, <3>1, <3>3, BufferAssumption
    <3> QED
      BY <2>1, <3>2, <3>3
  <2>4. file' \in Seq(FileByte)
    <3>1. file \in Seq(FileByte) /\ Got(k) \in Seq(FileByte)
      BY <2>2, Tokens, Numbers
    <3>2. Cat(file, Got(k)) \in Seq(FileByte)
      BY <3>1, CatProperties
    <3> QED
      BY <2>1, <3>1, <3>2
  <2> QED
    BY <2>1, <2>3, <2>4 DEF Takes, TypeOK
<1> QED
  BY <1>1, <1>2, <1>3, <1>4, <1>5, <1>6, <1>7 DEF Client

LEMMA EnvironmentType ==
  ASSUME TypeOK, Contents, Environment
  PROVE  /\ client' \in {"start"} \cup Reading \cup Ended
         /\ disk' \in Seq(Byte) /\ replaced' \in BOOLEAN
         /\ server' \in {"wait", "dispatch", "decide", "flag", "send", "closed", "stopped"}
         /\ client' \in {"small", "large"} => UNCHANGED client
         /\ UNCHANGED <<size, announced, buf, file, rcv, wire, ev, taskVars>>
<1> USE DEF clientVars, kernelVars, Reading, Ended
<1>1. CASE ClientKilled \/ ServerStopped
  BY <1>1, Numbers DEF ClientKilled, ServerStopped, TypeOK
<1>2. CASE Truncate
  BY <1>2 DEF Truncate, TypeOK
<1>3. CASE Rewrite
  <2>1. PICK n \in Sizes \ {0} : disk' = [i \in 1..n |-> New(i)]
    BY <1>3 DEF Rewrite
  <2>2. n \in Nat /\ \A i \in 1..n : New(i) \in Byte
    BY SizesAssumption, Tokens
  <2>3. disk' \in Seq(Byte)
    BY <2>1, <2>2
  <2> QED
    BY <1>3, <2>3 DEF Rewrite, TypeOK
<1> QED
  BY <1>1, <1>2, <1>3 DEF Environment

\* A suspended coroutine is resumed where it waits.
LEMMA Resumed ==
  ASSUME TypeOK, Asking, Resuming, Dispatch
  PROVE  /\ "IN" \in ev /\ reading => task = "flag" /\ server' = "flag"
         /\ "IN" \in ev /\ ~reading => rcv # <<Flag>> /\ server' = "decide"
         /\ "IN" \notin ev /\ writing => task = "send" /\ server' = "send"
         /\ "IN" \notin ev /\ ~writing => server' = "wait"
<1>1. server = "dispatch" /\ "HUP" \notin ev
  BY DEF Dispatch
<1>2. "IN" \in ev => rcv = <<GetRequest>> \/ rcv = <<Flag>>
  BY <1>1 DEF Resuming, Asking
<1>3. rcv = <<GetRequest>> => ~reading
  BY <1>1 DEF Asking, Fresh, Gone
<1>4. rcv = <<Flag>> => task = "flag" /\ reading
  BY <1>1 DEF Asking, AwaitsFlag, Gone
<1>5. writing => task = "send"
  BY <1>1 DEF Resuming
<1>6. rcv = <<GetRequest>> => rcv # <<Flag>>
  BY Tokens
<1> QED
  BY <1>2, <1>3, <1>4, <1>5, <1>6 DEF Dispatch

LEMMA ServerType ==
  ASSUME TypeOK, Contents, Asking, Resuming, Server
  PROVE  /\ Len(rcv') <= 1 /\ Len(wire') <= Window
         /\ client \in {"small", "large"} => wire' \in Seq(Byte)
         /\ ev' \subseteq {"IN", "OUT", "HUP"}
         /\ server' \in {"wait", "dispatch", "decide", "flag", "send", "closed", "stopped"}
         /\ task' \in {"none", "flag", "send", "done"}
         /\ off' \in Nat /\ left' \in Nat
         /\ UNCHANGED <<size, disk, replaced, clientVars>>
<1> USE DEF kernelVars, taskVars
<1>1. CASE EpollWait
  <2>1. ev' \subseteq {"IN", "OUT", "HUP"}
    BY <1>1, Zenon DEF EpollWait, Mask
  <2>2. server' = "dispatch" /\ UNCHANGED <<size, disk, replaced, clientVars, rcv, wire, taskVars>>
    BY <1>1 DEF EpollWait
  <2> QED
    BY <2>1, <2>2 DEF TypeOK, Contents
<1>2. CASE Disconnect \/ UnknownRequest
  <2>1. /\ server' = "closed" /\ rcv' = <<>>
        /\ UNCHANGED <<size, disk, replaced, clientVars, wire, nospace, edge, ev, taskVars>>
    BY <1>2 DEF Disconnect, UnknownRequest
  <2>2. Len(rcv') <= 1
    BY <2>1
  <2> QED
    BY <2>1, <2>2 DEF TypeOK, Contents
<1>3. CASE Dispatch
  <2>1. server' \in {"flag", "decide", "send", "wait"}
    BY <1>3, Resumed
  <2> QED
    BY <1>3, <2>1 DEF Dispatch, TypeOK, Contents
<1>4. CASE StartDownload \/ StartDownloadFails \/ StartDownloadThrows
  <2>1. client \notin {"small", "large"}
    BY <1>4 DEF StartDownload, StartDownloadFails, StartDownloadThrows, Asking
  <2>2. Len(wire') <= Window /\ Len(rcv') <= 1
    BY <1>4, WindowAssumption
       DEF StartDownload, StartDownloadFails, StartDownloadThrows, TypeOK
  <2> QED
    BY <1>4, <2>1, <2>2
       DEF StartDownload, StartDownloadFails, StartDownloadThrows, TypeOK
<1>5. CASE FlagYield \/ FlagMissing \/ SendYield \/ SendDone \/ SendStaleErrno \/ SendGivesUp
  <2>1. /\ UNCHANGED <<rcv, wire, ev, off, left, size, disk, replaced, clientVars>>
        /\ server' \in {"wait", "closed"} /\ task' \in {"flag", "send", "done"}
    BY <1>5 DEF FlagYield, FlagMissing, SendYield, SendDone, SendStaleErrno, SendGivesUp,
       Yield, Finish
  <2> QED
    BY <2>1 DEF TypeOK, Contents
<1>6. CASE ReadFlag
  BY <1>6, Numbers DEF ReadFlag, TypeOK, Contents
<1>7. CASE SendSome
  <2>1. client \in {"small", "large"}
    BY <1>7 DEF SendSome, Asking, TypeOK, Left, Reading
  <2>2. wire \in Seq(Byte) /\ Len(wire) \in Nat
    BY <2>1, LenProperties DEF Contents
  <2>3. PICK k \in Nat \ {0} :
           /\ k <= left /\ k <= Window - Len(wire) /\ k <= Len(disk) - off
           /\ wire' = Cat(wire, Chunk(k)) /\ off' = off + k /\ left' = left - k
           /\ UNCHANGED <<size, disk, replaced, clientVars, rcv, nospace, edge, ev,
                          server, task, reading, writing>>
    BY <1>7, <2>2, SendSomeStep
  <2>4. Chunk(k) \in Seq(Byte) /\ Len(Chunk(k)) = k
    BY <2>3, ChunkProperties
  <2>5. wire' \in Seq(Byte) /\ Len(wire') = Len(wire) + k
    <3>1. Cat(wire, Chunk(k)) \in Seq(Byte) /\ Len(Cat(wire, Chunk(k))) = Len(wire) + Len(Chunk(k))
      BY <2>2, <2>4, CatProperties
    <3> QED
      BY <2>3, <2>4, <3>1
  <2>6. Len(wire') <= Window /\ off' \in Nat /\ left' \in Nat
    BY <2>2, <2>3, <2>5, Numbers, WindowAssumption
  <2> QED
    BY <2>3, <2>5, <2>6 DEF TypeOK
<1> QED
  BY <1>1, <1>2, <1>3, <1>4, <1>5, <1>6, <1>7 DEF Server

LEMMA TypeNext ==
  ASSUME TypeOK, Contents, Asking, Resuming, Sides, [Next]_vars
  PROVE  TypeOK' /\ Contents'
<1> USE DEF clientVars, kernelVars, taskVars
<1>1. /\ nospace' \in BOOLEAN /\ edge' \in BOOLEAN
      /\ reading' \in BOOLEAN /\ writing' \in BOOLEAN /\ aged' \in BOOLEAN
  BY FlagsNext
<1>2. CASE Client
  <2>1. UNCHANGED <<size, disk, replaced, ev, server, task, off, left>>
    BY <1>2, ClientType
  <2>2. /\ client' \in {"start"} \cup Reading \cup Ended /\ announced' \in Sizes
        /\ buf' \in Seq(Byte) /\ Len(buf') <= Max /\ file' \in Seq(FileByte)
        /\ Len(rcv') <= 1 /\ Len(wire') <= Window
        /\ client' \in {"small", "large"} => wire' \in Seq(Byte)
    BY <1>2, ClientType, Zenon
  <2> QED
    BY <1>1, <2>1, <2>2 DEF TypeOK, Contents, Byte, FileByte
<1>3. CASE Environment
  BY <1>1, <1>3, EnvironmentType DEF TypeOK, Contents, Byte, FileByte
<1>4. CASE Server
  BY <1>1, <1>4, ServerType DEF TypeOK, Contents, Byte, FileByte
<1>5. CASE Ages \/ UNCHANGED vars
  <2>1. UNCHANGED <<size, disk, replaced, clientVars, kernelVars, server, taskVars>>
    BY <1>5 DEF Ages, vars
  <2> QED
    BY <1>1, <2>1 DEF TypeOK, Contents
<1>6. CASE Expires
  BY <1>1, <1>6 DEF TypeOK, Contents, Expires
<1> QED
  BY <1>2, <1>3, <1>4, <1>5, <1>6 DEF Next, Tick

------------------------------------------------------------------------------
(* The conversation. *)

LEMMA AskingInit == Init => Asking
<1> SUFFICES ASSUME Init
             PROVE  Asking
  OBVIOUS
<1>1. /\ client = "start" /\ rcv = <<>> /\ wire = <<>> /\ ~edge /\ server = "wait"
      /\ task = "none" /\ ~reading /\ ~writing /\ ~nospace /\ off = 0
      /\ buf = <<>> /\ file = <<>>
  BY DEF Init
<1>2. Fresh
  BY <1>1 DEF Fresh
<1> QED
  BY <1>1, <1>2 DEF Asking, Announcing

LEMMA ClientAsking ==
  ASSUME TypeOK, Contents, Asking, Resuming, Client
  PROVE  Asking'
<1> USE DEF clientVars, kernelVars, taskVars
<1>1. UNCHANGED <<size, replaced, server, task, reading, writing, off>>
  BY DEF Client, AskFile, ReadSize, OpenFails, NotFound, ReadFails, SmallRead, SmallEmpty,
     SmallEnd, LargeRead, LargeEnd
<1>0. Gone' = Gone
  BY <1>1 DEF Gone
<1>2. (Fresh => Fresh') /\ (AwaitsFlag' <=> AwaitsFlag)
  <2>1. ~nospace => ~nospace'
    BY DEF Client, AskFile, ReadSize, OpenFails, NotFound, ReadFails, SmallRead, SmallEmpty,
       SmallEnd, LargeRead, LargeEnd, Read
  <2> QED
    BY <1>1, <2>1 DEF Fresh, AwaitsFlag
<1>3. CASE AskFile
  <2>1. /\ client = "start" /\ client' = "size" /\ rcv = <<>> /\ wire = <<>> /\ wire' = wire
        /\ Gone \/ (server = "wait" /\ Fresh)
        /\ UNCHANGED <<buf, file>>
    BY <1>3 DEF AskFile, Asking
  <2>2. \/ rcv' = <<>> /\ Gone
        \/ rcv' = <<GetRequest>> /\ Fresh
    BY <1>3, <2>1 DEF AskFile, Write
  <2>3. <<GetRequest>> # <<Flag>> /\ <<>> # <<Flag>> /\ <<>> # <<GetRequest>>
    BY Tokens
  <2> QED
    BY <1>0, <1>1, <1>2, <2>1, <2>2, <2>3 DEF Asking, Announcing
<1>4. CASE ReadSize
  <2>1. /\ client = "size" /\ client' \in {"small", "large"} /\ wire' = <<>>
        /\ Announcing
    <3>1. PICK n \in Sizes : wire = <<SizeOf(n)>> /\ client' = IF n < Max THEN "small" ELSE "large"
      BY <1>4 DEF ReadSize
    <3>2. SizeOf(n) # NoFile
      BY Tokens, SizesAssumption
    <3> QED
      BY <1>4, <3>1, <3>2 DEF ReadSize, Announcing
  <2>2. rcv = <<>> /\ (~Gone => AwaitsFlag)
    BY <2>1 DEF Asking, Announcing
  <2>3. rcv' = <<>> \/ rcv' = <<Flag>>
    BY <1>4, <2>2 DEF ReadSize, Write
  <2>4. <<GetRequest>> # <<Flag>> /\ <<>> # <<Flag>> /\ <<>> # <<GetRequest>>
    BY Tokens
  <2> QED
    BY <1>0, <1>1, <1>2, <2>1, <2>2, <2>3, <2>4 DEF Asking, Announcing
<1>5. CASE OpenFails \/ NotFound \/ ReadFails \/ SmallRead \/ SmallEmpty \/ SmallEnd
             \/ LargeRead \/ LargeEnd
  <2>1. UNCHANGED rcv /\ client' \notin {"start", "size"}
    BY <1>5 DEF OpenFails, NotFound, ReadFails, SmallRead, SmallEmpty, SmallEnd, LargeRead,
       LargeEnd
  <2>2. client' \in {"small", "large"} => client \in {"small", "large"}
    BY <1>5 DEF OpenFails, NotFound, ReadFails, SmallRead, SmallEmpty, SmallEnd, LargeRead,
       LargeEnd
  <2> QED
    BY <1>0, <1>1, <1>2, <2>1, <2>2 DEF Asking, Announcing
<1> QED
  BY <1>3, <1>4, <1>5 DEF Client

LEMMA EnvironmentAsking ==
  ASSUME TypeOK, Asking, Environment
  PROVE  Asking'
<1> USE DEF clientVars, kernelVars, taskVars
<1>1. UNCHANGED <<size, rcv, wire, nospace, buf, file, task, reading, writing, off>>
  BY DEF Environment, ClientKilled, ServerStopped, Truncate, Rewrite
<1>2. CASE ClientKilled
  <2>1. client' = "killed" /\ UNCHANGED <<replaced, server>>
    BY <1>2 DEF ClientKilled
  <2> QED
    BY <1>1, <2>1 DEF Asking, Announcing, Fresh, AwaitsFlag, Gone
<1>3. CASE ServerStopped
  <2>1. server' = "stopped" /\ UNCHANGED <<client, replaced, edge>>
    BY <1>3 DEF ServerStopped
  <2> QED
    BY <1>1, <2>1 DEF Asking, Gone
<1>4. CASE Truncate \/ Rewrite
  <2>1. UNCHANGED <<client, server, edge>> /\ (replaced' = replaced \/ replaced' = TRUE)
    BY <1>4 DEF Truncate, Rewrite
  <2> QED
    BY <1>1, <2>1 DEF Asking, Announcing, Fresh, AwaitsFlag, Gone
<1> QED
  BY <1>2, <1>3, <1>4 DEF Environment

LEMMA ServerAsking ==
  ASSUME TypeOK, Contents, Asking, Resuming, Sides, Server
  PROVE  Asking'
<1> USE DEF clientVars, kernelVars, taskVars
<1>1. UNCHANGED <<size, replaced, client, buf, file>> /\ ~Gone
  BY DEF Server, EpollWait, Disconnect, Dispatch, StartDownload, StartDownloadFails,
     StartDownloadThrows, UnknownRequest, FlagYield, ReadFlag, FlagMissing, SendSome,
     SendYield, SendDone, SendStaleErrno, SendGivesUp, Yield, Finish, Gone
<1>2. <<GetRequest>> # <<Flag>> /\ <<>> # <<Flag>> /\ <<>> # <<GetRequest>>
  BY Tokens
<1>3. client = "start" => server = "wait" /\ ~edge
  BY <1>1 DEF Asking
<1>4. Left => client \notin {"start", "size", "small", "large"}
  BY DEF Left, Ended
<1>5. CASE EpollWait
  <2>1. /\ server' = "dispatch" /\ server = "wait" /\ edge
        /\ UNCHANGED <<rcv, wire, nospace, taskVars>>
    BY <1>5 DEF EpollWait
  <2> QED
    BY <1>1, <1>3, <2>1 DEF Asking, Announcing, Fresh, AwaitsFlag
<1>6. CASE Disconnect \/ UnknownRequest \/ FlagMissing
  <2>1. rcv' = <<>> /\ client \notin {"start", "size", "small", "large"}
    BY <1>4, <1>6 DEF Disconnect, UnknownRequest, FlagMissing, Resuming
  <2> QED
    BY <1>1, <1>2, <2>1 DEF Asking, Announcing
<1>7. CASE Dispatch
  <2>1. server = "dispatch" /\ UNCHANGED <<rcv, wire, nospace, edge, taskVars>>
    BY <1>7 DEF Dispatch
  <2>2. Fresh => Fresh'
    BY <1>7, <2>1, Resumed DEF Fresh
  <2>3. AwaitsFlag => AwaitsFlag'
    BY <1>7, <2>1, Resumed DEF AwaitsFlag
  <2>4. client = "size" => server' # "send"
    BY <1>7, Resumed DEF Asking
  <2> QED
    BY <1>1, <1>3, <2>1, <2>2, <2>3, <2>4 DEF Asking, Announcing
<1>8. CASE StartDownload
  <2>1. /\ rcv = <<GetRequest>> /\ rcv' = <<>> /\ wire' = <<SizeOf(Len(disk))>>
        /\ server' = "flag" /\ UNCHANGED taskVars /\ server = "decide"
    BY <1>8 DEF StartDownload
  <2>2. Fresh
    BY <1>1, <2>1 DEF Asking, Gone
  <2>3. AwaitsFlag'
    BY <2>1, <2>2 DEF Fresh, AwaitsFlag
  <2>4. ~replaced => Len(disk) = size
    <3>1. \A i \in 1..size : Data(i) \in Byte
      BY Numbers, Tokens
    <3> QED
      BY <3>1, Numbers, PrefixProperties DEF Sides
  <2> QED
    BY <1>1, <1>2, <1>3, <2>1, <2>2, <2>3, <2>4 DEF Asking, Announcing, Fresh
<1>9. CASE StartDownloadFails \/ StartDownloadThrows
  <2>1. /\ rcv = <<GetRequest>> /\ rcv' = <<>> /\ server' = "wait" /\ server = "decide"
        /\ task' = "done" /\ UNCHANGED off
        /\ wire' \in {wire, <<NoFile>>}
    BY <1>9 DEF StartDownloadFails, StartDownloadThrows
  <2>2. wire = <<>> \/ client # "size"
    BY <1>2, <2>1 DEF Asking
  <2>3. ~Announcing'
    BY <1>1, <2>1, <2>2 DEF Announcing
  <2> QED
    BY <1>1, <1>2, <1>3, <2>1, <2>2, <2>3 DEF Asking
<1>10. CASE FlagYield
  <2>1. /\ server = "flag" /\ task' = "flag" /\ reading' = TRUE /\ writing' = writing
        /\ server' = "wait" /\ rcv = <<>> /\ UNCHANGED <<rcv, wire, edge, off>>
    BY <1>10 DEF FlagYield, Yield
  <2>2. AwaitsFlag => AwaitsFlag'
    BY <2>1 DEF AwaitsFlag
  <2> QED
    BY <1>1, <1>2, <1>3, <2>1, <2>2 DEF Asking, Announcing
<1>11. CASE ReadFlag
  <2>1. rcv = <<Flag>> /\ rcv' = <<>> /\ client \notin {"start", "size"}
    BY <1>2, <1>11 DEF ReadFlag, Asking
  <2> QED
    BY <1>1, <1>2, <2>1 DEF Asking, Announcing
<1>12. CASE SendSome \/ SendYield \/ SendDone \/ SendStaleErrno \/ SendGivesUp
  <2>1. server = "send" /\ UNCHANGED rcv
    BY <1>12 DEF SendSome, SendYield, SendDone, SendStaleErrno, SendGivesUp, Yield, Finish
  <2>2. client \notin {"start", "size"} /\ rcv = <<>>
    BY <1>1, <2>1 DEF Asking, Fresh, AwaitsFlag
  <2> QED
    BY <1>1, <1>2, <2>1, <2>2 DEF Asking, Announcing
<1> QED
  BY <1>5, <1>6, <1>7, <1>8, <1>9, <1>10, <1>11, <1>12 DEF Server

LEMMA AskingNext ==
  ASSUME TypeOK, Contents, Asking, Resuming, Sides, [Next]_vars
  PROVE  Asking'
<1>1. CASE Ages \/ UNCHANGED vars
  BY <1>1 DEF Ages, vars, clientVars, kernelVars, taskVars, Asking, Announcing, Fresh,
     AwaitsFlag, Gone
<1>2. CASE Expires
  <2>1. /\ server' = "closed" /\ rcv' = <<>>
        /\ server \notin {"send", "flag"} /\ ~Gone
        /\ UNCHANGED <<size, client, wire, replaced, buf, file, edge, off, task>>
    BY <1>2 DEF Expires, Gone, clientVars, taskVars
  <2>2. <<>> # <<Flag>> /\ <<>> # <<GetRequest>>
    BY Tokens
  <2> QED
    BY <2>1, <2>2 DEF Asking, Gone
<1> QED
  BY <1>1, <1>2, ClientAsking, EnvironmentAsking, ServerAsking DEF Next, Tick

------------------------------------------------------------------------------
(* The edges and the coroutine. *)

LEMMA ResumingInit == Init => Resuming
<1> SUFFICES ASSUME Init
             PROVE  Resuming
  OBVIOUS
<1>1. ~nospace /\ ~edge /\ ev = {} /\ server = "wait" /\ ~writing
  BY DEF Init
<1> QED
  BY <1>1 DEF Resuming

LEMMA ClientResuming ==
  ASSUME TypeOK, Contents, Asking, Resuming, Client \/ ClientKilled
  PROVE  Resuming'
<1> USE DEF clientVars, kernelVars, taskVars
<1>1. UNCHANGED <<server, task, reading, writing, ev, aged>>
  BY DEF Client, ClientKilled, AskFile, ReadSize, OpenFails, NotFound, ReadFails, SmallRead,
     SmallEmpty, SmallEnd, LargeRead, LargeEnd
<1>2. (Roused' <=> Roused) /\ (Left => Left')
  BY DEF Client, ClientKilled, AskFile, ReadSize, OpenFails, NotFound, ReadFails, SmallRead,
     SmallEmpty, SmallEnd, LargeRead, LargeEnd, Left, Ended, Reading, Roused
<1>3. CASE ReadFails \/ SmallEnd \/ LargeEnd \/ OpenFails \/ SmallEmpty \/ ClientKilled
  <2>1. /\ UNCHANGED <<rcv, wire, nospace>> /\ Left'
        /\ client' \notin {"start", "size"}
    BY <1>3 DEF ReadFails, SmallEnd, LargeEnd, OpenFails, SmallEmpty, ClientKilled, Left, Ended
  <2> QED
    BY <1>1, <1>2, <2>1 DEF Resuming
<1>4. CASE SmallRead \/ LargeRead
  <2>1. /\ ~nospace' /\ rcv' = rcv /\ edge' = (edge \/ nospace \/ client' \in Ended)
        /\ client' \notin {"start", "size"}
    BY <1>4 DEF SmallRead, LargeRead, Read
  <2>2. ~edge /\ ~nospace => ~edge' \/ Left'
    BY <2>1 DEF Left
  <2> QED
    BY <1>1, <1>2, <2>1, <2>2 DEF Resuming
<1>5. CASE AskFile \/ ReadSize \/ NotFound
  <2>1. client \in {"start", "size"} /\ UNCHANGED nospace
    BY <1>5 DEF AskFile, ReadSize, NotFound
  <2>2. rcv' = rcv \/ rcv' = Append(rcv, GetRequest) \/ rcv' = Append(rcv, Flag)
    BY <1>5 DEF AskFile, ReadSize, NotFound, Write
  <2>3. rcv # <<>> => rcv' # <<>>
    <3>1. rcv \in {<<>>, <<GetRequest>>, <<Flag>>}
      BY DEF Asking
    <3> QED
      BY <2>2, <3>1
  <2>4. ~nospace /\ ~writing
    BY <2>1 DEF Resuming
  <2> QED
    BY <1>1, <1>2, <2>1, <2>3, <2>4 DEF Resuming
<1> QED
  BY <1>3, <1>4, <1>5 DEF Client

LEMMA EnvironmentResuming ==
  ASSUME Resuming, ServerStopped \/ Truncate \/ Rewrite
  PROVE  Resuming'
<1> USE DEF clientVars, kernelVars, taskVars
<1>1. UNCHANGED <<client, rcv, wire, nospace, edge, ev, task, writing, aged>>
  BY DEF ServerStopped, Truncate, Rewrite
<1>2. server' = server \/ server' = "stopped"
  BY DEF ServerStopped, Truncate, Rewrite
<1> QED
  BY <1>1, <1>2 DEF Resuming, Roused, Left

LEMMA EpollWaitResuming ==
  ASSUME TypeOK, Asking, Resuming, EpollWait
  PROVE  Resuming'
<1>1. /\ server = "wait" /\ server' = "dispatch" /\ edge /\ ~edge' /\ ev' = Mask /\ Mask # {}
      /\ UNCHANGED <<client, rcv, wire, nospace, task, reading, writing>>
  BY DEF EpollWait, clientVars, taskVars
<1>2. /\ "HUP" \in Mask <=> Left
      /\ "IN" \in Mask <=> rcv # <<>> \/ Left
      /\ "OUT" \in Mask <=> Len(wire) < Window
      /\ Mask \subseteq {"IN", "OUT", "HUP"}
  BY Zenon DEF Mask
<1>3. writing => rcv = <<>>
  BY <1>1 DEF Asking, Fresh, AwaitsFlag, Gone
<1>4. writing /\ ~Left => "OUT" \in Mask
  BY <1>1, <1>2, <1>3
<1>5. Len(wire) < Window => ~(Len(wire) = Window)
  BY WindowAssumption
<1>6. writing /\ ~Left => ~nospace /\ task = "send"
  BY <1>1, <1>2, <1>4, <1>5 DEF Resuming, Roused
<1>7. Left' = Left
  BY <1>1 DEF Left
<1> QED
  BY <1>1, <1>2, <1>6, <1>7 DEF Resuming, Roused

LEMMA ServerResuming ==
  ASSUME TypeOK, Contents, Asking, Resuming, Server
  PROVE  Resuming'
<1> USE DEF clientVars, kernelVars, taskVars
<1>1. UNCHANGED client /\ Left' = Left /\ ~Gone
  BY DEF Server, EpollWait, Disconnect, Dispatch, StartDownload, StartDownloadFails,
     StartDownloadThrows, UnknownRequest, FlagYield, ReadFlag, FlagMissing, SendSome,
     SendYield, SendDone, SendStaleErrno, SendGivesUp, Yield, Finish, Left, Gone
<1>2. client \in {"start", "size"} => server # "send"
  BY DEF Asking
<1>3. Left => client \notin {"start", "size"}
  BY DEF Left, Ended
<1>4. CASE EpollWait
  BY <1>4, EpollWaitResuming
<1>5. CASE Disconnect \/ UnknownRequest
  <2>1. server' = "closed" /\ Left /\ UNCHANGED <<wire, nospace, edge, ev, taskVars>>
    BY <1>5 DEF Disconnect, UnknownRequest, Resuming
  <2> QED
    BY <1>1, <2>1 DEF Resuming, Roused
<1>6. CASE Dispatch
  <2>1. server = "dispatch" /\ "HUP" \notin ev /\ UNCHANGED <<rcv, wire, nospace, edge, ev, taskVars>>
    BY <1>6 DEF Dispatch
  <2>2. server' \in {"flag", "decide", "send", "wait"} /\ (server' = "flag" => task = "flag")
    BY <1>6, Resumed
  <2>3. server' = "flag" => ~writing
    BY <2>2 DEF Resuming
  <2>4. server' = "wait" => ~writing
    BY <1>6, Resumed DEF TypeOK
  <2> QED
    BY <1>1, <2>1, <2>2, <2>3, <2>4 DEF Resuming, Roused
<1>7. CASE StartDownload \/ StartDownloadFails \/ StartDownloadThrows
  <2>1. /\ rcv = <<GetRequest>> /\ server' \in {"flag", "wait"}
        /\ UNCHANGED <<nospace, edge, ev>> /\ task' \in {task, "done"}
        /\ writing' = writing \/ ~writing'
    BY <1>7 DEF StartDownload, StartDownloadFails, StartDownloadThrows
  <2>2. Fresh
    BY <1>1, <2>1 DEF Asking
  <2>3. ~writing' /\ ~nospace'
    BY <2>1, <2>2 DEF Fresh
  <2> QED
    BY <1>1, <2>1, <2>3 DEF Resuming, Roused
<1>8. CASE FlagYield
  <2>1. /\ server = "flag" /\ server' = "wait" /\ task' = "flag"
        /\ UNCHANGED <<writing, rcv, wire, nospace, edge, ev>>
    BY <1>8 DEF FlagYield, Yield
  <2> QED
    BY <1>1, <2>1 DEF Resuming, Roused
<1>9. CASE ReadFlag
  <2>1. /\ server = "flag" /\ server' = "send"
        /\ UNCHANGED <<wire, nospace, edge, ev, task, reading, writing>>
    BY <1>9 DEF ReadFlag
  <2> QED
    BY <1>1, <2>1 DEF Resuming, Roused
<1>10. CASE FlagMissing \/ SendDone
  <2>1. /\ task' = "done" /\ ~writing' /\ UNCHANGED <<wire, nospace, edge, ev>>
        /\ (server' = "closed" /\ Left) \/ server' = "wait"
    BY <1>10 DEF FlagMissing, SendDone, Finish
  <2> QED
    BY <1>1, <2>1 DEF Resuming, Roused
<1>11. CASE SendSome
  <2>1. /\ server = "send" /\ ~Left
        /\ UNCHANGED <<rcv, nospace, edge, ev, server, task, reading, writing>>
    BY <1>11 DEF SendSome
  <2>2. ~nospace
    <3>1. client \in {"small", "large"}
      BY <1>2, <2>1 DEF TypeOK, Left, Reading
    <3>2. Len(wire) \in Nat
      BY <3>1, LenProperties DEF Contents
    <3>3. \E k \in Nat \ {0} : k <= Window - Len(wire)
      BY <1>11, <3>2, SendSomeStep
    <3>4. Len(wire) # Window
      BY <3>2, <3>3, WindowAssumption
    <3> QED
      BY <3>4 DEF Resuming
  <2> QED
    BY <1>1, <2>1, <2>2 DEF Resuming, Roused
<1>12. CASE SendYield
  <2>1. /\ server = "send" /\ server' = "wait" /\ task' = "send" /\ ~Left
        /\ UNCHANGED <<rcv, wire, edge, ev>> /\ Len(wire) = Window
    BY <1>12 DEF SendYield, Yield
  <2> QED
    BY <1>1, <1>2, <2>1 DEF Resuming, Roused
<1>13. CASE SendStaleErrno
  <2>1. /\ server = "send" /\ server' = "wait" /\ task' = "send" /\ ~Left
        /\ UNCHANGED <<rcv, wire, nospace, edge, ev>>
    BY <1>13 DEF SendStaleErrno, Yield
  <2> QED
    BY <1>1, <1>2, <2>1 DEF Resuming, Roused
<1>14. CASE SendGivesUp
  <2>1. /\ server = "send" /\ server' = "wait" /\ task' = "done"
        /\ UNCHANGED <<rcv, wire, nospace, edge, ev, writing>>
    BY <1>14 DEF SendGivesUp
  <2> QED
    BY <1>1, <2>1 DEF Resuming, Roused
<1> QED
  BY <1>4, <1>5, <1>6, <1>7, <1>8, <1>9, <1>10, <1>11, <1>12, <1>13, <1>14 DEF Server

LEMMA ResumingNext ==
  ASSUME TypeOK, Contents, Asking, Resuming, [Next]_vars
  PROVE  Resuming'
<1>1. CASE Ages \/ UNCHANGED vars
  BY <1>1 DEF Ages, vars, clientVars, kernelVars, taskVars, Resuming, Roused, Left
<1>2. CASE Expires
  <2>1. /\ server' = "closed" /\ aged'
        /\ UNCHANGED <<client, wire, nospace, edge, ev, taskVars>>
    BY <1>2 DEF Expires, clientVars
  <2> QED
    BY <2>1 DEF Resuming, Roused, Left, taskVars
<1> QED
  BY <1>1, <1>2, ClientResuming, EnvironmentResuming, ServerResuming
  DEF Next, Tick, Environment

------------------------------------------------------------------------------
(* The two sides. *)

LEMMA SidesInit == Init => Sides
<1> SUFFICES ASSUME Init
             PROVE  Sides
  OBVIOUS
<1>1. size \in Nat /\ disk = Prefix(size) /\ off = 0 /\ announced = size /\ client = "start"
  BY SizesAssumption DEF Init
<1>2. \A i \in 1..size : Data(i) \in Byte
  BY <1>1, Tokens
<1>3. Len(disk) = size /\ \A i \in 1..size : disk[i] = Data(i)
  BY <1>1, <1>2, PrefixProperties
<1> QED
  BY <1>1, <1>3 DEF Sides

\* As long as it is not replaced, the server's file is what was asked for.
LEMMA DiskLength ==
  ASSUME TypeOK, Sides, ~replaced
  PROVE  Len(disk) = size /\ \A i \in 1..size : disk[i] = Data(i)
<1>1. size \in Nat /\ \A i \in 1..size : Data(i) \in Byte
  BY Numbers, Tokens
<1> QED
  BY <1>1, PrefixProperties DEF Sides

LEMMA SidesNext ==
  ASSUME TypeOK, Contents, Asking, Sides, [Next]_vars
  PROVE  Sides'
<1> USE DEF clientVars, kernelVars, taskVars
<1>1. CASE ReadSize
  <2>1. PICK n \in Sizes : wire = <<SizeOf(n)>> /\ announced' = n
                           /\ client' = IF n < Max THEN "small" ELSE "large"
    BY <1>1 DEF ReadSize
  <2>2. /\ client = "size" /\ UNCHANGED <<size, disk, replaced, buf, file, off>>
    BY <1>1 DEF ReadSize
  <2>3. n \in Nat /\ SizeOf(n) # NoFile /\ (SizeOf(n) = SizeOf(size) => n = size)
    BY Tokens, SizesAssumption, Numbers
  <2>4. ~replaced => n = size
    BY <2>1, <2>2, <2>3 DEF Asking
  <2>5. file = <<>> /\ buf = <<>>
    BY <2>2 DEF Asking
  <2> QED
    BY <2>1, <2>2, <2>4, <2>5 DEF Sides
<1>2. CASE AskFile \/ OpenFails \/ NotFound \/ ReadFails \/ SmallEmpty \/ SmallEnd \/ LargeRead
             \/ LargeEnd \/ ClientKilled
  <2>1. client' # "small" /\ UNCHANGED <<size, disk, replaced, announced, off>>
    BY <1>2 DEF AskFile, OpenFails, NotFound, ReadFails, SmallEmpty, SmallEnd, LargeRead,
       LargeEnd, ClientKilled
  <2> QED
    BY <2>1 DEF Sides
<1>3. CASE SmallRead
  <2>1. PICK k \in 1..Len(wire) :
           /\ client = "small" /\ k <= announced - Len(buf)
           /\ Takes(k) /\ buf' = Got(k)
           /\ \/ client' = "done"
              \/ Len(Got(k)) # announced /\ UNCHANGED <<file, client>>
    BY <1>3, SmallReadStep
  <2>2. Len(Got(k)) = Len(buf) + k /\ Len(buf) \in Nat /\ Len(wire) \in Nat /\ announced \in Nat
    BY <2>1, GotProperties, Numbers
  <2>3. client' = "small" => file' = <<>> /\ Len(buf') < announced
    BY <2>1, <2>2 DEF Sides
  <2> QED
    BY <2>1, <2>3 DEF Takes, Sides
<1>4. CASE ServerStopped \/ Ages \/ Expires \/ UNCHANGED vars
  BY <1>4 DEF ServerStopped, Ages, Expires, vars, Sides
<1>5. CASE Truncate \/ Rewrite
  <2>1. replaced' = TRUE /\ UNCHANGED <<size, client, announced, buf, file>>
    BY <1>5 DEF Truncate, Rewrite
  <2>2. \A i \in 1..Len(disk') : disk'[i] \in {Data(i), New(i)}
    <3>1. CASE Truncate
      BY <3>1 DEF Truncate
    <3>2. CASE Rewrite
      <4>1. PICK n \in Sizes \ {0} : disk' = [i \in 1..n |-> New(i)]
        BY <3>2 DEF Rewrite
      <4>2. n \in Nat
        BY SizesAssumption
      <4> QED
        BY <4>1, <4>2
    <3> QED
      BY <1>5, <3>1, <3>2
  <2> QED
    BY <2>1, <2>2 DEF Sides
<1>6. CASE SendSome
  <2>1. client \in {"small", "large"}
    BY <1>6 DEF SendSome, Asking, TypeOK, Left, Reading
  <2>2. Len(wire) \in Nat
    BY <2>1, LenProperties DEF Contents
  <2>3. /\ UNCHANGED <<size, disk, replaced, clientVars>>
        /\ \E k \in Nat \ {0} : k <= Len(disk) - off /\ off' = off + k
    BY <1>6, <2>2, SendSomeStep
  <2>4. ~replaced => off' <= size
    BY <2>3, DiskLength, Numbers
  <2> QED
    BY <2>3, <2>4 DEF Sides
<1>7. ASSUME Server, ~SendSome
      PROVE  Sides'
  <2>1. UNCHANGED <<size, disk, replaced, clientVars>> /\ (off' = off \/ off' = 0)
    BY <1>7 DEF Server, EpollWait, Disconnect, Dispatch, StartDownload, StartDownloadFails,
       StartDownloadThrows, UnknownRequest, FlagYield, ReadFlag, FlagMissing,
       SendYield, SendDone, SendStaleErrno, SendGivesUp, Yield, Finish
  <2> QED
    BY <2>1, Numbers DEF Sides
<1> QED
  BY <1>1, <1>2, <1>3, <1>4, <1>5, <1>6, <1>7 DEF Next, Tick, Client, Environment

------------------------------------------------------------------------------
(* The stream. *)

LEMMA StreamParts ==
  ASSUME TypeOK, Contents, client \in {"small", "large"}
  PROVE  /\ file \in Seq(FileByte) /\ buf \in Seq(FileByte) /\ wire \in Seq(FileByte)
         /\ Cat(file, buf) \in Seq(FileByte) /\ Stream \in Seq(FileByte)
         /\ Len(file) \in Nat /\ Len(buf) \in Nat /\ Len(wire) \in Nat
<1>1. file \in Seq(FileByte) /\ buf \in Seq(FileByte) /\ wire \in Seq(FileByte)
  BY Numbers, Tokens DEF Contents
<1>2. Cat(file, buf) \in Seq(FileByte)
  BY <1>1, CatProperties
<1>3. Stream \in Seq(FileByte)
  BY <1>1, <1>2, CatProperties DEF Stream
<1> QED
  BY <1>1, <1>2, <1>3, LenProperties

\* The front of a stream in place is in place.
LEMMA FrontInPlace ==
  ASSUME TypeOK, Contents, InPlace, client \in {"small", "large"},
         NEW f \in Seq(FileByte), NEW r \in Seq(FileByte), Cat(f, r) = Stream
  PROVE  /\ Len(f) \in 0..off
         /\ \A i \in 1..Len(f) : IsByteOf(f[i], i)
         /\ ~replaced => f = Prefix(Len(f))
<1>1. /\ Len(Cat(f, r)) = Len(f) + Len(r) /\ Len(f) \in Nat /\ Len(r) \in Nat
      /\ \A i \in 1..Len(f) : Cat(f, r)[i] = f[i]
  BY CatProperties
<1>2. off \in Nat /\ Len(Stream) = off /\ \A i \in 1..off : IsByteOf(Stream[i], i)
  BY Numbers DEF InPlace
<1>3. Len(f) \in 0..off /\ \A i \in 1..Len(f) : IsByteOf(f[i], i)
  BY <1>1, <1>2
<1>4. ~replaced => f = Prefix(Len(f))
  BY <1>3, InPlaceIsPrefix DEF IsByteOf
<1> QED
  BY <1>3, <1>4

\* The file on the client's disk, now and after a flush, is such a front.
LEMMA FileInPlace ==
  ASSUME TypeOK, Contents, InPlace, client \in {"small", "large"}
  PROVE  /\ Len(file) \in 0..off
         /\ \A i \in 1..Len(file) : IsByteOf(file[i], i)
         /\ ~replaced => file = Prefix(Len(file))
<1>1. /\ file \in Seq(FileByte) /\ buf \in Seq(FileByte) /\ wire \in Seq(FileByte)
      /\ Cat(buf, wire) \in Seq(FileByte)
  BY StreamParts, CatProperties
<1>2. Cat(file, Cat(buf, wire)) = Stream
  BY <1>1, CatAssociative DEF Stream
<1> QED
  BY <1>1, <1>2, FrontInPlace

LEMMA FlushInPlace ==
  ASSUME TypeOK, Contents, InPlace, client \in {"small", "large"}, NEW k \in 1..Len(wire)
  PROVE  /\ Len(Cat(file, Got(k))) = Len(file) + Len(Got(k))
         /\ Len(Cat(file, Got(k))) \in 0..off
         /\ \A i \in 1..Len(Cat(file, Got(k))) : IsByteOf(Cat(file, Got(k))[i], i)
         /\ ~replaced => Cat(file, Got(k)) = Prefix(Len(Cat(file, Got(k))))
<1>1. /\ Got(k) \in Seq(FileByte) /\ Rest(k) \in Seq(FileByte) /\ file \in Seq(FileByte)
      /\ Cat(Cat(file, Got(k)), Rest(k)) = Stream
  BY GotProperties, StreamParts, Tokens
<1>2. Cat(file, Got(k)) \in Seq(FileByte) /\ Len(Cat(file, Got(k))) = Len(file) + Len(Got(k))
  BY <1>1, CatProperties
<1> QED
  BY <1>1, <1>2, FrontInPlace

LEMMA ChunkInPlace ==
  ASSUME TypeOK, Contents, Sides, InPlace, client \in {"small", "large"},
         NEW k \in Nat \ {0}, k <= Len(disk) - off
  PROVE  /\ Cat(Cat(file, buf), Cat(wire, Chunk(k))) = Cat(Stream, Chunk(k))
         /\ Len(Cat(Stream, Chunk(k))) = off + k
         /\ \A i \in 1..(off + k) : IsByteOf(Cat(Stream, Chunk(k))[i], i)
<1>1. /\ Chunk(k) \in Seq(FileByte) /\ Len(Chunk(k)) = k
      /\ \A i \in 1..k : Chunk(k)[i] = disk[off + i]
  BY ChunkProperties, Tokens
<1>2. /\ Cat(file, buf) \in Seq(FileByte) /\ wire \in Seq(FileByte) /\ Stream \in Seq(FileByte)
      /\ Len(Stream) = off /\ off \in Nat /\ Len(disk) \in Nat
      /\ \A i \in 1..off : IsByteOf(Stream[i], i)
  BY StreamParts, Numbers DEF InPlace
<1>3. Cat(Cat(file, buf), Cat(wire, Chunk(k))) = Cat(Stream, Chunk(k))
  BY <1>1, <1>2, CatAssociative DEF Stream
<1>4. \A i \in 1..Len(disk) : IsByteOf(disk[i], i)
  BY DiskLength DEF Sides, IsByteOf
<1>5. /\ Len(Cat(Stream, Chunk(k))) = off + k
      /\ \A i \in 1..off : Cat(Stream, Chunk(k))[i] = Stream[i]
      /\ \A i \in 1..k : Cat(Stream, Chunk(k))[off + i] = Chunk(k)[i]
  <2>1. ASSUME NEW p \in Seq(FileByte), NEW q \in Seq(FileByte), Len(p) = off, Len(q) = k
        PROVE  /\ Len(Cat(p, q)) = off + k
               /\ \A i \in 1..off : Cat(p, q)[i] = p[i]
               /\ \A i \in 1..k : Cat(p, q)[off + i] = q[i]
    <3>1. /\ Len(Cat(p, q)) = Len(p) + Len(q)
          /\ \A i \in 1..Len(p) : Cat(p, q)[i] = p[i]
          /\ \A i \in 1..Len(q) : Cat(p, q)[Len(p) + i] = q[i]
      BY ConcatProperties DEF Cat
    <3> QED
      BY <2>1, <3>1
  <2>2. Stream \in Seq(FileByte) /\ Chunk(k) \in Seq(FileByte)
    BY <1>1, <1>2
  <2>3. Len(Stream) = off /\ Len(Chunk(k)) = k
    BY <1>1, <1>2
  <2> QED
    BY <2>1, <2>2, <2>3, Zenon
<1>6. \A i \in 1..(off + k) : IsByteOf(Cat(Stream, Chunk(k))[i], i)
  <2> TAKE i \in 1..(off + k)
  <2>1. CASE i <= off
    BY <1>2, <1>5, <2>1
  <2>2. CASE i > off
    <3>1. i - off \in 1..k /\ off + (i - off) = i /\ i \in 1..Len(disk)
      BY <1>2, <2>2
    <3>2. Cat(Stream, Chunk(k))[off + (i - off)] = disk[off + (i - off)]
      BY <1>1, <1>5, <3>1
    <3> QED
      BY <1>4, <3>1, <3>2
  <2> QED
    BY <1>2, <2>1, <2>2
<1> QED
  BY <1>3, <1>5, <1>6

LEMMA InPlaceInit == Init => InPlace
<1> SUFFICES ASSUME Init
             PROVE  InPlace
  OBVIOUS
<1>1. client = "start"
  BY DEF Init
<1> QED
  BY <1>1 DEF InPlace

LEMMA InPlaceNext ==
  ASSUME TypeOK, Contents, Asking, Sides, InPlace, [Next]_vars
  PROVE  InPlace'
<1> USE DEF clientVars, kernelVars, taskVars
<1>1. ASSUME client' \in {"small", "large"} => client' = client,
             Stream' = Stream, off' = off, replaced => replaced'
      PROVE  InPlace'
  <2>1. \A x, i : IsByteOf(x, i) => IsByteOf(x, i)'
    BY <1>1 DEF IsByteOf
  <2> QED
    BY <1>1, <2>1 DEF InPlace
<1>2. CASE ReadSize
  <2>1. client = "size" /\ wire' = <<>> /\ UNCHANGED <<buf, file, off>>
    BY <1>2 DEF ReadSize
  <2>2. file' = <<>> /\ buf' = <<>> /\ off' = 0
    BY <2>1 DEF Asking
  <2>3. Stream' = <<>>
    BY <2>1, <2>2 DEF Stream, Cat
  <2> QED
    BY <2>2, <2>3 DEF InPlace
<1>3. CASE AskFile \/ OpenFails \/ NotFound \/ ReadFails \/ SmallEmpty \/ SmallEnd
             \/ LargeEnd \/ ClientKilled
  <2>1. client' \notin {"small", "large"}
    BY <1>3 DEF AskFile, OpenFails, NotFound, ReadFails, SmallEmpty, SmallEnd, LargeEnd,
       ClientKilled
  <2> QED
    BY <2>1 DEF InPlace
<1>4. CASE SmallRead
  <2>1. PICK k \in 1..Len(wire) :
           /\ client = "small" /\ Takes(k) /\ buf' = Got(k)
           /\ client' = "done" \/ UNCHANGED <<file, client>>
    BY <1>4, SmallReadStep
  <2>2. CASE client' = "done"
    BY <2>2 DEF InPlace
  <2>3. CASE UNCHANGED <<file, client>>
    <3>1. Stream' = Stream
      BY <2>1, <2>3, GotProperties DEF Takes, Stream
    <3> QED
      BY <1>1, <2>1, <2>3, <3>1 DEF Takes
  <2> QED
    BY <2>1, <2>2, <2>3
<1>5. CASE LargeRead
  <2>1. PICK k \in 1..Len(wire) :
           /\ client = "large" /\ Takes(k)
           /\ \/ /\ file' = Cat(file, Got(k)) /\ buf' = <<>>
                 /\ client' = "done" \/ UNCHANGED client
              \/ buf' = Got(k) /\ UNCHANGED <<file, client>>
    BY <1>5, LargeReadStep
  <2>2. CASE client' = "done"
    BY <2>2 DEF InPlace
  <2>3. CASE file' = Cat(file, Got(k)) /\ buf' = <<>> /\ UNCHANGED client
    <3>1. Cat(file, Got(k)) \in Seq(FileByte)
      <4>1. file \in Seq(FileByte) /\ Got(k) \in Seq(FileByte)
        BY <2>1, GotProperties, StreamParts, Tokens
      <4> QED
        BY <4>1, CatProperties
    <3>2. Cat(file', buf') = file'
      BY <2>3, <3>1, CatEmpty
    <3>3. Stream' = Stream
      BY <2>1, <2>3, <3>2, GotProperties DEF Takes, Stream
    <3> QED
      BY <1>1, <2>1, <2>3, <3>3 DEF Takes
  <2>4. CASE buf' = Got(k) /\ UNCHANGED <<file, client>>
    <3>1. Stream' = Stream
      BY <2>1, <2>4, GotProperties DEF Takes, Stream
    <3> QED
      BY <1>1, <2>1, <2>4, <3>1 DEF Takes
  <2> QED
    BY <2>1, <2>2, <2>3, <2>4
<1>6. CASE ServerStopped \/ Truncate \/ Rewrite \/ Tick \/ UNCHANGED vars
  <2>1. UNCHANGED <<client, file, buf, wire, off>> /\ (replaced => replaced')
    BY <1>6 DEF ServerStopped, Truncate, Rewrite, Tick, Ages, Expires, vars
  <2> QED
    BY <1>1, <2>1 DEF Stream
<1>7. CASE SendSome
  <2>1. client \in {"small", "large"}
    BY <1>7 DEF SendSome, Asking, TypeOK, Left, Reading
  <2>2. PICK k \in Nat \ {0} :
           /\ k <= Len(disk) - off
           /\ wire' = Cat(wire, Chunk(k)) /\ off' = off + k
           /\ UNCHANGED <<replaced, clientVars>>
    BY <1>7, <2>1, StreamParts, SendSomeStep
  <2>3. /\ Stream' = Cat(Stream, Chunk(k)) /\ Len(Stream') = off'
        /\ \A i \in 1..off' : IsByteOf(Stream'[i], i)
    BY <2>1, <2>2, ChunkInPlace DEF Stream
  <2> QED
    BY <2>2, <2>3 DEF InPlace, IsByteOf
<1>8. CASE StartDownload \/ StartDownloadFails \/ StartDownloadThrows
  <2>1. client \notin {"small", "large"} /\ UNCHANGED client
    BY <1>8 DEF StartDownload, StartDownloadFails, StartDownloadThrows, Asking
  <2> QED
    BY <2>1 DEF InPlace
<1>9. CASE ReadFlag
  <2>1. UNCHANGED <<client, file, buf, wire, replaced>> /\ off' = 0 /\ off = 0
    BY <1>9 DEF ReadFlag, Asking, AwaitsFlag, Gone
  <2> QED
    BY <1>1, <2>1 DEF Stream
<1>10. CASE EpollWait \/ Disconnect \/ Dispatch \/ UnknownRequest \/ FlagYield \/ FlagMissing
              \/ SendYield \/ SendDone \/ SendStaleErrno \/ SendGivesUp
  <2>1. UNCHANGED <<client, file, buf, wire, off, replaced>>
    BY <1>10 DEF EpollWait, Disconnect, Dispatch, UnknownRequest, FlagYield, FlagMissing,
       SendYield, SendDone, SendStaleErrno, SendGivesUp, Yield, Finish
  <2> QED
    BY <1>1, <2>1 DEF Stream
<1> QED
  BY <1>2, <1>3, <1>4, <1>5, <1>6, <1>7, <1>8, <1>9, <1>10 
  DEF Next, Tick, Client, Environment, Server

------------------------------------------------------------------------------
(* The kinds of steps: what a step does to the file on the client's disk,   *)
(* to the offset of sendfile and to the client's opinion of the transfer.   *)

Unmoved ==
    /\ UNCHANGED <<size, file>>
    /\ off' \in off..size
    /\ client' = client \/ (client \notin Ended /\ client' \notin Ended)

Grows ==
    /\ client \notin Ended
    /\ UNCHANGED <<size, off, client>>
    /\ \E n \in Len(file)..off : file' = Prefix(n)

Succeeds ==
    /\ client \notin Ended /\ client' = "done"
    /\ UNCHANGED <<size, off>>
    /\ off = size /\ file' = Prefix(size)

BreaksOff ==
    /\ client \notin Ended /\ client' \in Ended \ {"done"}
    /\ UNCHANGED <<size, off>>
    /\ \E n \in Len(file)..off :
         \/ file' = Prefix(n)
         \/ file' = Cat(Prefix(n), Zeros(size - n)) /\ client' = "short"

\* The file of a client that is not done.
LEMMA FileNow ==
  ASSUME TypeOK, Contents, Asking, InPlace, client \notin Ended
  PROVE  /\ Len(file) \in 0..off
         /\ \A i \in 1..Len(file) : IsByteOf(file[i], i)
         /\ ~replaced => file = Prefix(Len(file))
<1>1. CASE client \in {"start", "size"}
  <2>1. file = <<>> /\ Len(file) = 0 /\ off = 0
    BY <1>1 DEF Asking
  <2> QED
    BY <2>1, PrefixOfNothing
<1>2. CASE client \in {"small", "large"}
  BY <1>2, FileInPlace
<1> QED
  BY <1>1, <1>2 DEF TypeOK, Reading

\* A read of the client that writes the file: what it writes is in place, and
\* it is the whole file when the client is done.
LEMMA WritingRead ==
  ASSUME TypeOK, Contents, Sides, InPlace, SmallRead \/ LargeRead
  PROVE  /\ client \in {"small", "large"} /\ client' \in {client, "done"}
         /\ UNCHANGED <<size, announced, replaced, off>>
         /\ \/ UNCHANGED <<file, client>>
            \/ /\ Len(file') \in Len(file)..off
               /\ \A i \in 1..Len(file') : IsByteOf(file'[i], i)
               /\ ~replaced => file' = Prefix(Len(file'))
               /\ client' = "done" => Len(file') >= announced
<1> USE DEF taskVars
<1>1. CASE SmallRead
  <2>1. PICK k \in 1..Len(wire) :
           /\ client = "small" /\ Takes(k)
           /\ \/ Len(Got(k)) = announced /\ file' = Got(k) /\ client' = "done"
              \/ UNCHANGED <<file, client>>
    BY <1>1, SmallReadStep
  <2>2. UNCHANGED <<size, announced, replaced, off>>
    BY <2>1 DEF Takes
  <2>3. CASE Len(Got(k)) = announced /\ file' = Got(k) /\ client' = "done"
    <3>1. file = <<>> /\ Len(file) = 0
      BY <2>1 DEF Sides
    <3>2. Got(k) \in Seq(FileByte)
      BY <2>1, GotProperties, Tokens
    <3>3. file' = Cat(file, Got(k))
      BY <2>3, <3>1, <3>2, CatEmpty
    <3>4. /\ Len(Cat(file, Got(k))) \in 0..off
          /\ \A i \in 1..Len(Cat(file, Got(k))) : IsByteOf(Cat(file, Got(k))[i], i)
          /\ ~replaced => Cat(file, Got(k)) = Prefix(Len(Cat(file, Got(k))))
      BY <2>1, FlushInPlace
    <3>5. Len(file') >= announced
      BY <2>3, Numbers
    <3> QED
      BY <2>1, <2>2, <2>3, <3>1, <3>3, <3>4, <3>5
  <2> QED
    BY <2>1, <2>2, <2>3
<1>2. CASE LargeRead
  <2>1. PICK k \in 1..Len(wire) :
           /\ client = "large" /\ Takes(k)
           /\ \/ /\ file' = Cat(file, Got(k))
                 /\ \/ Len(file') >= announced /\ client' = "done"
                    \/ UNCHANGED client
              \/ UNCHANGED <<file, client>>
    BY <1>2, LargeReadStep
  <2>2. UNCHANGED <<size, announced, replaced, off>>
    BY <2>1 DEF Takes
  <2>3. CASE /\ file' = Cat(file, Got(k))
             /\ \/ Len(file') >= announced /\ client' = "done"
                \/ UNCHANGED client
    <3>1. /\ Len(Cat(file, Got(k))) = Len(file) + Len(Got(k))
          /\ Len(Cat(file, Got(k))) \in 0..off
          /\ \A i \in 1..Len(Cat(file, Got(k))) : IsByteOf(Cat(file, Got(k))[i], i)
          /\ ~replaced => Cat(file, Got(k)) = Prefix(Len(Cat(file, Got(k))))
      BY <2>1, FlushInPlace
    <3>2. Len(Got(k)) \in Nat /\ Len(file) \in Nat
      BY <2>1, GotProperties, StreamParts, LenProperties
    <3>3. Len(file') \in Len(file)..off
      BY <2>3, <3>1, <3>2
    <3> QED
      BY <2>1, <2>2, <2>3, <3>1, <3>3
  <2> QED
    BY <2>1, <2>2, <2>3
<1> QED
  BY <1>1, <1>2

\* The server closes only a connection whose client has left: a client that
\* still reads finds the end of the stream only when the server was stopped or
\* an alarm closed the download.
Broken == server = "stopped" \/ (server = "closed" /\ aged)

LEMMA EndIsBroken ==
  ASSUME Resuming, End, client \notin Ended
  PROVE  Broken
  BY DEF End, Gone, Resuming, Left, Broken

\* The file that was asked for keeps its size, and stays replaced.
LEMMA ReplacedForGood ==
  ASSUME [Next]_vars
  PROVE  size' = size /\ (replaced => replaced')
<1>1. CASE Client \/ Tick \/ UNCHANGED vars
  BY <1>1 DEF Client, AskFile, ReadSize, OpenFails, NotFound, ReadFails, SmallRead, SmallEmpty,
     SmallEnd, LargeRead, LargeEnd, Tick, Ages, Expires, vars
<1>2. CASE Environment
  <2>1. CASE Truncate
    BY <2>1 DEF Truncate
  <2>2. CASE ClientKilled \/ ServerStopped \/ Rewrite
    BY <2>2 DEF ClientKilled, ServerStopped, Rewrite
  <2> QED
    BY <1>2, <2>1, <2>2 DEF Environment
<1>3. CASE Server
  <2>1. UNCHANGED <<size, replaced>>
    BY <1>3 DEF Server, EpollWait, Disconnect, Dispatch, StartDownload, StartDownloadFails,
       StartDownloadThrows, UnknownRequest, FlagYield, ReadFlag, FlagMissing, SendSome,
       SendYield, SendDone, SendStaleErrno, SendGivesUp, Yield, Finish
  <2> QED
    BY <2>1
<1> QED
  BY <1>1, <1>2, <1>3 DEF Next, Tick

LEMMA StepKinds ==
  ASSUME TypeOK, Contents, Asking, Sides, InPlace, [Next]_vars, ~replaced'
  PROVE  Unmoved \/ Grows \/ Succeeds \/ BreaksOff
<1> USE DEF clientVars, kernelVars, taskVars
<1>1. ~replaced
  BY ReplacedForGood
<1>2. off \in Nat /\ size \in Nat /\ off <= size /\ announced = size
  BY <1>1, Numbers DEF Sides
<1>3. CASE AskFile \/ ReadSize \/ ServerStopped \/ Tick \/ UNCHANGED vars
  <2>1. UNCHANGED <<size, file, off>>
    BY <1>3 DEF AskFile, ReadSize, ServerStopped, Tick, Ages, Expires, vars
  <2>2. client' = client \/ (client \notin Ended /\ client' \notin Ended)
    BY <1>3 DEF AskFile, ReadSize, ServerStopped, Tick, Ages, Expires, vars, Ended
  <2> QED
    BY <1>2, <2>1, <2>2 DEF Unmoved
<1>4. CASE OpenFails \/ NotFound \/ ReadFails \/ SmallEmpty \/ LargeEnd \/ ClientKilled
  <2>1. /\ client \notin Ended /\ client' \in Ended \ {"done"}
        /\ UNCHANGED <<size, off, file>>
    BY <1>4 DEF OpenFails, NotFound, ReadFails, SmallEmpty, LargeEnd, ClientKilled, Ended, Reading
  <2>2. Len(file) \in Len(file)..off /\ file' = Prefix(Len(file))
    BY <1>1, <1>2, <2>1, FileNow
  <2> QED
    BY <2>1, <2>2 DEF BreaksOff
<1>5. CASE SmallEnd
  <2>1. /\ client = "small" /\ client' = "short" /\ file' = Zeros(announced)
        /\ UNCHANGED <<size, off>>
    BY <1>5 DEF SmallEnd
  <2>2. Len(file) = 0 /\ 0 \in Len(file)..off
    BY <1>2, <2>1 DEF Sides
  <2>3. Zeros(size) \in Seq(FileByte)
    BY <1>2, Tokens, ZerosProperties
  <2>4. Zeros(size) = Cat(Prefix(0), Zeros(size - 0))
    BY <1>2, <2>3, CatEmpty, PrefixOfNothing
  <2> QED
    BY <1>2, <2>1, <2>2, <2>4 DEF BreaksOff, Ended
<1>6. CASE SmallRead \/ LargeRead
  <2>1. /\ client \in {"small", "large"} /\ client' \in {client, "done"}
        /\ UNCHANGED <<size, off>>
        /\ \/ UNCHANGED <<file, client>>
           \/ /\ Len(file') \in Len(file)..off
              /\ file' = Prefix(Len(file'))
              /\ client' = "done" => Len(file') >= size
    BY <1>1, <1>2, <1>6, WritingRead
  <2>2. client \notin Ended
    BY <2>1 DEF Ended
  <2>3. Len(file) \in Nat
    BY <2>1, StreamParts
  <2>4. CASE UNCHANGED <<file, client>>
    BY <1>2, <2>1, <2>4 DEF Unmoved
  <2>5. CASE client' = client /\ Len(file') \in Len(file)..off /\ file' = Prefix(Len(file'))
    BY <2>1, <2>2, <2>5 DEF Grows
  <2>6. CASE /\ client' = "done" /\ Len(file') \in Len(file)..off
             /\ file' = Prefix(Len(file')) /\ Len(file') >= size
    <3>1. Len(file') = size /\ off = size
      BY <1>2, <2>3, <2>6
    <3> QED
      BY <2>1, <2>2, <2>6, <3>1 DEF Succeeds
  <2> QED
    BY <2>1, <2>4, <2>5, <2>6
<1>7. CASE SendSome
  <2>1. client \in {"small", "large"}
    BY <1>7 DEF SendSome, Asking, TypeOK, Left, Reading
  <2>2. /\ UNCHANGED <<size, clientVars>>
        /\ \E k \in Nat \ {0} : k <= Len(disk) - off /\ off' = off + k
    BY <1>7, <2>1, StreamParts, SendSomeStep
  <2>3. off' \in off..size
    BY <1>1, <1>2, <2>2, DiskLength
  <2> QED
    BY <2>2, <2>3 DEF Unmoved
<1>8. CASE ReadFlag
  <2>1. UNCHANGED <<size, client, file>> /\ off' = 0 /\ off = 0
    BY <1>8 DEF ReadFlag, Asking, AwaitsFlag, Gone
  <2> QED
    BY <1>2, <2>1 DEF Unmoved
<1>9. ASSUME Server, ~SendSome, ~ReadFlag
      PROVE  Unmoved
  <2>1. UNCHANGED <<size, client, file, off>>
    BY <1>9 DEF Server, EpollWait, Disconnect, Dispatch, StartDownload, StartDownloadFails,
       StartDownloadThrows, UnknownRequest, FlagYield, FlagMissing, SendYield, SendDone,
       SendStaleErrno, SendGivesUp, Yield, Finish
  <2> QED
    BY <1>2, <2>1 DEF Unmoved
<1>10. CASE Truncate \/ Rewrite
  BY <1>1, <1>10 DEF Truncate, Rewrite
<1> QED
  BY <1>3, <1>4, <1>5, <1>6, <1>7, <1>8, <1>9, <1>10 DEF Next, Tick, Client, Environment

------------------------------------------------------------------------------
(* What became of the transfer. *)

LEMMA FinishedInit == Init => Finished
<1> SUFFICES ASSUME Init
             PROVE  Finished
  OBVIOUS
<1>1. file = <<>> /\ Len(file) = 0 /\ client = "start"
  BY DEF Init
<1> QED
  BY <1>1 DEF Finished, EveryByteInPlace

LEMMA EveryByteNext ==
  ASSUME TypeOK, Contents, Asking, Sides, InPlace, EveryByteInPlace, [Next]_vars
  PROVE  EveryByteInPlace'
<1> USE DEF clientVars, kernelVars, taskVars
<1>1. CASE UNCHANGED <<file, client, announced>>
  BY <1>1 DEF EveryByteInPlace
<1>2. ASSUME client \notin Ended, UNCHANGED file
      PROVE  EveryByteInPlace'
  BY <1>2, FileNow DEF EveryByteInPlace, IsByteOf
<1>3. CASE AskFile \/ ReadSize \/ OpenFails \/ NotFound \/ ReadFails \/ SmallEmpty \/ LargeEnd
             \/ ClientKilled
  <2>1. client \notin Ended /\ UNCHANGED file
    BY <1>3 DEF AskFile, ReadSize, OpenFails, NotFound, ReadFails, SmallEmpty, LargeEnd,
       ClientKilled, Ended, Reading
  <2> QED
    BY <1>2, <2>1
<1>4. CASE SmallRead \/ LargeRead
  <2>1. \/ UNCHANGED <<file, client, announced>>
        \/ \A i \in 1..Len(file') : IsByteOf(file'[i], i)
    BY <1>4, WritingRead
  <2> QED
    BY <1>1, <2>1 DEF EveryByteInPlace, IsByteOf
<1>5. CASE SmallEnd
  <2>1. /\ client' = "short" /\ announced' = announced /\ announced < Max
        /\ file' = Zeros(announced)
    BY <1>5 DEF SmallEnd, Sides
  <2>2. Len(file') = announced /\ \A i \in 1..announced : file'[i] = Zero
    BY <2>1, Numbers, Tokens, ZerosProperties
  <2> QED
    BY <2>1, <2>2 DEF EveryByteInPlace
<1>6. CASE ServerStopped \/ Truncate \/ Rewrite \/ Server \/ Tick \/ UNCHANGED vars
  <2>1. UNCHANGED <<file, client, announced>>
    BY <1>6 DEF ServerStopped, Truncate, Rewrite, Server, EpollWait, Disconnect, Dispatch,
       StartDownload, StartDownloadFails, StartDownloadThrows, UnknownRequest, FlagYield,
       ReadFlag, FlagMissing, SendSome, SendYield, SendDone, SendStaleErrno, SendGivesUp,
       Yield, Finish, Tick, Ages, Expires, vars
  <2> QED
    BY <1>1, <2>1
<1> QED
  BY <1>3, <1>4, <1>5, <1>6 DEF Next, Tick, Client, Environment

LEMMA ShortMeansBroken ==
  ASSUME TypeOK, Resuming, client = "short" => Broken, [Next]_vars
  PROVE  client' = "short" => Broken'
<1> USE DEF clientVars, kernelVars, taskVars
<1>1. CASE Client
  <2>1. client \notin Ended /\ UNCHANGED <<server, aged>> /\ (client' = "short" => End)
    BY <1>1 DEF Client, AskFile, ReadSize, OpenFails, NotFound, ReadFails, SmallRead,
       SmallEmpty, SmallEnd, LargeRead, LargeEnd, Ended, Reading
  <2> QED
    BY <2>1, EndIsBroken DEF Broken
<1>2. CASE Environment \/ Tick \/ UNCHANGED vars
  <2>1. client' = "short" => client = "short"
    BY <1>2 DEF Environment, ClientKilled, ServerStopped, Truncate, Rewrite, Tick, Ages,
       Expires, vars
  <2>2. \/ server' = server /\ (aged => aged')
        \/ server' = "stopped"
        \/ server' = "closed" /\ aged'
    BY <1>2 DEF Environment, ClientKilled, ServerStopped, Truncate, Rewrite, Tick, Ages,
       Expires, vars
  <2> QED
    BY <2>1, <2>2 DEF Broken
<1>3. CASE Server
  <2>1. UNCHANGED client /\ ~Gone
    BY <1>3 DEF Server, EpollWait, Disconnect, Dispatch, StartDownload, StartDownloadFails,
       StartDownloadThrows, UnknownRequest, FlagYield, ReadFlag, FlagMissing, SendSome,
       SendYield, SendDone, SendStaleErrno, SendGivesUp, Yield, Finish, Gone
  <2> QED
    BY <2>1 DEF Broken, Gone
<1> QED
  BY <1>1, <1>2, <1>3 DEF Next

LEMMA FinishedNext ==
  ASSUME TypeOK, Contents, Asking, Resuming, Sides, InPlace, Finished, [Next]_vars
  PROVE  Finished'
<1>1. EveryByteInPlace' /\ (client' = "short" => Broken')
  BY EveryByteNext, ShortMeansBroken DEF Finished, Broken
<1>2. ASSUME client' = "done", ~replaced'
      PROVE  file' = Prefix(size')
  <2>1. Unmoved \/ Grows \/ Succeeds \/ BreaksOff
    BY <1>2, StepKinds
  <2>2. CASE Unmoved
    <3>1. client = "done" /\ UNCHANGED <<size, file>> /\ ~replaced
      <4>1. ~replaced
        BY <1>2, ReplacedForGood
      <4> QED
        BY <1>2, <2>2, <4>1 DEF Unmoved, Ended
    <3> QED
      BY <3>1 DEF Finished
  <2>3. CASE Grows \/ BreaksOff
    BY <1>2, <2>3 DEF Grows, BreaksOff, Ended
  <2>4. CASE Succeeds
    BY <2>4 DEF Succeeds
  <2> QED
    BY <2>1, <2>2, <2>3, <2>4
<1> QED
  BY <1>1, <1>2 DEF Finished, Broken

------------------------------------------------------------------------------
(* The theorems. *)

LEMMA IInvInit == Init => IInv
  BY TypeInit, AskingInit, ResumingInit, SidesInit, InPlaceInit, FinishedInit DEF IInv

LEMMA IInvNext == IInv /\ [Next]_vars => IInv'
<1> SUFFICES ASSUME IInv, [Next]_vars
             PROVE  IInv'
  OBVIOUS
<1>1. TypeOK /\ Contents /\ Asking /\ Resuming /\ Sides /\ InPlace /\ Finished
  BY DEF IInv
<1>2. TypeOK' /\ Contents'
  BY <1>1, TypeNext
<1>3. Asking' /\ Resuming'
  BY <1>1, AskingNext, ResumingNext
<1>4. Sides' /\ InPlace'
  BY <1>1, SidesNext, InPlaceNext
<1>5. Finished'
  BY <1>1, FinishedNext
<1> QED
  BY <1>2, <1>3, <1>4, <1>5 DEF IInv

\* The inductive invariant: the conversation, the edges and the stream are in
\* order at every step of the client, of the server and of what happens beside
\* them.
THEOREM Invariance == Spec => []IInv
  BY IInvInit, IInvNext, PTL DEF Spec

\* Every variable of the download keeps its type.  In particular the server
\* is never in the place of a coroutine that has ended: no event resumes one.
THEOREM Typing == Spec => []TypeOK
<1>1. IInv => TypeOK
  BY DEF IInv
<1> QED
  BY <1>1, Invariance, PTL

\* Between sendfile and the client's disk no byte is lost, repeated or moved,
\* whatever the sizes of the file, of the buffers and of the window.
THEOREM NothingIsLost == Spec => []NothingLost
<1>1. ASSUME IInv
      PROVE  NothingLost
  <2>1. ASSUME client \in {"small", "large"}, ~replaced
        PROVE  file \o buf \o wire = Prefix(off)
    <3>1. /\ Stream \in Seq(FileByte) /\ Len(Stream) = off
          /\ \A i \in 1..Len(Stream) : Stream[i] = Data(i)
      BY <1>1, <2>1, StreamParts DEF IInv, InPlace, IsByteOf
    <3>2. Stream = Prefix(off)
      BY <3>1, InPlaceIsPrefix
    <3> QED
      BY <3>2 DEF Stream, Cat
  <2> QED
    BY <2>1 DEF NothingLost
<1> QED
  BY <1>1, Invariance, PTL

\* Whatever becomes of the server's file under way, a byte on the client's
\* disk is the byte of that place in the old file or in the new one.
THEOREM EveryByteIsInPlace == Spec => []EveryByteInPlace
<1>1. IInv => EveryByteInPlace
  BY DEF IInv, Finished
<1> QED
  BY <1>1, Invariance, PTL

\* A download that prints its success has fetched the file, unless the server
\* was stopped, its file replaced under way, or the connection closed by an
\* alarm that found it idle.
THEOREM SuccessIsFetched == Spec => []SuccessMeansFetched
<1>1. IInv => SuccessMeansFetched
  BY DEF IInv, Finished, SuccessMeansFetched
<1> QED
  BY <1>1, Invariance, PTL

LEMMA PromiseInit == Init => Promise!Init
<1> SUFFICES ASSUME Init
             PROVE  Promise!Init
  OBVIOUS
<1>1. size \in Sizes /\ off = 0 /\ file = <<>> /\ ~replaced /\ client = "start"
  BY DEF Init
<1>2. Verdict = "none"
  BY <1>1 DEF Verdict, Ended
<1> QED
  BY <1>1, <1>2 DEF Promise!Init

\* Each kind of step is one action of Delivery; once the file is replaced
\* nothing is promised.
LEMMA PromiseNext ==
  ASSUME IInv, [Next]_vars
  PROVE  Promise!Next
<1>1. \A n \in Int : Promise!Prefix(n) = Prefix(n)
  BY DEF Promise!Prefix, Promise!Data, Prefix, Data
<1>2. \A n \in Int : Promise!Zeros(n) = Zeros(n)
  BY DEF Promise!Zeros, Promise!Zero, Zeros, Zero
<1>3. size \in Nat /\ off \in Nat /\ Len(file) \in Nat
  BY Numbers, LenProperties DEF IInv
<1>4. CASE replaced'
  <2>1. size' = size
    BY ReplacedForGood
  <2>2. Verdict' = "void"
    BY <1>4 DEF Verdict
  <2> QED
    BY <2>1, <2>2 DEF Promise!Next, Promise!Void
<1>5. CASE ~replaced'
  <2>1. ~replaced /\ (Unmoved \/ Grows \/ Succeeds \/ BreaksOff)
    BY <1>5, ReplacedForGood, StepKinds DEF IInv
  <2>2. client \notin Ended => Verdict = "none"
    BY <2>1 DEF Verdict, Ended
  <2>3. CASE Unmoved
    <3>1. Verdict' = Verdict
      BY <1>5, <2>1, <2>3 DEF Unmoved, Verdict, Ended
    <3> QED
      BY <2>3, <3>1 DEF Unmoved, Promise!Next, Promise!Offer
  <2>4. CASE Grows
    <3>1. Verdict = "none" /\ Verdict' = Verdict
      BY <1>5, <2>1, <2>2, <2>4 DEF Grows, Verdict
    <3>2. PICK n \in Len(file)..off : file' = Prefix(n)
      BY <2>4 DEF Grows
    <3>3. file' = Promise!Prefix(n)
      BY <1>1, <1>3, <3>2
    <3>4. Promise!Extend
      BY <2>4, <3>1, <3>2, <3>3 DEF Grows, Promise!Extend
    <3> QED
      BY <3>4 DEF Promise!Next
  <2>5. CASE Succeeds
    <3>1. Verdict = "none" /\ Verdict' = "complete"
      BY <1>5, <2>2, <2>5 DEF Succeeds, Verdict
    <3>2. \A i \in 1..size : Data(i) \in FileByte
      BY <1>3, Tokens
    <3>3. Len(Prefix(size)) = size
      BY <1>3, <3>2, PrefixProperties
    <3>4. SubSeq(Prefix(size), 1, size) = Prefix(size)
      BY <1>3, FrontOfPrefix
    <3>5. /\ Len(file') >= size /\ SubSeq(file', 1, size) = Promise!Prefix(size)
          /\ off = size /\ UNCHANGED <<size, off>>
      BY <1>1, <1>3, <2>5, <3>3, <3>4 DEF Succeeds
    <3>6. Promise!Complete
      BY <3>1, <3>5 DEF Promise!Complete
    <3> QED
      BY <3>6 DEF Promise!Next
  <2>6. CASE BreaksOff
    <3>1. Verdict = "none" /\ Verdict' \in {"incomplete", "failed"}
      BY <1>5, <2>2, <2>6 DEF BreaksOff, Verdict
    <3>2. PICK n \in Len(file)..off :
                 file' = Prefix(n) \/ file' = Prefix(n) \o Zeros(size - n)
      BY <2>6 DEF BreaksOff, Cat
    <3>3. Promise!Prefix(n) = Prefix(n) /\ Promise!Zeros(size - n) = Zeros(size - n)
      BY <1>1, <1>2, <1>3
    <3>4. Promise!GiveUp
      BY <2>6, <3>1, <3>2, <3>3 DEF BreaksOff, Promise!GiveUp
    <3> QED
      BY <3>4 DEF Promise!Next
  <2> QED
    BY <2>1, <2>3, <2>4, <2>5, <2>6
<1> QED
  BY <1>4, <1>5

\* What a client and the server do with a file, one system call a step,
\* implements the Delivery of that file for as long as nobody replaces it.
THEOREM DownloadDelivers == Spec => Delivers
<1>1. IInv /\ [Next]_vars => [Promise!Next]_(Promise!vars)
  BY PromiseNext
<1> QED
  BY <1>1, Invariance, PromiseInit, PTL DEF Spec, Delivers, Promise!Spec

\* A coroutine that has ended is never resumed, which would be undefined: the
\* flags it leaves behind meet no event before the client's leaving.
EndedIsNotResumed ==
    [][Dispatch /\ task = "done" => server' \in {"wait", "decide"}]_vars

\* The same as a theorem, for every moment at which sendfile may give up on a
\* file that has become shorter.
THEOREM EndedStaysEnded == Spec => EndedIsNotResumed
<1>1. IInv /\ [Next]_vars => [Dispatch /\ task = "done" => server' \in {"wait", "decide"}]_vars
  <2>1. ASSUME IInv, Dispatch, task = "done"
        PROVE  server' \in {"wait", "decide"}
    <3>1. /\ "IN" \in ev /\ reading => task = "flag" /\ server' = "flag"
          /\ "IN" \in ev /\ ~reading => server' = "decide"
          /\ "IN" \notin ev /\ writing => task = "send" /\ server' = "send"
          /\ "IN" \notin ev /\ ~writing => server' = "wait"
      BY <2>1, Resumed DEF IInv
    <3> QED
      BY <2>1, <3>1
  <2> QED
    BY <2>1
<1> QED
  BY <1>1, Invariance, PTL DEF Spec, EndedIsNotResumed

------------------------------------------------------------------------------
(* The loop does not fall asleep over a download.                           *)

\* The client's leaving has an edge to come, or is being dispatched.
LeavingSeen ==
    Left /\ ~Gone => edge \/ (server = "dispatch" /\ "HUP" \in ev)

\* So has what is unread.
RequestSeen ==
    rcv # <<>> =>
        /\ server = "wait" => edge
        /\ server = "dispatch" /\ "HUP" \notin ev => edge \/ "IN" \in ev

\* A client without an answer has its request in the socket, unless the
\* handler of that request has ended.
Answered ==
    client = "size" /\ wire = <<>> /\ ~Gone =>
        \/ rcv = <<GetRequest>>
        \/ server \in {"wait", "dispatch"} /\ task = "done"

\* Behind the flag the handler sends, waits for room or has sent everything;
\* room that appears while it waits is an edge.
Sending ==
    client \in {"small", "large"} /\ rcv = <<>> /\ ~Gone =>
        /\ server \in {"wait", "dispatch", "send"}
        /\ server # "send" => task \in {"send", "done"}
        /\ ~replaced =>
             /\ off + left = size
             /\ server # "send" /\ task = "done" => left = 0
             /\ server = "wait" /\ task = "send" => nospace \/ edge

\* A client that still receives is short of bytes.
Short ==
    /\ task = "send" => writing
    /\ client = "large" => announced >= Max /\ Len(file) + Len(buf) < announced

Attended == LeavingSeen /\ RequestSeen /\ Answered /\ Sending /\ Short

LEMMA AttendedInit == Init => Attended
  BY DEF Init, Attended, LeavingSeen, RequestSeen, Answered, Sending, Short, Left, Ended

\* What a step of the client does to the events.
LEMMA ClientEvents ==
  ASSUME Client \/ ClientKilled
  PROVE  /\ UNCHANGED <<size, disk, replaced, ev, server, taskVars>>
         /\ edge => edge'
         /\ Left' /\ ~Left => edge' \/ Gone
         /\ rcv' # rcv => edge'
         /\ nospace => nospace' \/ edge'
<1> USE DEF clientVars, kernelVars
<1>1. CASE AskFile \/ ReadSize
  BY <1>1 DEF AskFile, ReadSize, Write
<1>2. CASE SmallRead \/ LargeRead
  BY <1>2 DEF SmallRead, LargeRead, Read, Left
<1>3. CASE OpenFails \/ NotFound \/ SmallEmpty \/ ClientKilled
  BY <1>3 DEF OpenFails, NotFound, SmallEmpty, ClientKilled
<1>4. CASE ReadFails \/ SmallEnd \/ LargeEnd
  BY <1>4 DEF ReadFails, SmallEnd, LargeEnd, End
<1> QED
  BY <1>1, <1>2, <1>3, <1>4 DEF Client

LEMMA EnvironmentEvents ==
  ASSUME ServerStopped \/ Truncate \/ Rewrite
  PROVE  /\ UNCHANGED <<size, clientVars, kernelVars, taskVars>>
         /\ server' = server \/ server' = "stopped"
         /\ replaced => replaced'
         /\ ~replaced' => UNCHANGED <<replaced, disk>>
  BY DEF ServerStopped, Truncate, Rewrite

LEMMA LeavingSeenNext ==
  ASSUME LeavingSeen, [Next]_vars
  PROVE  LeavingSeen'
<1> USE DEF kernelVars, clientVars, taskVars
<1>1. CASE Client \/ ClientKilled
  BY <1>1, ClientEvents DEF LeavingSeen, Gone
<1>2. CASE ServerStopped \/ Truncate \/ Rewrite
  BY <1>2, EnvironmentEvents DEF LeavingSeen, Gone, Left
<1>3. CASE EpollWait
  BY <1>3 DEF EpollWait, Mask, LeavingSeen, Gone, Left
<1>4. CASE Disconnect \/ Expires
  BY <1>4 DEF Disconnect, Expires, LeavingSeen, Gone
<1>5. CASE Server /\ ~EpollWait /\ ~Disconnect
  <2>1. /\ UNCHANGED <<client, edge>>
        /\ ~Gone
        /\ server = "dispatch" => "HUP" \notin ev
    BY <1>5 DEF Server, Dispatch, StartDownload, StartDownloadFails, StartDownloadThrows,
       UnknownRequest, FlagYield, ReadFlag, FlagMissing, SendSome, SendYield, SendDone,
       SendStaleErrno, SendGivesUp, Yield, Finish, Gone
  <2> QED
    BY <2>1 DEF LeavingSeen, Left
<1>6. CASE Ages \/ UNCHANGED vars
  BY <1>6 DEF Ages, vars, LeavingSeen, Gone, Left
<1> QED
  BY <1>1, <1>2, <1>3, <1>4, <1>5, <1>6 DEF Next, Tick, Environment

LEMMA RequestSeenNext ==
  ASSUME TypeOK, Asking, Resuming, RequestSeen, [Next]_vars
  PROVE  RequestSeen'
<1> USE DEF kernelVars, clientVars, taskVars
<1>1. CASE Client \/ ClientKilled
  <2>1. \/ edge'
        \/ ~edge /\ UNCHANGED <<rcv, ev, server>>
    BY <1>1, ClientEvents
  <2> QED
    BY <2>1 DEF RequestSeen
<1>2. CASE ServerStopped \/ Truncate \/ Rewrite
  BY <1>2, EnvironmentEvents DEF RequestSeen
<1>3. CASE EpollWait
  BY <1>3 DEF EpollWait, Mask, RequestSeen
<1>4. CASE Dispatch
  <2>1. UNCHANGED <<rcv, edge, ev>> /\ server = "dispatch" /\ "HUP" \notin ev
    BY <1>4 DEF Dispatch
  <2>2. server' = "wait" => "IN" \notin ev
    <3>1. "IN" \in ev => server' \in {"flag", "decide"}
      BY <1>4, Resumed DEF TypeOK
    <3> QED
      BY <3>1
  <2>3. server' # "dispatch"
    BY <1>4, Resumed DEF TypeOK
  <2> QED
    BY <2>1, <2>2, <2>3 DEF RequestSeen
<1>5. CASE SendSome \/ SendYield \/ SendDone \/ SendStaleErrno \/ SendGivesUp
  <2>1. server = "send" /\ rcv' = rcv
    BY <1>5 DEF SendSome, SendYield, SendDone, SendStaleErrno, SendGivesUp, Yield
  <2>2. rcv = <<>>
    BY <2>1 DEF Asking, Fresh, AwaitsFlag, Gone
  <2> QED
    BY <2>1, <2>2 DEF RequestSeen
<1>6. CASE Disconnect \/ Expires \/ StartDownload \/ StartDownloadFails \/ StartDownloadThrows
             \/ UnknownRequest \/ FlagYield \/ ReadFlag \/ FlagMissing
  <2>1. rcv' = <<>>
    BY <1>6 DEF Disconnect, Expires, StartDownload, StartDownloadFails, StartDownloadThrows,
                UnknownRequest, FlagYield, ReadFlag, FlagMissing
  <2> QED
    BY <2>1 DEF RequestSeen
<1>7. CASE Ages \/ UNCHANGED vars
  BY <1>7 DEF Ages, vars, RequestSeen
<1> QED
  BY <1>1, <1>2, <1>3, <1>4, <1>5, <1>6, <1>7 DEF Next, Tick, Environment, Server

LEMMA AnsweredNext ==
  ASSUME TypeOK, Asking, Resuming, Answered, [Next]_vars
  PROVE  Answered'
<1> USE DEF kernelVars, clientVars, taskVars
<1>1. CASE AskFile
  <2>1. rcv = <<>> /\ (~Gone => rcv' = Append(<<>>, GetRequest)) /\ server' = server
    BY <1>1 DEF AskFile, Write, Asking
  <2>2. Append(<<>>, GetRequest) = <<GetRequest>>
    OBVIOUS
  <2> QED
    BY <2>1, <2>2 DEF Answered, Gone
<1>2. CASE (Client /\ ~AskFile) \/ ClientKilled
  <2>1. client' # "size" \/ UNCHANGED <<client, wire, rcv, server, task>>
    BY <1>2 DEF Client, ReadSize, OpenFails, NotFound, ReadFails, SmallRead, SmallEmpty,
                SmallEnd, LargeRead, LargeEnd, ClientKilled
  <2> QED
    BY <2>1 DEF Answered, Gone
<1>3. CASE ServerStopped \/ Truncate \/ Rewrite
  BY <1>3, EnvironmentEvents DEF Answered, Gone
<1>4. CASE EpollWait
  BY <1>4 DEF EpollWait, Answered, Gone
<1>5. CASE Disconnect \/ Expires \/ UnknownRequest
  BY <1>5 DEF Disconnect, Expires, UnknownRequest, Answered, Gone
<1>6. CASE Dispatch
  <2>1. UNCHANGED <<client, wire, rcv, task>> /\ server = "dispatch" /\ "HUP" \notin ev
    BY <1>6 DEF Dispatch
  <2>2. client = "size" /\ rcv # <<GetRequest>> => server' = "wait"
    <3>1. SUFFICES ASSUME client = "size", rcv # <<GetRequest>>
                   PROVE  server' = "wait"
      OBVIOUS
    <3>2. rcv = <<>> /\ ~writing
      BY <3>1 DEF Asking, Resuming
    <3>3. "IN" \notin ev
      BY <2>1, <3>2 DEF Resuming
    <3> QED
      BY <1>6, <3>2, <3>3, Resumed
  <2> QED
    BY <2>1, <2>2 DEF Answered, Gone
<1>7. CASE StartDownload \/ StartDownloadFails
  <2>1. wire' # <<>>
    BY <1>7 DEF StartDownload, StartDownloadFails
  <2> QED
    BY <2>1 DEF Answered
<1>8. CASE StartDownloadThrows
  BY <1>8 DEF StartDownloadThrows, Answered
<1>9. CASE FlagYield \/ ReadFlag \/ FlagMissing
  <2>1. /\ server = "flag" /\ UNCHANGED <<client, wire>>
        /\ rcv \in {<<>>, <<Flag>>}
    BY <1>9 DEF FlagYield, ReadFlag, FlagMissing, Yield
  <2>2. rcv # <<GetRequest>>
    <3>1. <<GetRequest>> # <<Flag>> /\ <<GetRequest>> # <<>>
      BY Tokens
    <3> QED
      BY <2>1, <3>1
  <2>3. ~(client = "size" /\ wire = <<>>)
    BY <2>1, <2>2 DEF Answered, Gone
  <2> QED
    BY <2>1, <2>3 DEF Answered
<1>10. CASE SendSome \/ SendYield \/ SendDone \/ SendStaleErrno \/ SendGivesUp
  <2>1. server = "send" /\ client' = client
    BY <1>10 DEF SendSome, SendYield, SendDone, SendStaleErrno, SendGivesUp, Yield
  <2>2. client # "size"
    BY <2>1 DEF Asking
  <2> QED
    BY <2>1, <2>2 DEF Answered
<1>11. CASE Ages \/ UNCHANGED vars
  BY <1>11 DEF Ages, vars, Answered, Gone
<1> QED
  BY <1>1, <1>2, <1>3, <1>4, <1>5, <1>6, <1>7, <1>8, <1>9, <1>10, <1>11
  DEF Next, Tick, Environment, Server

LEMMA SendingNext ==
  ASSUME TypeOK, Asking, Contents, Resuming, Sides, Sending, Short, [Next]_vars
  PROVE  Sending'
<1> USE DEF kernelVars, clientVars, taskVars
<1>0. <<Flag>> # <<>> /\ <<GetRequest>> # <<>>
  OBVIOUS
<1>1. CASE ReadSize
  <2>1. /\ rcv \in {<<>>, <<GetRequest>>, <<Flag>>}
        /\ ~Gone => rcv' = Append(rcv, Flag)
        /\ server' = server
    BY <1>1 DEF ReadSize, Write, Asking
  <2>2. ~Gone => rcv' # <<>>
    BY <2>1
  <2> QED
    BY <2>1, <2>2 DEF Sending, Gone
<1>2. CASE (Client /\ ~ReadSize) \/ ClientKilled
  <2>1. \/ client' \notin {"small", "large"}
        \/ client' = client /\ UNCHANGED rcv
    BY <1>2 DEF Client, AskFile, OpenFails, NotFound, ReadFails, SmallRead, SmallEmpty,
                SmallEnd, LargeRead, LargeEnd, ClientKilled, Read
  <2>2. /\ UNCHANGED <<size, replaced, server, taskVars>>
        /\ nospace \/ edge => nospace' \/ edge'
    BY <1>2, ClientEvents
  <2> QED
    BY <2>1, <2>2 DEF Sending, Gone
<1>3. CASE ServerStopped \/ Truncate \/ Rewrite
  BY <1>3, EnvironmentEvents DEF Sending, Gone
<1>4. CASE EpollWait
  BY <1>4 DEF EpollWait, Sending, Gone
<1>5. CASE Disconnect \/ Expires \/ UnknownRequest
  BY <1>5 DEF Disconnect, Expires, UnknownRequest, Sending, Gone
<1>6. CASE Dispatch
  <2>1. /\ UNCHANGED <<client, size, replaced, rcv, nospace, edge, taskVars>>
        /\ server = "dispatch" /\ "HUP" \notin ev
    BY <1>6 DEF Dispatch
  <2>2. rcv = <<>> => "IN" \notin ev
    BY <2>1 DEF Resuming
  <2>3. "IN" \notin ev => \/ task = "send" /\ server' = "send"
                          \/ task # "send" /\ server' = "wait"
    BY <1>6, Resumed DEF Short, TypeOK
  <2> QED
    BY <2>1, <2>2, <2>3 DEF Sending, Gone
<1>7. CASE StartDownload \/ StartDownloadFails \/ StartDownloadThrows
  <2>1. rcv = <<GetRequest>> /\ client' = client
    BY <1>7 DEF StartDownload, StartDownloadFails, StartDownloadThrows
  <2>2. client \notin {"small", "large"}
    BY <2>1 DEF Asking
  <2> QED
    BY <2>1, <2>2 DEF Sending
<1>8. CASE FlagYield \/ FlagMissing
  <2>1. server = "flag" /\ rcv = <<>> /\ client' = client
    BY <1>8 DEF FlagYield, FlagMissing, Yield
  <2>2. client \notin {"small", "large"}
    BY <2>1 DEF Sending, Gone
  <2> QED
    BY <2>1, <2>2 DEF Sending
<1>9. CASE ReadFlag
  <2>1. /\ server' = "send" /\ off' = 0 /\ left' = Len(disk)
        /\ UNCHANGED <<size, replaced>>
    BY <1>9 DEF ReadFlag
  <2>2. ~replaced => Len(disk) = size
    BY DiskLength
  <2> QED
    BY <2>1, <2>2, Numbers DEF Sending
<1>10. CASE SendSome \/ SendYield \/ SendDone \/ SendStaleErrno \/ SendGivesUp
  <2>1. /\ server = "send" /\ UNCHANGED <<client, size, replaced, rcv>> /\ ~Gone
    BY <1>10 DEF SendSome, SendYield, SendDone, SendStaleErrno, SendGivesUp, Yield, Gone
  <2>2. SUFFICES ASSUME client \in {"small", "large"}, rcv = <<>>
                 PROVE  Sending'
    BY <2>1 DEF Sending
  <2>3. ~Left
    BY <2>2 DEF Left, Ended
  <2>4. /\ ~replaced => off + left = size /\ Len(disk) = size
        /\ off \in Nat /\ left \in Nat /\ size \in Nat
    BY <2>1, <2>2, DiskLength, Numbers DEF Sending
  <2>5. CASE SendSome
    <3>1. Len(wire) \in Nat
      BY <2>2, LenProperties DEF Contents
    <3>2. \E k \in Nat : off' = off + k /\ left' = left - k
      BY <2>5, <3>1, SendSomeStep
    <3>3. off' + left' = off + left
      BY <2>4, <3>2
    <3>4. UNCHANGED server
      BY <2>5 DEF SendSome
    <3> QED
      BY <2>1, <2>4, <3>3, <3>4 DEF Sending
  <2>6. CASE SendYield
    <3>1. server' = "wait" /\ task' = "send" /\ nospace' /\ UNCHANGED <<off, left>>
      BY <2>6 DEF SendYield, Yield
    <3> QED
      BY <2>1, <2>4, <3>1 DEF Sending
  <2>7. CASE SendDone
    <3>1. left = 0 /\ server' = "wait" /\ task' = "done" /\ UNCHANGED <<off, left>>
      BY <2>7 DEF SendDone, Finish
    <3> QED
      BY <2>1, <2>4, <3>1 DEF Sending
  <2>8. CASE SendStaleErrno \/ SendGivesUp
    <3>1. /\ left > 0 /\ off >= Len(disk)
          /\ server' = "wait" /\ task' \in {"send", "done"} /\ UNCHANGED <<off, left>>
      BY <2>3, <2>8 DEF SendStaleErrno, SendGivesUp, Yield
    <3>2. replaced
      BY <2>4, <3>1
    <3> QED
      BY <2>1, <3>1, <3>2 DEF Sending
  <2> QED
    BY <1>10, <2>5, <2>6, <2>7, <2>8
<1>11. CASE Ages \/ UNCHANGED vars
  BY <1>11 DEF Ages, vars, Sending, Gone
<1> QED
  BY <1>1, <1>2, <1>3, <1>4, <1>5, <1>6, <1>7, <1>8, <1>9, <1>10, <1>11
  DEF Next, Tick, Environment, Server

LEMMA ShortNext ==
  ASSUME TypeOK, Contents, Asking, Short, [Next]_vars
  PROVE  Short'
<1> USE DEF kernelVars, clientVars, taskVars
<1>1. CASE Server
  <2>1. UNCHANGED <<client, announced, file, buf>>
    BY <1>1 DEF Server, EpollWait, Disconnect, Dispatch, StartDownload, StartDownloadFails,
       StartDownloadThrows, UnknownRequest, FlagYield, ReadFlag, FlagMissing, SendSome,
       SendYield, SendDone, SendStaleErrno, SendGivesUp, Yield, Finish
  <2>2. task' = "send" => writing' \/ (task = "send" /\ writing' = writing)
    BY <1>1 DEF Server, EpollWait, Disconnect, Dispatch, StartDownload, StartDownloadFails,
       StartDownloadThrows, UnknownRequest, FlagYield, ReadFlag, FlagMissing, SendSome,
       SendYield, SendDone, SendStaleErrno, SendGivesUp, Yield, Finish
  <2> QED
    BY <2>1, <2>2 DEF Short
<1>2. CASE ReadSize
  <2>1. /\ file' = <<>> /\ buf' = <<>> /\ UNCHANGED <<task, writing>>
        /\ announced' \in Sizes
        /\ client' = "large" => ~(announced' < Max)
    BY <1>2 DEF ReadSize, Asking
  <2>2. client' = "large" => announced' >= Max /\ 0 < announced'
    BY <2>1, SizesAssumption, BufferAssumption
  <2> QED
    BY <2>1, <2>2 DEF Short
<1>3. CASE LargeRead
  <2>1. PICK k \in 1..Len(wire) :
          /\ client = "large"
          /\ UNCHANGED announced
          /\ UNCHANGED taskVars
          /\ \/ /\ file' = Cat(file, Got(k)) /\ buf' = <<>>
                /\ \/ client' = "done"
                   \/ ~(Len(file') >= announced)
             \/ /\ ~(Len(Got(k)) + Len(file) >= announced)
                /\ buf' = Got(k) /\ UNCHANGED <<file, client>>
    BY <1>3, LargeReadStep DEF Takes
  <2>2. CASE file' = Cat(file, Got(k)) /\ buf' = <<>> /\ ~(Len(file') >= announced)
    <3>1. /\ Got(k) \in Seq(FileByte) /\ file \in Seq(FileByte)
      BY <2>1, GotProperties, Numbers, Tokens
    <3>2. Len(file') \in Nat /\ Len(buf') = 0
      BY <2>2, <3>1, CatProperties, LenProperties
    <3> QED
      BY <2>1, <2>2, <3>2, Numbers DEF Short
  <2>3. CASE /\ ~(Len(Got(k)) + Len(file) >= announced)
             /\ buf' = Got(k) /\ UNCHANGED <<file, client>>
    <3>1. Len(Got(k)) \in Nat /\ Len(file) \in Nat
      BY <2>1, GotProperties, Numbers, LenProperties
    <3> QED
      BY <2>1, <2>3, <3>1, Numbers DEF Short
  <2> QED
    BY <2>1, <2>2, <2>3 DEF Short
<1>4. CASE (Client /\ ~ReadSize /\ ~LargeRead) \/ Environment
  <2>1. /\ UNCHANGED <<task, writing, announced>>
        /\ client' = "large" => client = "large" /\ UNCHANGED <<file, buf>>
    BY <1>4 DEF Client, AskFile, OpenFails, NotFound, ReadFails, SmallRead, SmallEmpty,
                SmallEnd, LargeEnd, Environment, ClientKilled, ServerStopped, Truncate, Rewrite
  <2> QED
    BY <2>1 DEF Short
<1>5. CASE Tick \/ UNCHANGED vars
  BY <1>5 DEF Tick, Ages, Expires, vars, Short
<1> QED
  BY <1>1, <1>2, <1>3, <1>4, <1>5 DEF Next

LEMMA AttendedInvariant == Spec => []Attended
<1>1. IInv /\ Attended /\ [Next]_vars => Attended'
  BY LeavingSeenNext, RequestSeenNext, AnsweredNext, SendingNext, ShortNext
  DEF IInv, Attended
<1> QED
  BY <1>1, AttendedInit, Invariance, PTL DEF Spec

\* A client that still receives, of an unreplaced file that is not empty, has
\* not been sent all of it, or has bytes to read.
LEMMA ReceivingIsShort ==
  ASSUME IInv, Short, client \in {"small", "large"}, announced > 0, wire = <<>>
  PROVE  off < announced
<1>1. TypeOK /\ Contents /\ Sides /\ InPlace
  BY DEF IInv
<1>2. /\ file \in Seq(FileByte) /\ buf \in Seq(FileByte) /\ Cat(file, buf) \in Seq(FileByte)
      /\ Len(file) \in Nat /\ Len(buf) \in Nat /\ announced \in Nat
  BY <1>1, StreamParts, Numbers
<1>3. Stream = Cat(file, buf) /\ Len(Cat(file, buf)) = Len(file) + Len(buf)
  BY <1>2, CatEmpty, CatProperties DEF Stream
<1>4. Len(file) + Len(buf) < announced
  <2>1. CASE client = "small"
    <3>1. Len(file) = 0 /\ (Len(buf) < announced \/ Len(buf) = 0)
      BY <1>1, <2>1 DEF Sides
    <3> QED
      BY <1>2, <3>1
  <2>2. CASE client = "large"
    BY <2>2 DEF Short
  <2> QED
    BY <2>1, <2>2
<1> QED
  BY <1>1, <1>3, <1>4 DEF InPlace

LEMMA BlockedOwesNothing == IInv /\ Attended => BlocksOwingNothing
<1> SUFFICES ASSUME IInv, Attended, server = "wait", ~(edge /\ Mask # {})
             PROVE  /\ rcv = <<>> /\ ~Left
                    /\ client = "size" \/ (client \in Reading /\ announced > 0) =>
                         wire # <<>> \/ replaced \/ Unanswered
  BY DEF BlocksOwingNothing
<1>1. /\ TypeOK /\ Contents /\ Asking /\ Resuming /\ Sides /\ InPlace
      /\ LeavingSeen /\ RequestSeen /\ Answered /\ Sending /\ Short /\ ~Gone
  BY DEF IInv, Attended, Gone
<1>2. rcv # <<>> \/ Left \/ Len(wire) < Window => ~edge
  <2>1. Len(wire) < Window => "OUT" \in Mask
    BY DEF Mask
  <2>2. rcv # <<>> \/ Left => "IN" \in Mask
    BY DEF Mask
  <2> QED
    BY <2>1, <2>2
<1>3. rcv = <<>> /\ ~Left
  BY <1>1, <1>2 DEF RequestSeen, LeavingSeen
<1>4. wire = <<>> => ~edge /\ ~nospace
  <2>1. Len(<<>>) = 0 /\ Window # 0 /\ 0 < Window
    BY WindowAssumption
  <2> QED
    BY <1>1, <1>2, <2>1 DEF Resuming
<1>5. ASSUME client = "size", wire = <<>>
      PROVE  Unanswered
  <2>1. <<GetRequest>> # <<>>
    OBVIOUS
  <2> QED
    BY <1>1, <1>3, <1>5, <2>1 DEF Answered, Unanswered
<1>6. ASSUME client \in {"small", "large"}, announced > 0, wire = <<>>
      PROVE  replaced
  <2>1. SUFFICES ASSUME ~replaced
                 PROVE  FALSE
    OBVIOUS
  <2>2. off < announced /\ announced = size
    BY <1>1, <1>6, <2>1, ReceivingIsShort DEF Sides
  <2>3. off + left = size /\ left = 0
    BY <1>1, <1>3, <1>4, <1>6, <2>1 DEF Sending
  <2> QED
    BY <1>1, <2>2, <2>3, Numbers
<1> QED
  BY <1>3, <1>5, <1>6 DEF Reading

\* epoll_wait never blocks over a download that can go on: the request, the
\* flag and the client's leaving are always seen, and a handler that found no
\* room is told of the room the client makes.
THEOREM NeverAsleep == Spec => []BlocksOwingNothing
  BY Invariance, AttendedInvariant, BlockedOwesNothing, PTL
=============================================================================
