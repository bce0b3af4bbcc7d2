-------------------------- MODULE EventLoopProofs --------------------------
(***************************************************************************)
(* Proofs about EventLoop, for every set of descriptors and of clients and *)
(* every number of alarms (the later parts: as long as there is none).     *)
(*                                                                         *)
(* All handlers touch `connections' and the descriptor table in one way    *)
(* only: they leave one data_info behind, close some numbers and open at   *)
(* most one.  Effect says what they all respect; one lemma per handler     *)
(* shows that it does, and the theorems use Effect alone.  A second part   *)
(* does the same with Keeps, for the Files of suspended transfers; a third *)
(* shows on top of both why sessions do not mix as long as no idle timer   *)
(* fires and no HTTP client breaks its connection off or asks for a range  *)
(* that ends before it starts.                                             *)
(***************************************************************************)
EXTENDS EventLoop, TLAPS

LEMMA NoFdIsNotAFd == NoFd \notin Fd
  BY FdAssumption DEF NoFd

LEMMA NewDataInfoType == NewDataInfo \in DataInfos
  BY DEF NewDataInfo, DataInfo, DataInfos, Task, Alive, Suspended

\* A handler run for n leaves the data_info d.  It opens a File only into the
\* frame of a coroutine it leaves suspended, and never forgets the File it
\* found in the frame: it closes it or keeps it there.
Effect(n) ==
    \E d \in DataInfos, shut \in SUBSET (Fd \cup {NoFd}), open \in Fd \cup {NoFd} :
        /\ Leave(n, d, shut, open)
        /\ open = NoFd \/ (d.task \in Alive /\ d.file = open)
        /\ conn[n].file \in shut \/ conn[n].file = NoFd
             \/ (d.task \in Alive /\ d.file = conn[n].file)
        /\ d.task \notin HoldsFile => d.file = NoFd

\* A coroutine holds a File only where its code has one in scope.
FileInScope ==
    \A n \in Fd : conn[n].task \notin HoldsFile
                    => conn[n].file = NoFd

------------------------------------------------------------------------------
(* Each handler respects Effect. *)

\* Reading out of a socket and filling its send buffer keep the types.
LEMMA BuffersType ==
  ASSUME TypeOK, NEW n \in Fd
  PROVE  /\ ReadAll(n) => input' \in [Client -> BOOLEAN]
         /\ Fill(n) => full' \in [Client -> BOOLEAN]
         /\ UNCHANGED input => input' \in [Client -> BOOLEAN]
         /\ UNCHANGED full => full' \in [Client -> BOOLEAN]
  BY DEF TypeOK, ReadAll, Fill

\* The data_infos that the handlers leave are data_infos.
LEMMA DataInfoType ==
  ASSUME NEW task \in Task, NEW c \in Client \cup {NoClient},
         NEW x \in Fd \cup {NoFd}, NEW r \in BOOLEAN, NEW w \in BOOLEAN
  PROVE  /\ DataInfo(task, c, x, r, w) \in DataInfos
         /\ DataInfo(task, c, x, r, w).task = task
         /\ DataInfo(task, c, x, r, w).file = x
  BY DEF DataInfo, DataInfos

LEMMA EndedType ==
  ASSUME NEW d \in DataInfos, NEW c \in Client \cup {NoClient}
  PROVE  /\ Finished(c) \in DataInfos /\ Finished(c).file = NoFd
         /\ Received(d, c) \in DataInfos /\ Received(d, c).file = NoFd
         /\ Abandoned(d, c) \in DataInfos /\ Abandoned(d, c).file = NoFd
  BY DEF Finished, Received, Abandoned, DataInfo, DataInfos, Task

LEMMA ConnType ==
  ASSUME TypeOK, NEW n \in Fd
  PROVE  /\ conn[n] \in DataInfos
         /\ conn[n].of \in Client \cup {NoClient}
         /\ conn[n].file \in Fd \cup {NoFd}
         /\ conn[n].is_read_awaiting \in BOOLEAN
         /\ conn[n].is_write_awaiting \in BOOLEAN
  BY DEF TypeOK, DataInfos

\* A coroutine that yields again keeps its place and its File.
LEMMA WaitingType ==
  ASSUME NEW d \in DataInfos
  PROVE  /\ [d EXCEPT !.is_read_awaiting = TRUE] \in DataInfos
         /\ [d EXCEPT !.is_read_awaiting = TRUE].task = d.task
         /\ [d EXCEPT !.is_read_awaiting = TRUE].file = d.file
         /\ [d EXCEPT !.is_write_awaiting = TRUE] \in DataInfos
         /\ [d EXCEPT !.is_write_awaiting = TRUE].task = d.task
         /\ [d EXCEPT !.is_write_awaiting = TRUE].file = d.file
  BY DEF DataInfos

\* A coroutine that spins is what it was, its flags and its File included.
LEMMA SpinType ==
  ASSUME NEW d \in DataInfos
  PROVE  /\ [d EXCEPT !.task = "httpSpin"] \in DataInfos
         /\ [d EXCEPT !.task = "httpSpin"].task = "httpSpin"
         /\ [d EXCEPT !.task = "httpSpin"].file = d.file
         /\ [d EXCEPT !.task = "httpSpin"].of = d.of
  BY DEF DataInfos, Task, Alive, Suspended

LEMMA StartUploadEffect ==
  ASSUME TypeOK, NEW n \in Fd, NEW c \in Client, StartUpload(n, c)
  PROVE  Effect(n) /\ full' \in [Client -> BOOLEAN]
<1>1. full' \in [Client -> BOOLEAN]
  BY BuffersType DEF StartUpload
<1>2. /\ Received(conn[n], c) \in DataInfos /\ Received(conn[n], c).file = NoFd
      /\ Abandoned(conn[n], c) \in DataInfos /\ Abandoned(conn[n], c).file = NoFd
  BY ConnType, EndedType
<1>3. CASE Leave(n, Abandoned(conn[n], c), {conn[n].file}, NoFd)
  BY <1>1, <1>2, <1>3, ConnType DEF Effect
<1>4. ASSUME NEW x \in Fd,
             Leave(n, DataInfo("upload", c, x, TRUE, conn[n].is_write_awaiting),
                   {conn[n].file}, x)
      PROVE  Effect(n)
  <2>1. DataInfo("upload", c, x, TRUE, conn[n].is_write_awaiting) \in DataInfos
    BY ConnType, DataInfoType DEF Task, Alive, Suspended
  <2> QED
    BY <1>4, <2>1, ConnType DEF Effect, DataInfo, HoldsFile, Alive, Suspended
<1>5. CASE Leave(n, Received(conn[n], c), {conn[n].file}, NoFd)
  BY <1>1, <1>2, <1>5, ConnType DEF Effect
<1>6. CASE Leave(n, Received(conn[n], c), {conn[n].file, n}, NoFd)
  BY <1>1, <1>2, <1>6, ConnType DEF Effect
<1> QED
  BY <1>1, <1>3, <1>4, <1>5, <1>6 DEF StartUpload

LEMMA ResumeUploadEffect ==
  ASSUME TypeOK, NEW n \in Fd, ResumeUpload(n)
  PROVE  /\ Effect(n)
         /\ full' \in [Client -> BOOLEAN]
         /\ input' \in [Client -> BOOLEAN]
<1>1. full' \in [Client -> BOOLEAN] /\ input' \in [Client -> BOOLEAN]
  BY BuffersType DEF ResumeUpload
<1>2. /\ Received(conn[n], conn[n].of) \in DataInfos
      /\ Received(conn[n], conn[n].of).file = NoFd
  BY ConnType, EndedType
<1>3. CASE Leave(n, [conn[n] EXCEPT !.is_read_awaiting = TRUE], {}, NoFd)
  <2>1. conn[n].task = "upload"
    BY DEF ResumeUpload
  <2>2. \E d \in DataInfos : /\ d.task = "upload" /\ d.file = conn[n].file
                              /\ Leave(n, d, {}, NoFd)
    BY <1>3, <2>1, ConnType, WaitingType
  <2> QED
    BY <1>1, <1>3, <2>2 DEF Effect, HoldsFile, Alive, Suspended
<1>4. CASE Leave(n, Received(conn[n], conn[n].of), {conn[n].file}, NoFd)
  BY <1>1, <1>2, <1>4, ConnType DEF Effect
<1>5. CASE Leave(n, Received(conn[n], conn[n].of), {conn[n].file, n}, NoFd)
  BY <1>1, <1>2, <1>5, ConnType DEF Effect
<1> QED
  BY <1>1, <1>3, <1>4, <1>5 DEF ResumeUpload

LEMMA SendLoopEffect ==
  ASSUME TypeOK, NEW n \in Fd, NEW c \in Client \cup {NoClient},
         SendLoop(n, c, conn[n].file)
  PROVE  Effect(n) /\ full' \in [Client -> BOOLEAN]
<1>1. full' \in [Client -> BOOLEAN]
  BY BuffersType DEF SendLoop
<1>2. /\ Finished(c) \in DataInfos /\ Finished(c).file = NoFd
      /\ Abandoned(conn[n], c) \in DataInfos /\ Abandoned(conn[n], c).file = NoFd
  BY ConnType, EndedType
<1>3. CASE Leave(n, DataInfo("send", c, conn[n].file, FALSE, TRUE), {}, NoFd)
  <2>1. DataInfo("send", c, conn[n].file, FALSE, TRUE) \in DataInfos
    BY ConnType, DataInfoType DEF Task, Alive, Suspended
  <2> QED
    BY <1>1, <1>3, <2>1, ConnType DEF Effect, DataInfo, HoldsFile, Alive, Suspended
<1>4. CASE Leave(n, Finished(c), {conn[n].file}, NoFd)
  BY <1>1, <1>2, <1>4, ConnType DEF Effect
<1>5. CASE Leave(n, Abandoned(conn[n], c), {conn[n].file}, NoFd)
  BY <1>1, <1>2, <1>5, ConnType DEF Effect
<1> QED
  BY <1>1, <1>3, <1>4, <1>5 DEF SendLoop

LEMMA StartDownloadEffect ==
  ASSUME TypeOK, NEW n \in Fd, NEW c \in Client, StartDownload(n, c)
  PROVE  Effect(n) /\ full' \in [Client -> BOOLEAN]
<1>1. full' \in [Client -> BOOLEAN]
  BY BuffersType DEF StartDownload
<1>2. /\ Finished(c) \in DataInfos /\ Finished(c).file = NoFd
      /\ Abandoned(conn[n], c) \in DataInfos /\ Abandoned(conn[n], c).file = NoFd
  BY ConnType, EndedType
<1>3. CASE Leave(n, Finished(c), {conn[n].file}, NoFd)
  BY <1>1, <1>2, <1>3, ConnType DEF Effect
<1>4. ASSUME NEW x \in Fd,
             Leave(n, DataInfo("flag", c, x, TRUE, conn[n].is_write_awaiting),
                   {conn[n].file}, x)
      PROVE  Effect(n)
  <2>1. DataInfo("flag", c, x, TRUE, conn[n].is_write_awaiting) \in DataInfos
    BY ConnType, DataInfoType DEF Task, Alive, Suspended
  <2> QED
    BY <1>4, <2>1, ConnType DEF Effect, DataInfo, HoldsFile, Alive, Suspended
<1>5. CASE Leave(n, Abandoned(conn[n], c), {conn[n].file}, NoFd)
  BY <1>1, <1>2, <1>5, ConnType DEF Effect
<1>6. CASE Leave(n, Finished(c), {conn[n].file, n}, NoFd)
  BY <1>1, <1>2, <1>6, ConnType DEF Effect
<1> QED
  BY <1>1, <1>3, <1>4, <1>5, <1>6 DEF StartDownload

LEMMA ResumeFlagEffect ==
  ASSUME TypeOK, NEW n \in Fd, ResumeFlag(n)
  PROVE  /\ Effect(n)
         /\ full' \in [Client -> BOOLEAN]
         /\ input' \in [Client -> BOOLEAN]
<1>1. input' \in [Client -> BOOLEAN]
  BY BuffersType DEF ResumeFlag
<1>2. UNCHANGED full => full' \in [Client -> BOOLEAN]
  BY BuffersType
<1>3. CASE SendLoop(n, conn[n].of, conn[n].file)
  BY <1>1, <1>3, ConnType, SendLoopEffect
<1>4. CASE UNCHANGED full /\ Leave(n, Finished(conn[n].of), {conn[n].file, n}, NoFd)
  <2>1. Finished(conn[n].of) \in DataInfos /\ Finished(conn[n].of).file = NoFd
    BY ConnType, EndedType
  <2> QED
    BY <1>1, <1>2, <1>4, <2>1, ConnType DEF Effect
<1>5. CASE UNCHANGED full
             /\ Leave(n, [conn[n] EXCEPT !.is_read_awaiting = TRUE], {}, NoFd)
  <2>1. conn[n].task = "flag"
    BY DEF ResumeFlag
  <2>2. \E d \in DataInfos : /\ d.task = "flag" /\ d.file = conn[n].file
                              /\ Leave(n, d, {}, NoFd)
    BY <1>5, <2>1, ConnType, WaitingType
  <2> QED
    BY <1>1, <1>2, <1>5, <2>2 DEF Effect, HoldsFile, Alive, Suspended
<1> QED
  BY <1>3, <1>4, <1>5 DEF ResumeFlag

LEMMA HttpRoundEffect ==
  ASSUME TypeOK, NEW n \in Fd, NEW c \in Client \cup {NoClient}, HttpRound(n, c)
  PROVE  Effect(n) /\ full' \in [Client -> BOOLEAN]
<1>1. full' \in [Client -> BOOLEAN]
  BY BuffersType DEF HttpRound
<1>2. /\ Finished(c) \in DataInfos /\ Finished(c).file = NoFd
      /\ Abandoned(conn[n], c) \in DataInfos /\ Abandoned(conn[n], c).file = NoFd
  BY ConnType, EndedType
<1>3. CASE Leave(n, DataInfo("httpIdle", c, NoFd, TRUE, FALSE), {conn[n].file}, NoFd)
  <2>1. DataInfo("httpIdle", c, NoFd, TRUE, FALSE) \in DataInfos
    BY DataInfoType DEF Task, Alive, Suspended
  <2> QED
    BY <1>1, <1>3, <2>1, ConnType DEF Effect, DataInfo
<1>4. CASE Leave(n, Finished(c), {conn[n].file, n}, NoFd)
  BY <1>1, <1>2, <1>4, ConnType DEF Effect
<1>5. ASSUME NEW x \in Fd, NEW shut \in {{conn[n].file}, {conn[n].file, n}},
             NEW task \in {"httpSend", "httpRefused", "httpSpin"}, NEW w \in BOOLEAN,
             Leave(n, DataInfo(task, c, x, conn[n].is_read_awaiting, w), shut, x)
      PROVE  Effect(n)
  <2>1. task \in Alive /\ task \in Task
    BY DEF Task, Alive, Suspended
  <2>2. /\ DataInfo(task, c, x, conn[n].is_read_awaiting, w) \in DataInfos
        /\ DataInfo(task, c, x, conn[n].is_read_awaiting, w).task = task
        /\ DataInfo(task, c, x, conn[n].is_read_awaiting, w).file = x
    BY <2>1, ConnType, DataInfoType
  <2>3. task \in HoldsFile
    BY DEF HoldsFile, Alive, Suspended
  <2> QED
    BY <1>5, <2>1, <2>2, <2>3, ConnType DEF Effect
<1>6. CASE Leave(n, Abandoned(conn[n], c), {conn[n].file}, NoFd)
  BY <1>1, <1>2, <1>6, ConnType DEF Effect
<1> QED
  BY <1>1, <1>3, <1>4, <1>5, <1>6, ConnType DEF HttpRound

LEMMA ResumeHttpIdleEffect ==
  ASSUME TypeOK, FileInScope, NEW n \in Fd, ResumeHttpIdle(n)
  PROVE  /\ Effect(n)
         /\ full' \in [Client -> BOOLEAN]
         /\ input' \in [Client -> BOOLEAN]
<1>1. input' \in [Client -> BOOLEAN]
  BY BuffersType DEF ResumeHttpIdle
<1>2. UNCHANGED full => full' \in [Client -> BOOLEAN]
  BY BuffersType
<1>3. conn[n].file = NoFd
  BY DEF ResumeHttpIdle, FileInScope, HoldsFile
<1>4. LET c == conn[n].of
      IN  /\ Finished(c) \in DataInfos /\ Finished(c).file = NoFd
          /\ Abandoned(conn[n], c) \in DataInfos /\ Abandoned(conn[n], c).file = NoFd
  BY ConnType, EndedType
<1>5. CASE HttpRound(n, conn[n].of)
  BY <1>1, <1>5, ConnType, HttpRoundEffect
<1>6. CASE UNCHANGED full /\ Leave(n, Finished(conn[n].of), {n}, NoFd)
  BY <1>1, <1>2, <1>3, <1>4, <1>6 DEF Effect
<1>7. CASE UNCHANGED full /\ Leave(n, Abandoned(conn[n], conn[n].of), {}, NoFd)
  BY <1>1, <1>2, <1>3, <1>4, <1>7 DEF Effect
<1> QED
  BY <1>5, <1>6, <1>7 DEF ResumeHttpIdle

LEMMA ResumeHttpSendEffect ==
  ASSUME TypeOK, NEW n \in Fd, ResumeHttpSend(n)
  PROVE  /\ Effect(n)
         /\ full' \in [Client -> BOOLEAN]
         /\ input' \in [Client -> BOOLEAN]
<1>1. full' \in [Client -> BOOLEAN] /\ input' \in [Client -> BOOLEAN]
  BY BuffersType DEF ResumeHttpSend
<1>2. ASSUME NEW shut \in {{}, {n}},
             Leave(n, [conn[n] EXCEPT !.is_write_awaiting = TRUE], shut, NoFd)
      PROVE  Effect(n)
  <2>1. conn[n].task = "httpSend"
    BY DEF ResumeHttpSend
  <2>2. \E d \in DataInfos : /\ d.task = "httpSend" /\ d.file = conn[n].file
                              /\ Leave(n, d, shut, NoFd)
    BY <1>2, <2>1, ConnType, WaitingType
  <2> QED
    BY <1>2, <2>2 DEF Effect, HoldsFile, Alive, Suspended
<1>3. CASE Leave(n, DataInfo("httpIdle", conn[n].of, NoFd, TRUE, FALSE),
                 {conn[n].file}, NoFd)
  <2>1. DataInfo("httpIdle", conn[n].of, NoFd, TRUE, FALSE) \in DataInfos
    BY ConnType, DataInfoType DEF Task, Alive, Suspended
  <2> QED
    BY <1>1, <1>3, <2>1, ConnType DEF Effect, DataInfo
<1>4. CASE Leave(n, Finished(conn[n].of), {conn[n].file, n}, NoFd)
  <2>1. Finished(conn[n].of) \in DataInfos /\ Finished(conn[n].of).file = NoFd
    BY ConnType, EndedType
  <2> QED
    BY <1>1, <1>4, <2>1, ConnType DEF Effect
<1>5. CASE Leave(n, [conn[n] EXCEPT !.task = "httpSpin"], {}, NoFd)
  <2>1. \E d \in DataInfos : /\ d.task = "httpSpin" /\ d.file = conn[n].file
                              /\ Leave(n, d, {}, NoFd)
    BY <1>5, ConnType, SpinType
  <2> QED
    BY <1>1, <2>1 DEF Effect, HoldsFile, Alive, Suspended
<1> QED
  BY <1>1, <1>2, <1>3, <1>4, <1>5 DEF ResumeHttpSend

LEMMA ResumeHttpRefusedEffect ==
  ASSUME TypeOK, NEW n \in Fd, ResumeHttpRefused(n)
  PROVE  /\ Effect(n)
         /\ full' \in [Client -> BOOLEAN]
         /\ input' \in [Client -> BOOLEAN]
<1>1. full' \in [Client -> BOOLEAN] /\ input' \in [Client -> BOOLEAN]
  BY BuffersType DEF ResumeHttpRefused
<1>2. CASE Leave(n, [conn[n] EXCEPT !.is_write_awaiting = TRUE], {n}, NoFd)
  <2>1. conn[n].task = "httpRefused"
    BY DEF ResumeHttpRefused
  <2>2. \E d \in DataInfos : /\ d.task = "httpRefused" /\ d.file = conn[n].file
                              /\ Leave(n, d, {n}, NoFd)
    BY <1>2, <2>1, ConnType, WaitingType
  <2> QED
    BY <1>1, <2>2 DEF Effect, HoldsFile, Alive, Suspended
<1>3. CASE Leave(n, DataInfo("httpIdle", conn[n].of, NoFd, TRUE, FALSE),
                 {conn[n].file}, NoFd)
  <2>1. DataInfo("httpIdle", conn[n].of, NoFd, TRUE, FALSE) \in DataInfos
    BY ConnType, DataInfoType DEF Task, Alive, Suspended
  <2> QED
    BY <1>1, <1>3, <2>1, ConnType DEF Effect, DataInfo
<1>4. CASE Leave(n, Finished(conn[n].of), {conn[n].file, n}, NoFd)
  <2>1. Finished(conn[n].of) \in DataInfos /\ Finished(conn[n].of).file = NoFd
    BY ConnType, EndedType
  <2> QED
    BY <1>1, <1>4, <2>1, ConnType DEF Effect
<1> QED
  BY <1>1, <1>2, <1>3, <1>4 DEF ResumeHttpRefused

\* Whatever coroutine an event resumes, and whatever request starts one.
LEMMA ResumeEffect ==
  ASSUME TypeOK, FileInScope, NEW n \in Fd, Resume(n)
  PROVE  /\ Effect(n)
         /\ full' \in [Client -> BOOLEAN]
         /\ input' \in [Client -> BOOLEAN]
<1>1. CASE ResumeSend(n)
  BY <1>1, ConnType, SendLoopEffect, BuffersType DEF ResumeSend
<1> QED
  BY <1>1, ResumeUploadEffect, ResumeFlagEffect, ResumeHttpSendEffect,
     ResumeHttpRefusedEffect, ResumeHttpIdleEffect DEF Resume

LEMMA StartEffect ==
  ASSUME TypeOK, NEW n \in Fd, StartFile(n) \/ StartGet(n) \/ StartHttp(n)
  PROVE  /\ Touch(n)
         /\ Effect(n)
         /\ full' \in [Client -> BOOLEAN]
         /\ input' \in [Client -> BOOLEAN]
  BY StartUploadEffect, StartDownloadEffect, HttpRoundEffect, BuffersType
     DEF StartFile, StartGet, StartHttp, Request, Client

------------------------------------------------------------------------------
(* The inductive invariant. *)

\* Tracked says where every open descriptor is recorded; to keep it, a coroutine
\* that is resumed or destroyed must be known to hold no File but the one its
\* code has in scope.
IInv == TypeOK /\ FileInScope /\ Tracked

LEMMA DescriptorsType ==
  ASSUME TypeOK, NEW shut, NEW open, NEW c \in Client \cup {NoClient},
         Descriptors(shut, open, c)
  PROVE  fdt' \in [Fd -> Descriptor] /\ ready' \in SUBSET Client
<1>1. Free \in Descriptor /\ FileOf(c) \in Descriptor
  BY DEF Free, FileOf, Descriptor
<1> QED
  BY <1>1 DEF TypeOK, Descriptors

LEMMA InitInv == Init => IInv
<1> SUFFICES ASSUME Init PROVE IInv
  OBVIOUS
<1>1. TypeOK
  <2>1. Free \in Descriptor
    BY DEF Free, Descriptor
  <2>2. ticks \in 0..MaxTicks
    BY TicksAssumption DEF Init
  <2> QED
    BY <2>1, <2>2, NewDataInfoType DEF Init, TypeOK
<1>2. FileInScope
  BY DEF Init, FileInScope, NewDataInfo, DataInfo
<1>3. Tracked
  BY DEF Init, Tracked, Free, Sock, FileOf
<1> QED
  BY <1>1, <1>2, <1>3 DEF IInv

\* One dispatched event: the handler of n runs and n is touched.
LEMMA DispatchInv ==
  ASSUME IInv, NEW n \in Fd, Touch(n), Effect(n),
         full' \in [Client -> BOOLEAN], input' \in [Client -> BOOLEAN]
  PROVE  IInv'
<1>1. PICK d \in DataInfos, shut \in SUBSET (Fd \cup {NoFd}), open \in Fd \cup {NoFd} :
        /\ Leave(n, d, shut, open)
        /\ open = NoFd \/ (d.task \in Alive /\ d.file = open)
        /\ conn[n].file \in shut \/ conn[n].file = NoFd
             \/ (d.task \in Alive /\ d.file = conn[n].file)
        /\ d.task \notin HoldsFile => d.file = NoFd
  BY DEF Effect
<1>2. d.of \in Client \cup {NoClient}
  BY DEF DataInfos
<1>3. TypeOK
  BY DEF IInv
<1>4. conn' = [conn EXCEPT ![n] = d] /\ Descriptors(shut, open, d.of)
  BY <1>1 DEF Leave
<1>5. entry' = entry \cup {n} /\ timer' = [timer EXCEPT ![n] = "fresh"]
  BY DEF Touch
<1>6. TypeOK'
  <2>1. fdt' \in [Fd -> Descriptor] /\ ready' \in SUBSET Client
    BY <1>2, <1>3, <1>4, DescriptorsType
  <2>2. conn' \in [Fd -> DataInfos]
    BY <1>3, <1>4 DEF TypeOK
  <2>3. entry' \in SUBSET Fd /\ timer' \in [Fd -> {"absent", "fresh", "old"}]
    BY <1>3, <1>5 DEF TypeOK
  <2> QED
    BY <1>3, <2>1, <2>2, <2>3 DEF TypeOK, Touch
<1>7. FileInScope'
  BY <1>1, <1>3, <1>4 DEF IInv, FileInScope, TypeOK
<1>8. Tracked'
  <2>1. entry' = {m \in Fd : timer'[m] # "absent"}
    BY <1>3, <1>5 DEF IInv, Tracked, TypeOK
  <2>2. ASSUME NEW m \in Fd, NEW c \in Client, fdt'[m] = Sock(c)
        PROVE  m \in entry'
    BY <1>4, <1>5, <2>2 DEF IInv, Tracked, Descriptors, Sock, FileOf, Free
  <2>3. ASSUME NEW x \in Fd, NEW c \in Client, fdt'[x] = FileOf(c)
        PROVE  \E m \in entry' : conn'[m].task \in Alive /\ conn'[m].file = x
    <3>1. conn'[n] = d /\ n \in entry'
      BY <1>3, <1>4, <1>5 DEF TypeOK
    <3>2. x \notin shut /\ (x = open \/ fdt[x] = FileOf(c))
      BY <1>4, <2>3 DEF Descriptors, FileOf, Free
    <3>3. CASE x = open
      BY <1>1, <3>1, <3>3, NoFdIsNotAFd
    <3>4. CASE fdt[x] = FileOf(c)
      <4>1. PICK m \in entry : conn[m].task \in Alive /\ conn[m].file = x
        BY <3>4 DEF IInv, Tracked
      <4>2. CASE m = n
        BY <1>1, <3>1, <3>2, <4>1, <4>2, NoFdIsNotAFd
      <4>3. CASE m # n
        BY <1>3, <1>4, <1>5, <4>1, <4>3 DEF TypeOK
      <4> QED
        BY <4>2, <4>3
    <3> QED
      BY <3>2, <3>3, <3>4
  <2>4. ASSUME NEW m \in Fd \ entry'
        PROVE  conn'[m] = NewDataInfo
    BY <1>3, <1>4, <1>5 DEF IInv, Tracked, TypeOK
  <2> QED
    BY <2>1, <2>2, <2>3, <2>4 DEF Tracked
<1> QED
  BY <1>6, <1>7, <1>8 DEF IInv

\* Entries that are erased, with everything they hold.
LEMMA EraseInv ==
  ASSUME IInv, NEW gone \in SUBSET Fd, Erase(gone),
         timer' \in [Fd -> {"absent", "fresh", "old"}],
         \A n \in Fd : timer'[n] = "absent" <=> (n \in gone \/ timer[n] = "absent")
  PROVE  /\ fdt' \in [Fd -> Descriptor] /\ ready' \in SUBSET Client
         /\ conn' \in [Fd -> DataInfos] /\ entry' \in SUBSET Fd
         /\ FileInScope'
         /\ Tracked'
<1>1. TypeOK
  BY DEF IInv
<1>2. /\ Descriptors(Frames(gone), NoFd, NoClient)
      /\ entry' = entry \ gone
      /\ conn' = [n \in Fd |-> IF n \in gone THEN NewDataInfo ELSE conn[n]]
  BY DEF Erase
<1>3. fdt' \in [Fd -> Descriptor] /\ ready' \in SUBSET Client
  BY <1>1, <1>2, DescriptorsType
<1>4. conn' \in [Fd -> DataInfos] /\ entry' \in SUBSET Fd
  BY <1>1, <1>2, NewDataInfoType DEF TypeOK
<1>5. FileInScope'
  BY <1>1, <1>2 DEF IInv, FileInScope, TypeOK, NewDataInfo, DataInfo
<1>6. Tracked'
  <2>1. entry' = {m \in Fd : timer'[m] # "absent"}
    BY <1>2 DEF IInv, Tracked
  <2>2. ASSUME NEW m \in Fd, NEW c \in Client, fdt'[m] = Sock(c)
        PROVE  m \in entry'
    <3>1. m \notin Frames(gone) /\ fdt[m] = Sock(c)
      BY <1>2, <2>2 DEF Descriptors, Sock, FileOf, Free
    <3> QED
      BY <1>2, <3>1 DEF IInv, Tracked, Frames
  <2>3. ASSUME NEW x \in Fd, NEW c \in Client, fdt'[x] = FileOf(c)
        PROVE  \E m \in entry' : conn'[m].task \in Alive /\ conn'[m].file = x
    <3>1. x \notin Frames(gone) /\ fdt[x] = FileOf(c)
      BY <1>2, <2>3, NoFdIsNotAFd DEF Descriptors, FileOf, Free
    <3>2. PICK m \in entry : conn[m].task \in Alive /\ conn[m].file = x
      BY <3>1 DEF IInv, Tracked
    <3>3. m \notin gone
      BY <3>1, <3>2 DEF Frames
    <3> QED
      BY <1>1, <1>2, <3>2, <3>3 DEF TypeOK
  <2>4. ASSUME NEW m \in Fd \ entry'
        PROVE  conn'[m] = NewDataInfo
    BY <1>2 DEF IInv, Tracked
  <2> QED
    BY <2>1, <2>2, <2>3, <2>4 DEF Tracked
<1> QED
  BY <1>3, <1>4, <1>5, <1>6

\* The clients, the clock and epoll_wait leave the server's bookkeeping alone.
LEMMA BookkeepingUnchanged ==
  ASSUME IInv, UNCHANGED <<fdt, entry, conn, timer>>
  PROVE  FileInScope' /\ Tracked'
  BY DEF IInv, FileInScope, Tracked

LEMMA EnvironmentInv ==
  ASSUME IInv, Environment
  PROVE  IInv'
<1>1. ASSUME NEW c \in Client, Connect(c) \/ Send(c) \/ Drain(c)
      PROVE  IInv'
  BY <1>1, BookkeepingUnchanged DEF IInv, TypeOK, Connect, Send, Drain
<1>2. ASSUME NEW c \in Client, NEW how \in HangUps, HangUp(c, how)
      PROVE  IInv'
  BY <1>2, HangUpsAssumption, BookkeepingUnchanged DEF IInv, TypeOK, HangUp
<1>3. CASE Alarm
  <2>1. ticks' \in 0..MaxTicks
    BY <1>3, TicksAssumption DEF IInv, TypeOK, Alarm
  <2> QED
    BY <1>3, <2>1, BookkeepingUnchanged DEF IInv, TypeOK, Alarm
<1> QED
  BY <1>1, <1>2, <1>3 DEF Environment

LEMMA EpollWaitInv ==
  ASSUME IInv, EpollWait
  PROVE  IInv'
<1>1. \A c \in Client : Mask(c) \in SUBSET {"IN", "OUT", "HUP"}
  BY DEF Mask
<1>2. Fetched \in [Fd -> SUBSET {"IN", "OUT", "HUP"}]
  BY <1>1 DEF Fetched, IInv, TypeOK
<1> QED
  BY <1>2, BookkeepingUnchanged DEF IInv, TypeOK, EpollWait

LEMMA AcceptOneInv ==
  ASSUME IInv, AcceptOne
  PROVE  IInv'
<1>1. PICK c \in backlog, x \in Fd :
        /\ Lowest(x)
        /\ fdt' = [fdt EXCEPT ![x] = Sock(c)]
        /\ backlog' = backlog \ {c}
        /\ ready' = ready \cup {c}
        /\ entry' = entry \cup {x}
        /\ timer' = [timer EXCEPT ![x] = "fresh"]
  BY DEF AcceptOne
<1>2. TypeOK /\ c \in Client /\ conn' = conn
  BY <1>1 DEF IInv, TypeOK, AcceptOne
<1>3. Sock(c) \in Descriptor
  BY <1>2 DEF Sock, Descriptor
<1>4. TypeOK'
  BY <1>1, <1>2, <1>3 DEF TypeOK, AcceptOne
<1>5. FileInScope'
  BY <1>2 DEF IInv, FileInScope
<1>6. Tracked'
  BY <1>1, <1>2 DEF IInv, Tracked, TypeOK, Sock, FileOf
<1> QED
  BY <1>4, <1>5, <1>6 DEF IInv

LEMMA AcceptEndInv ==
  ASSUME IInv, AcceptEnd
  PROVE  IInv'
  BY BookkeepingUnchanged DEF IInv, TypeOK, AcceptEnd

LEMMA DisconnectInv ==
  ASSUME IInv, NEW n \in Fd, Disconnect(n)
  PROVE  IInv'
<1>1. /\ timer' \in [Fd -> {"absent", "fresh", "old"}]
      /\ \A m \in Fd : timer'[m] = "absent" <=> (m \in {n} \/ timer[m] = "absent")
  BY DEF IInv, TypeOK, Disconnect
<1>2. Erase({n}) /\ {n} \in SUBSET Fd
  BY DEF Disconnect
<1> QED
  BY <1>1, <1>2, EraseInv DEF IInv, TypeOK, Disconnect

LEMMA UnknownRequestInv ==
  ASSUME IInv, NEW n \in Fd, UnknownRequest(n)
  PROVE  IInv'
<1>1. /\ timer' \in [Fd -> {"absent", "fresh", "old"}]
      /\ \A m \in Fd : timer'[m] = "absent" <=> (m \in {n} \/ timer[m] = "absent")
  BY DEF IInv, TypeOK, UnknownRequest
<1>2. Erase({n}) /\ {n} \in SUBSET Fd
  BY DEF UnknownRequest
<1>3. input' \in [Client -> BOOLEAN]
  BY BuffersType DEF IInv, UnknownRequest
<1> QED
  BY <1>1, <1>2, <1>3, EraseInv DEF IInv, TypeOK, UnknownRequest

LEMMA TickInv ==
  ASSUME IInv, Tick
  PROVE  IInv'
<1>1. PICK gone \in SUBSET Fd : ClearExpired(gone) /\ Erase(gone)
  BY DEF Tick
<1>2. /\ timer' \in [Fd -> {"absent", "fresh", "old"}]
      /\ \A m \in Fd : timer'[m] = "absent" <=> (m \in gone \/ timer[m] = "absent")
  BY <1>1 DEF ClearExpired
<1> QED
  BY <1>1, <1>2, EraseInv DEF IInv, TypeOK, Tick

\* Events that touch an entry and run no coroutine.
LEMMA TouchInv ==
  ASSUME IInv, NEW n \in Fd, Touch(n), UNCHANGED <<full, ready, fdt, conn>>,
         input' \in [Client -> BOOLEAN]
  PROVE  IInv'
<1>1. TypeOK'
  BY DEF IInv, TypeOK, Touch
<1>2. FileInScope'
  BY DEF IInv, FileInScope
<1>3. Tracked'
  BY DEF IInv, Tracked, TypeOK, Touch
<1> QED
  BY <1>1, <1>2, <1>3 DEF IInv

LEMMA HandleInv ==
  ASSUME IInv, NEW n \in Fd, Handle(n)
  PROVE  IInv'
<1>1. TypeOK /\ FileInScope
  BY DEF IInv
<1>2. CASE ResumeReader(n) \/ ResumeWriter(n)
  <2>1. Touch(n) /\ Resume(n)
    BY <1>2 DEF ResumeReader, ResumeWriter
  <2> QED
    BY <1>1, <2>1, ResumeEffect, DispatchInv
<1>3. CASE StartFile(n) \/ StartGet(n) \/ StartHttp(n)
  BY <1>1, <1>3, StartEffect, DispatchInv
<1>4. CASE IgnoreWritable(n)
  BY <1>1, <1>4, BuffersType, TouchInv DEF IgnoreWritable
<1>5. CASE Message(n)
  BY <1>1, <1>5, BuffersType, TouchInv DEF Message, Request
<1> QED
  BY <1>2, <1>3, <1>4, <1>5, DisconnectInv, UnknownRequestInv DEF Handle

LEMMA NextInv == IInv /\ [Next]_vars => IInv'
<1> SUFFICES ASSUME IInv, [Next]_vars PROVE IInv'
  OBVIOUS
<1>1. CASE Environment
  BY <1>1, EnvironmentInv
<1>2. CASE Server
  BY <1>2, EpollWaitInv, AcceptOneInv, AcceptEndInv, TickInv, HandleInv DEF Server
<1>3. CASE UNCHANGED vars
  BY <1>3 DEF vars, IInv, TypeOK, FileInScope, Tracked
<1> QED
  BY <1>1, <1>2, <1>3 DEF Next

------------------------------------------------------------------------------
(* The theorems. *)

LEMMA Invariance == Spec => []IInv
  BY InitInv, NextInv, PTL DEF Spec

\* The variables of the loop keep their types.
THEOREM TypeCorrect == Spec => []TypeOK
<1>1. IInv => TypeOK
  BY DEF IInv
<1> QED
  BY <1>1, Invariance, PTL

\* The loop loses track of no descriptor, for any number of connections and
\* any number of alarms: the keys of `connections' and `clock' agree, every open
\* socket has an entry, and every open File lies in the frame of a suspended
\* coroutine of an entry.
THEOREM NothingUntracked == Spec => []Tracked
<1>1. IInv => Tracked
  BY DEF IInv
<1> QED
  BY <1>1, Invariance, PTL

------------------------------------------------------------------------------
(* The Files of suspended transfers, as long as no idle timer fires: then   *)
(* only the handling of a connection's own events closes what it holds,     *)
(* however its client and the others leave.                                 *)

NoAlarm == ~alarmByte /\ ~evAlarm

\* The events of the batch are those of sockets that are open now.
Occupied ==
    \A n \in Fd : ev[n] # {} => \E c \in Client : fdt[n] = Sock(c)

\* No two frames hold one number.
FilesApart ==
    \A n, m \in Fd :
        /\ conn[n].task \in HoldsFile /\ conn[m].task \in HoldsFile
        /\ conn[n].file = conn[m].file
        => n = m

\* HoldsItsFile is not inductive: a frame that shares its number with another
\* loses it when the other ends, and an event for a number that is a File by
\* now would close that File.
FileInv == NoAlarm /\ Occupied /\ FilesApart /\ HoldsItsFile

\* A handler leaves no File in the frame, a new one, or the one that was there;
\* it closes at most its own socket and the File of its own frame.
Kept(n, d, shut, open) ==
    \/ d.task \notin HoldsFile /\ open = NoFd
    \/ /\ d.task \in HoldsFile /\ d.file = open
       /\ open \in Fd /\ fdt[open] = Free /\ open \notin shut
    \/ /\ d.task \in HoldsFile /\ open = NoFd
       /\ d.file = conn[n].file /\ d.of = conn[n].of /\ d.file \notin shut
       /\ conn[n].task \in HoldsFile

Keeps(n) ==
    \E d \in DataInfos, shut \in SUBSET {n, conn[n].file}, open \in Fd \cup {NoFd} :
        Leave(n, d, shut, open) /\ Kept(n, d, shut, open)

LEMMA FrameFile ==
  ASSUME IInv, FileInv, NEW n \in Fd, NEW c \in Client, fdt[n] = Sock(c)
  PROVE  /\ conn[n].task \in HoldsFile <=> conn[n].file \in Fd
         /\ conn[n].file \in Fd => /\ fdt[conn[n].file] = FileOf(conn[n].of)
                                   /\ conn[n].file # n
<1>1. conn[n].file \in Fd => conn[n].task \in HoldsFile
  BY NoFdIsNotAFd DEF IInv, FileInScope, HoldsFile, Alive, Suspended
<1>2. conn[n].task \in HoldsFile =>
        conn[n].file \in Fd /\ fdt[conn[n].file] = FileOf(conn[n].of)
  BY DEF FileInv, HoldsItsFile, OwnsFile, HoldsFile, Alive, Suspended
<1> QED
  BY <1>1, <1>2 DEF Sock, FileOf

LEMMA EndedKept ==
  ASSUME NEW n \in Fd, NEW d \in DataInfos, NEW c \in Client \cup {NoClient}, NEW shut
  PROVE  /\ Kept(n, Finished(c), shut, NoFd)
         /\ Kept(n, Received(d, c), shut, NoFd)
         /\ Kept(n, Abandoned(d, c), shut, NoFd)
         /\ \A r, w \in BOOLEAN : Kept(n, DataInfo("httpIdle", c, NoFd, r, w), shut, NoFd)
  BY DEF Kept, Finished, Received, Abandoned, DataInfo, HoldsFile, Alive, Suspended

\* Ways out that leave no File.
LEMMA EndedKeeps ==
  ASSUME TypeOK, NEW n \in Fd, NEW c \in Client \cup {NoClient},
         NEW shut \in SUBSET {n, conn[n].file},
         NEW d \in {Finished(c), Received(conn[n], c), Abandoned(conn[n], c),
                    DataInfo("httpIdle", c, NoFd, TRUE, FALSE)},
         Leave(n, d, shut, NoFd)
  PROVE  Keeps(n)
<1>1. DataInfo("httpIdle", c, NoFd, TRUE, FALSE) \in DataInfos
  BY DataInfoType DEF Task, Alive, Suspended
<1>2. conn[n] \in DataInfos
  BY ConnType
<1>3. d \in DataInfos
  BY <1>1, <1>2, EndedType
<1>4. /\ Kept(n, Finished(c), shut, NoFd)
      /\ Kept(n, Received(conn[n], c), shut, NoFd)
      /\ Kept(n, Abandoned(conn[n], c), shut, NoFd)
  BY <1>2, EndedKept
<1>5. Kept(n, DataInfo("httpIdle", c, NoFd, TRUE, FALSE), shut, NoFd)
  BY <1>2, EndedKept
<1>6. Kept(n, d, shut, NoFd)
  BY <1>4, <1>5
<1> QED
  BY <1>3, <1>6 DEF Keeps

\* Ways on that open a File: its number was free.
LEMMA OpenedKeeps ==
  ASSUME IInv, FileInv, NEW n \in Fd, NEW b \in Client, fdt[n] = Sock(b),
         NEW c \in Client \cup {NoClient}, NEW task \in HoldsFile,
         NEW r \in BOOLEAN, NEW w \in BOOLEAN, NEW x \in Fd, Lowest(x),
         NEW shut \in SUBSET {n, conn[n].file},
         Leave(n, DataInfo(task, c, x, r, w), shut, x)
  PROVE  Keeps(n)
<1>1. task \in Task
  BY DEF HoldsFile, Alive, Suspended, Task
<1>2. /\ DataInfo(task, c, x, r, w) \in DataInfos
      /\ DataInfo(task, c, x, r, w).task = task
      /\ DataInfo(task, c, x, r, w).file = x
  BY <1>1, DataInfoType
<1>3. x \notin shut
  BY FrameFile DEF Lowest, Free, Sock, FileOf
<1>4. Kept(n, DataInfo(task, c, x, r, w), shut, x)
  BY <1>2, <1>3 DEF Kept, Lowest
<1> QED
  BY <1>2, <1>4 DEF Keeps

\* Ways on that keep the File of the frame.
LEMMA SameKeeps ==
  ASSUME IInv, FileInv, NEW n \in Fd, NEW b \in Client, fdt[n] = Sock(b),
         conn[n].task \in HoldsFile, NEW d \in DataInfos, d.task \in HoldsFile,
         d.file = conn[n].file, d.of = conn[n].of,
         NEW shut \in {{}, {n}}, Leave(n, d, shut, NoFd)
  PROVE  Keeps(n)
<1>1. conn[n].file \notin shut
  BY FrameFile
<1>2. Kept(n, d, shut, NoFd)
  BY <1>1 DEF Kept
<1> QED
  BY <1>2 DEF Keeps

LEMMA SameFields ==
  ASSUME NEW d \in DataInfos
  PROVE  /\ [d EXCEPT !.is_read_awaiting = TRUE].of = d.of
         /\ [d EXCEPT !.is_write_awaiting = TRUE].of = d.of
  BY DEF DataInfos

LEMMA StartKeeps ==
  ASSUME IInv, FileInv, NEW n \in Fd, NEW c \in Client, fdt[n] = Sock(c),
         StartUpload(n, c) \/ StartDownload(n, c)
  PROVE  Keeps(n)
<1>1. TypeOK /\ conn[n].is_write_awaiting \in BOOLEAN
  BY ConnType DEF IInv
<1>2. CASE StartUpload(n, c)
  <2>1. ASSUME NEW x \in Fd, Lowest(x),
               Leave(n, DataInfo("upload", c, x, TRUE, conn[n].is_write_awaiting),
                     {conn[n].file}, x)
        PROVE  Keeps(n)
    BY <1>1, <2>1, OpenedKeeps DEF HoldsFile, Alive, Suspended
  <2>2. ASSUME NEW shut \in {{conn[n].file}, {conn[n].file, n}},
               Leave(n, Received(conn[n], c), shut, NoFd)
        PROVE  Keeps(n)
    BY <1>1, <2>2, EndedKeeps
  <2>3. CASE Leave(n, Abandoned(conn[n], c), {conn[n].file}, NoFd)
    BY <1>1, <2>3, EndedKeeps
  <2> QED
    BY <1>2, <2>1, <2>2, <2>3 DEF StartUpload
<1>3. CASE StartDownload(n, c)
  <2>1. ASSUME NEW x \in Fd, Lowest(x),
               Leave(n, DataInfo("flag", c, x, TRUE, conn[n].is_write_awaiting),
                     {conn[n].file}, x)
        PROVE  Keeps(n)
    BY <1>1, <2>1, OpenedKeeps DEF HoldsFile, Alive, Suspended
  <2>2. ASSUME NEW shut \in {{conn[n].file}, {conn[n].file, n}},
               Leave(n, Finished(c), shut, NoFd)
        PROVE  Keeps(n)
    BY <1>1, <2>2, EndedKeeps
  <2>3. CASE Leave(n, Abandoned(conn[n], c), {conn[n].file}, NoFd)
    BY <1>1, <2>3, EndedKeeps
  <2> QED
    BY <1>3, <2>1, <2>2, <2>3 DEF StartDownload
<1> QED
  BY <1>2, <1>3

LEMMA SendLoopKeeps ==
  ASSUME IInv, FileInv, NEW n \in Fd, NEW c \in Client, fdt[n] = Sock(c),
         conn[n].task \in HoldsFile, SendLoop(n, conn[n].of, conn[n].file)
  PROVE  Keeps(n)
<1>1. /\ TypeOK /\ conn[n] \in DataInfos /\ conn[n].of \in Client \cup {NoClient}
      /\ conn[n].file \in Fd
  BY ConnType, FrameFile DEF IInv
<1>2. CASE Leave(n, DataInfo("send", conn[n].of, conn[n].file, FALSE, TRUE), {}, NoFd)
  <2> DEFINE d == DataInfo("send", conn[n].of, conn[n].file, FALSE, TRUE)
  <2>1. d \in DataInfos /\ d.task \in HoldsFile /\ d.file = conn[n].file /\ d.of = conn[n].of
    BY <1>1 DEF DataInfo, DataInfos, Task, Alive, Suspended, HoldsFile
  <2> QED
    BY <1>2, <2>1, SameKeeps
<1>3. CASE Leave(n, Finished(conn[n].of), {conn[n].file}, NoFd)
  BY <1>1, <1>3, EndedKeeps
<1>4. CASE Leave(n, Abandoned(conn[n], conn[n].of), {conn[n].file}, NoFd)
  BY <1>1, <1>4, EndedKeeps
<1> QED
  BY <1>2, <1>3, <1>4 DEF SendLoop

LEMMA HttpRoundKeeps ==
  ASSUME IInv, FileInv, NEW n \in Fd, NEW c \in Client, fdt[n] = Sock(c),
         NEW b \in Client \cup {NoClient}, HttpRound(n, b)
  PROVE  Keeps(n)
<1>1. /\ TypeOK
      /\ conn[n].is_read_awaiting \in BOOLEAN /\ conn[n].is_write_awaiting \in BOOLEAN
  BY ConnType DEF IInv
<1>2. ASSUME NEW x \in Fd, Lowest(x), NEW shut \in {{conn[n].file}, {conn[n].file, n}},
             NEW task \in {"httpSend", "httpRefused", "httpSpin"}, NEW w \in BOOLEAN,
             Leave(n, DataInfo(task, b, x, conn[n].is_read_awaiting, w), shut, x)
      PROVE  Keeps(n)
  <2>1. task \in HoldsFile
    BY DEF HoldsFile, Alive, Suspended
  <2> QED
    BY <1>1, <1>2, <2>1, OpenedKeeps
<1>3. CASE Leave(n, DataInfo("httpIdle", b, NoFd, TRUE, FALSE), {conn[n].file}, NoFd)
  BY <1>1, <1>3, EndedKeeps
<1>4. CASE Leave(n, Finished(b), {conn[n].file, n}, NoFd)
  BY <1>1, <1>4, EndedKeeps
<1>5. CASE Leave(n, Abandoned(conn[n], b), {conn[n].file}, NoFd)
  BY <1>1, <1>5, EndedKeeps
<1> QED
  BY <1>1, <1>2, <1>3, <1>4, <1>5 DEF HttpRound

LEMMA ResumeKeeps ==
  ASSUME IInv, FileInv, NEW n \in Fd, NEW c \in Client, fdt[n] = Sock(c), Resume(n)
  PROVE  Keeps(n)
<1>1. /\ TypeOK /\ conn[n] \in DataInfos /\ conn[n].of \in Client \cup {NoClient}
  BY ConnType DEF IInv
<1>2. ASSUME conn[n].task \in HoldsFile, NEW shut \in {{}, {n}},
             \/ Leave(n, [conn[n] EXCEPT !.is_read_awaiting = TRUE], shut, NoFd)
             \/ Leave(n, [conn[n] EXCEPT !.is_write_awaiting = TRUE], shut, NoFd)
      PROVE  Keeps(n)
  <2> DEFINE r == [conn[n] EXCEPT !.is_read_awaiting = TRUE]
             w == [conn[n] EXCEPT !.is_write_awaiting = TRUE]
  <2>1. /\ r \in DataInfos /\ r.task = conn[n].task
        /\ r.file = conn[n].file /\ r.of = conn[n].of
        /\ w \in DataInfos /\ w.task = conn[n].task
        /\ w.file = conn[n].file /\ w.of = conn[n].of
    BY <1>1, WaitingType, SameFields
  <2> HIDE DEF r, w
  <2>2. CASE Leave(n, r, shut, NoFd)
    BY <1>2, <2>1, <2>2, SameKeeps
  <2>3. CASE Leave(n, w, shut, NoFd)
    BY <1>2, <2>1, <2>3, SameKeeps
  <2> QED
    BY <1>2, <2>2, <2>3 DEF r, w
<1>3. CASE ResumeUpload(n)
  <2>1. conn[n].task \in HoldsFile
    BY <1>3 DEF ResumeUpload, HoldsFile, Alive, Suspended
  <2>2. ASSUME NEW shut \in {{conn[n].file}, {conn[n].file, n}},
               Leave(n, Received(conn[n], conn[n].of), shut, NoFd)
        PROVE  Keeps(n)
    BY <1>1, <2>2, EndedKeeps
  <2> QED
    BY <1>2, <1>3, <2>1, <2>2 DEF ResumeUpload
<1>4. CASE ResumeFlag(n)
  <2>1. conn[n].task \in HoldsFile
    BY <1>4 DEF ResumeFlag, HoldsFile, Alive, Suspended
  <2>2. CASE Leave(n, Finished(conn[n].of), {conn[n].file, n}, NoFd)
    BY <1>1, <2>2, EndedKeeps
  <2> QED
    BY <1>2, <1>4, <2>1, <2>2, SendLoopKeeps DEF ResumeFlag
<1>5. CASE ResumeSend(n)
  BY <1>5, SendLoopKeeps DEF ResumeSend, HoldsFile, Alive, Suspended
<1>6. CASE ResumeHttpSend(n)
  <2>1. conn[n].task \in HoldsFile
    BY <1>6 DEF ResumeHttpSend, HoldsFile, Alive, Suspended
  <2>2. CASE Leave(n, DataInfo("httpIdle", conn[n].of, NoFd, TRUE, FALSE),
                   {conn[n].file}, NoFd)
    BY <1>1, <2>2, EndedKeeps
  <2>3. CASE Leave(n, Finished(conn[n].of), {conn[n].file, n}, NoFd)
    BY <1>1, <2>3, EndedKeeps
  <2>4. CASE Leave(n, [conn[n] EXCEPT !.task = "httpSpin"], {}, NoFd)
    <3> DEFINE d == [conn[n] EXCEPT !.task = "httpSpin"]
    <3>1. d \in DataInfos /\ d.task = "httpSpin" /\ d.file = conn[n].file
          /\ d.of = conn[n].of
      BY <1>1, SpinType
    <3>2. d.task \in HoldsFile
      BY <3>1 DEF HoldsFile, Alive, Suspended
    <3> QED
      BY <2>1, <2>4, <3>1, <3>2, SameKeeps
  <2> QED
    BY <1>2, <1>6, <2>1, <2>2, <2>3, <2>4 DEF ResumeHttpSend
<1>7. CASE ResumeHttpIdle(n)
  <2>1. CASE Leave(n, Finished(conn[n].of), {n}, NoFd)
    BY <1>1, <2>1, EndedKeeps
  <2>2. CASE Leave(n, Abandoned(conn[n], conn[n].of), {}, NoFd)
    BY <1>1, <2>2, EndedKeeps
  <2> QED
    BY <1>1, <1>7, <2>1, <2>2, HttpRoundKeeps DEF ResumeHttpIdle
<1>8. CASE ResumeHttpRefused(n)
  <2>1. conn[n].task \in HoldsFile
    BY <1>8 DEF ResumeHttpRefused, HoldsFile, Alive, Suspended
  <2>2. CASE Leave(n, DataInfo("httpIdle", conn[n].of, NoFd, TRUE, FALSE),
                   {conn[n].file}, NoFd)
    BY <1>1, <2>2, EndedKeeps
  <2>3. CASE Leave(n, Finished(conn[n].of), {conn[n].file, n}, NoFd)
    BY <1>1, <2>3, EndedKeeps
  <2> QED
    BY <1>2, <1>8, <2>1, <2>2, <2>3 DEF ResumeHttpRefused
<1> QED
  BY <1>3, <1>4, <1>5, <1>6, <1>7, <1>8 DEF Resume

\* Erasing an entry leaves the empty data_info behind.
LEMMA EraseKeeps ==
  ASSUME IInv, NEW n \in Fd, Erase({n})
  PROVE  Keeps(n)
<1>1. conn' = [conn EXCEPT ![n] = NewDataInfo]
  BY DEF Erase, IInv, TypeOK
<1>2. Leave(n, NewDataInfo, {n, conn[n].file}, NoFd)
  BY <1>1 DEF Erase, Frames, Leave, NewDataInfo, DataInfo
<1>3. Kept(n, NewDataInfo, {n, conn[n].file}, NoFd)
  BY DEF Kept, NewDataInfo, DataInfo, HoldsFile, Alive, Suspended
<1> QED
  BY <1>2, <1>3, NewDataInfoType DEF Keeps

\* One dispatched event, on the socket it came from.
LEMMA KeepsFileInv ==
  ASSUME IInv, FileInv, NEW n \in Fd, NEW c \in Client, fdt[n] = Sock(c), Keeps(n),
         ev' = [ev EXCEPT ![n] = {}], UNCHANGED <<alarmByte, evAlarm>>
  PROVE  FileInv'
<1>1. PICK d \in DataInfos, shut \in SUBSET {n, conn[n].file}, open \in Fd \cup {NoFd} :
        Leave(n, d, shut, open) /\ Kept(n, d, shut, open)
  BY DEF Keeps
<1>2. /\ conn'[n] = d /\ ev'[n] = {}
      /\ \A m \in Fd \ {n} : conn'[m] = conn[m] /\ ev'[m] = ev[m]
  BY <1>1 DEF Leave, IInv, TypeOK
<1>3. \A m \in Fd : fdt'[m] = IF m \in shut THEN Free
                              ELSE IF m = open THEN FileOf(d.of) ELSE fdt[m]
  BY <1>1 DEF Leave, Descriptors
<1>4. open = NoFd \/ (open \in Fd /\ fdt[open] = Free)
  BY <1>1 DEF Kept
<1>5. \A m \in Fd \ {n}, b \in Client : fdt[m] = Sock(b) => fdt'[m] = Sock(b)
  <2>1. SUFFICES ASSUME NEW m \in Fd \ {n}, NEW b \in Client, fdt[m] = Sock(b)
                 PROVE  fdt'[m] = Sock(b)
    OBVIOUS
  <2>2. m # conn[n].file
    BY <2>1, FrameFile DEF Sock, FileOf
  <2>3. m # open
    BY <1>4, <2>1, NoFdIsNotAFd DEF Sock, Free
  <2> QED
    BY <1>3, <2>1, <2>2, <2>3
<1>6. ASSUME NEW m \in Fd \ {n}, conn[m].task \in HoldsFile
      PROVE  /\ conn[m].file \in Fd
             /\ fdt'[conn[m].file] = FileOf(conn[m].of)
             /\ conn[m].file # open
             /\ conn[m].file # conn[n].file
  <2>1. conn[m].file \in Fd /\ fdt[conn[m].file] = FileOf(conn[m].of)
    BY <1>6 DEF FileInv, HoldsItsFile, OwnsFile, HoldsFile, Alive, Suspended
  <2>2. conn[m].file # n
    BY <2>1 DEF Sock, FileOf
  <2>3. conn[m].file # conn[n].file
    BY <1>6, <2>1, FrameFile DEF FileInv, FilesApart
  <2>4. conn[m].file # open
    BY <1>4, <2>1, NoFdIsNotAFd DEF Free, FileOf
  <2> QED
    BY <1>3, <2>1, <2>2, <2>3, <2>4
<1>7. ASSUME d.task \in HoldsFile
      PROVE  d.file \in Fd /\ fdt'[d.file] = FileOf(d.of) /\ d.file \in {open, conn[n].file}
  <2>1. CASE d.file = open /\ open \in Fd /\ open \notin shut
    BY <1>3, <2>1
  <2>2. CASE /\ d.file = conn[n].file /\ d.of = conn[n].of /\ d.file \notin shut
             /\ open = NoFd /\ conn[n].task \in HoldsFile
    BY <1>3, <2>2, FrameFile, NoFdIsNotAFd
  <2> QED
    BY <1>1, <1>7, <2>1, <2>2 DEF Kept
<1>8. NoAlarm' /\ Occupied'
  BY <1>2, <1>5 DEF FileInv, NoAlarm, Occupied
<1>9. FilesApart'
  BY <1>2, <1>6, <1>7 DEF FileInv, FilesApart
<1>10. HoldsItsFile'
  BY <1>2, <1>6, <1>7 DEF HoldsItsFile, OwnsFile, HoldsFile, Alive, Suspended
<1> QED
  BY <1>8, <1>9, <1>10 DEF FileInv

LEMMA HandleFileInv ==
  ASSUME IInv, FileInv, NEW n \in Fd, Handle(n)
  PROVE  FileInv'
<1>1. PICK c \in Client : fdt[n] = Sock(c)
  <2>1. ev[n] # {}
    BY DEF Handle, Disconnect, ResumeReader, ResumeWriter, IgnoreWritable, StartFile,
           StartGet, StartHttp, Message, UnknownRequest, Request, Readable, Writable
  <2> QED
    BY <2>1 DEF FileInv, Occupied
<1>2. CASE Disconnect(n) \/ UnknownRequest(n)
  <2>1. /\ Erase({n}) /\ ev' = [ev EXCEPT ![n] = {}]
        /\ UNCHANGED <<alarmByte, evAlarm>>
    BY <1>2 DEF Disconnect, UnknownRequest
  <2> QED
    BY <1>1, <2>1, EraseKeeps, KeepsFileInv
<1>3. ASSUME Touch(n), Keeps(n)
      PROVE  FileInv'
  <2>1. ev' = [ev EXCEPT ![n] = {}] /\ UNCHANGED <<alarmByte, evAlarm>>
    BY <1>3 DEF Touch
  <2> QED
    BY <1>1, <1>3, <2>1, KeepsFileInv
<1>4. CASE ResumeReader(n) \/ ResumeWriter(n)
  BY <1>1, <1>3, <1>4, ResumeKeeps DEF ResumeReader, ResumeWriter
<1>5. ASSUME NEW b \in Client, Request(n, b)
      PROVE  b = c /\ Touch(n)
  BY <1>1, <1>5 DEF Request, Sock
<1>6. CASE StartFile(n) \/ StartGet(n)
  <2>1. Touch(n) /\ (StartUpload(n, c) \/ StartDownload(n, c))
    BY <1>5, <1>6 DEF StartFile, StartGet, Client
  <2> QED
    BY <1>1, <1>3, <2>1, StartKeeps
<1>7. CASE StartHttp(n)
  <2>1. Touch(n) /\ HttpRound(n, c)
    BY <1>5, <1>7 DEF StartHttp, Client
  <2> QED
    BY <1>1, <1>3, <2>1, HttpRoundKeeps
<1>8. CASE Message(n) \/ IgnoreWritable(n)
  <2>1. /\ ev' = [ev EXCEPT ![n] = {}]
        /\ UNCHANGED <<alarmByte, evAlarm, fdt, conn>>
    BY <1>5, <1>8 DEF Message, IgnoreWritable, Touch, Client
  <2>2. \A m \in Fd : ev'[m] # {} => ev[m] # {}
    BY <2>1 DEF IInv, TypeOK
  <2> QED
    BY <2>1, <2>2 DEF FileInv, NoAlarm, Occupied, FilesApart, HoldsItsFile, OwnsFile
<1> QED
  BY <1>2, <1>4, <1>6, <1>7, <1>8 DEF Handle

\* A new socket takes a number that was free: no event and no File is its.
LEMMA AcceptOneFileInv ==
  ASSUME IInv, FileInv, AcceptOne
  PROVE  FileInv'
<1>1. PICK c \in backlog, x \in Fd : fdt[x] = Free /\ fdt' = [fdt EXCEPT ![x] = Sock(c)]
  BY DEF AcceptOne, Lowest
<1>2. UNCHANGED <<conn, ev, alarmByte, evAlarm>> /\ TypeOK
  BY DEF AcceptOne, IInv
<1>3. \A m \in Fd : fdt[m] # Free => fdt'[m] = fdt[m]
  BY <1>1, <1>2 DEF TypeOK
<1>4. NoAlarm' /\ FilesApart'
  BY <1>2 DEF FileInv, NoAlarm, FilesApart
<1>5. Occupied'
  BY <1>2, <1>3 DEF FileInv, Occupied, Sock, Free
<1>6. HoldsItsFile'
  BY <1>2, <1>3 DEF FileInv, HoldsItsFile, OwnsFile, FileOf, Free
<1> QED
  BY <1>4, <1>5, <1>6 DEF FileInv

LEMMA EpollWaitFileInv ==
  ASSUME IInv, FileInv, EpollWait
  PROVE  FileInv'
<1>1. ev' = Fetched /\ evAlarm' = alarmByte /\ UNCHANGED <<fdt, conn, alarmByte>>
  BY DEF EpollWait
<1>2. ready \subseteq Client
  BY DEF IInv, TypeOK
<1>3. Occupied'
  BY <1>1, <1>2 DEF Fetched, Occupied
<1> QED
  BY <1>1, <1>3 DEF FileInv, NoAlarm, FilesApart, HoldsItsFile, OwnsFile

LEMMA NextFileInv ==
  ASSUME MaxTicks = 0, IInv, FileInv, [Next]_vars
  PROVE  FileInv'
<1>1. CASE UNCHANGED <<fdt, conn, ev, alarmByte, evAlarm>>
  BY <1>1 DEF FileInv, NoAlarm, Occupied, FilesApart, HoldsItsFile, OwnsFile
<1>2. CASE Environment
  <2>1. ~Alarm
    BY DEF Alarm, IInv, TypeOK
  <2> QED
    BY <1>1, <1>2, <2>1 DEF Environment, Connect, Send, Drain, HangUp
<1>3. CASE Server
  <2>1. ~Tick
    BY DEF Tick, FileInv, NoAlarm
  <2>2. AcceptEnd => UNCHANGED <<fdt, conn, ev, alarmByte, evAlarm>>
    BY DEF AcceptEnd
  <2> QED
    BY <1>1, <1>3, <2>1, <2>2, EpollWaitFileInv, AcceptOneFileInv, HandleFileInv
       DEF Server
<1> QED
  BY <1>1, <1>2, <1>3 DEF Next, vars

LEMMA InitFileInv == Init => FileInv
  BY DEF Init, FileInv, NoAlarm, Occupied, FilesApart, HoldsItsFile, HoldsFile,
         Alive, Suspended, NewDataInfo, DataInfo

LEMMA FileInvariance ==
  ASSUME MaxTicks = 0
  PROVE  Spec => [](IInv /\ FileInv)
<1>1. Init => IInv /\ FileInv
  BY InitInv, InitFileInv
<1>2. IInv /\ FileInv /\ [Next]_vars => IInv' /\ FileInv'
  BY NextInv, NextFileInv
<1> QED
  BY <1>1, <1>2, PTL DEF Spec

\* No transfer writes to or sends from a number that another connection
\* closed or took, whatever the clients do and however they leave, resets of
\* HTTP connections included.  The idle timer breaks it: an entry whose socket
\* a handler closed expires, and its number is closed again (run loop_idle).
THEOREM FilesKept ==
  ASSUME MaxTicks = 0
  PROVE  Spec => []HoldsItsFile
<1>1. FileInv => HoldsItsFile
  BY DEF FileInv
<1> QED
  BY <1>1, FileInvariance, PTL

------------------------------------------------------------------------------
(* Sessions do not mix as long as no idle timer fires, no HTTP client      *)
(* breaks its connection off and none asks for a range that ends before it *)
(* starts.  Outside these conditions they do: the runs loop_reuse and      *)
(* loop_idle show how.                                                     *)

\* No alarm, and no HTTP client whose connection is reset or whose range the
\* kernel refuses: those are the ways in which handle_http closes its socket
\* and yields.
Calm ==
    /\ MaxTicks = 0
    /\ HttpClient = {} \/ ("rst" \notin HangUps /\ ~Backwards)

------------------------------------------------------------------------------
(* The invariant. *)

NoHttpReset == HttpClient # {} => \A c \in Client : peer[c] # "rst"

\* A connection waits in the backlog or has one socket.
Placed ==
    /\ \A c \in backlog : peer[c] # "away"
    /\ \A n \in Fd, c \in Client : fdt[n] = Sock(c) =>
         peer[c] # "away" /\ c \notin backlog
    /\ \A n, m \in Fd, c \in Client : fdt[n] = Sock(c) /\ fdt[m] = Sock(c) => n = m

\* An event to read is one of the connection that has the number now.
EventsCurrent ==
    \A n \in Fd, c \in Client :
        fdt[n] = Sock(c) /\ "IN" \in ev[n] => input[c] \/ peer[c] # "up"

\* Whom a coroutine may serve; no range is refused here.
Kind(task) == IF task \in {"httpSend", "httpSpin", "httpIdle"} THEN HttpClient
              ELSE IF task = "httpRefused" THEN {} ELSE SftClient

\* The flags a coroutine sets before it suspends; none when it has ended.
FlagsOf(d) ==
    /\ d.task \in {"upload", "flag", "httpIdle"} =>
         d.is_read_awaiting /\ ~d.is_write_awaiting
    /\ d.task = "send" => ~d.is_read_awaiting /\ d.is_write_awaiting
    /\ d.task = "httpSend" => d.is_write_awaiting
    /\ d.task \notin Alive => ~d.is_read_awaiting /\ ~d.is_write_awaiting

\* The coroutine of n ended with a flag set, on a connection that was reset:
\* its next event is the hang-up.
Doomed(n) ==
    /\ conn[n].task = "done"
    /\ \E c \in Client : fdt[n] = Sock(c) /\ peer[c] = "rst"
    /\ ev[n] = {} \/ "HUP" \in ev[n]

FlagsMatch == \A n \in Fd : FlagsOf(conn[n]) \/ Doomed(n)

\* A suspended coroutine stands on the socket of its own connection.
OnItsSocket ==
    \A n \in Fd : conn[n].task \in Alive =>
        /\ conn[n].of \in Kind(conn[n].task)
        /\ fdt[n] = Sock(conn[n].of)

\* A client that is being sent a file is not sending.
Silent ==
    \A n \in Fd : conn[n].task = "send" =>
        /\ ~input[conn[n].of]
        /\ "IN" \in ev[n] => "HUP" \in ev[n]

SessionInv ==
    /\ NoHttpReset
    /\ Placed
    /\ EventsCurrent
    /\ FlagsMatch
    /\ OnItsSocket
    /\ Silent

LEMMA InitSession == Init => SessionInv
<1> SUFFICES ASSUME Init PROVE SessionInv
  OBVIOUS
<1>1. \A n \in Fd : conn[n].task = "none" /\ ~conn[n].is_read_awaiting
                      /\ ~conn[n].is_write_awaiting
  BY DEF Init, NewDataInfo, DataInfo
<1>2. \A n \in Fd, c \in Client : fdt[n] # Sock(c)
  BY DEF Init, Free, Sock
<1>3. NoHttpReset /\ Placed /\ EventsCurrent
  BY <1>2 DEF Init, NoHttpReset, Placed, EventsCurrent
<1>4. FlagsMatch /\ OnItsSocket /\ Silent
  BY <1>1 DEF FlagsMatch, FlagsOf, OnItsSocket, Silent, Alive, Suspended
<1> QED
  BY <1>3, <1>4 DEF SessionInv

------------------------------------------------------------------------------
(* The clients, epoll_wait and accept. *)

LEMMA ConnectSession ==
  ASSUME IInv, FileInv, SessionInv, NEW c \in Client, Connect(c)
  PROVE  SessionInv'
<1>1. /\ UNCHANGED <<input, fdt, conn, ev>>
      /\ peer[c] = "away" /\ peer' = [peer EXCEPT ![c] = "up"]
      /\ backlog' = backlog \cup {c}
      /\ TypeOK
  BY DEF Connect, IInv
<1>2. \A n \in Fd : fdt[n] # Sock(c)
  BY DEF SessionInv, Placed, Connect
<1>3. NoHttpReset' /\ Placed'
  BY <1>1, <1>2 DEF SessionInv, NoHttpReset, Placed, TypeOK
<1>4. EventsCurrent'
  BY <1>1, <1>2 DEF SessionInv, EventsCurrent, TypeOK
<1>5. FlagsMatch'
  BY <1>1, <1>2 DEF SessionInv, FlagsMatch, FlagsOf, Doomed, TypeOK
<1>6. OnItsSocket' /\ Silent'
  BY <1>1 DEF SessionInv, OnItsSocket, Kind, Silent
<1> QED
  BY <1>3, <1>4, <1>5, <1>6 DEF SessionInv

LEMMA SendSession ==
  ASSUME IInv, FileInv, SessionInv, NEW c \in Client, Send(c)
  PROVE  SessionInv'
<1>1. /\ UNCHANGED <<peer, backlog, fdt, conn, ev>>
      /\ input' = [input EXCEPT ![c] = TRUE]
      /\ TypeOK
  BY DEF Send, IInv
<1>2. NoHttpReset' /\ Placed' /\ FlagsMatch' /\ OnItsSocket'
  BY <1>1 DEF SessionInv, NoHttpReset, Placed, FlagsMatch, FlagsOf, Doomed,
              OnItsSocket, Kind
<1>3. EventsCurrent'
  BY <1>1 DEF SessionInv, EventsCurrent, TypeOK
<1>4. Silent'
  <2> SUFFICES ASSUME NEW n \in Fd, conn[n].task = "send"
               PROVE  conn[n].of # c
    BY <1>1 DEF SessionInv, Silent, TypeOK
  <2>1. conn[n].of \in SftClient /\ fdt[n] = Sock(conn[n].of)
    BY DEF SessionInv, OnItsSocket, Kind, Alive, Suspended
  <2> QED
    BY <2>1 DEF Send
<1> QED
  BY <1>2, <1>3, <1>4 DEF SessionInv

LEMMA HangUpSession ==
  ASSUME Calm, IInv, FileInv, SessionInv, NEW c \in Client, NEW how \in HangUps, HangUp(c, how)
  PROVE  SessionInv'
<1>1. /\ UNCHANGED <<input, backlog, fdt, conn, ev>>
      /\ peer[c] = "up" \/ peer[c] = "fin"
      /\ peer' = [peer EXCEPT ![c] = how]
      /\ how \in {"fin", "rst"}
      /\ TypeOK
  BY HangUpsAssumption DEF HangUp, IInv
<1>2. OnItsSocket' /\ Silent'
  BY <1>1 DEF SessionInv, OnItsSocket, Kind, Silent
<1>3. NoHttpReset'
  BY <1>1 DEF Calm, SessionInv, NoHttpReset, TypeOK
<1>4. Placed' /\ EventsCurrent'
  BY <1>1 DEF SessionInv, Placed, EventsCurrent, TypeOK
<1>5. FlagsMatch'
  BY <1>1 DEF SessionInv, FlagsMatch, FlagsOf, Doomed, TypeOK
<1> QED
  BY <1>2, <1>3, <1>4, <1>5 DEF SessionInv

LEMMA DrainSession ==
  ASSUME SessionInv, NEW c \in Client, Drain(c)
  PROVE  SessionInv'
<1>1. UNCHANGED <<peer, backlog, input, fdt, conn, ev>>
  BY DEF Drain
<1> QED
  BY <1>1 DEF SessionInv, NoHttpReset, Placed, EventsCurrent, FlagsMatch, FlagsOf,
              Doomed, OnItsSocket, Kind, Silent

LEMMA AcceptEndSession ==
  ASSUME SessionInv, AcceptEnd
  PROVE  SessionInv'
<1>1. UNCHANGED <<peer, backlog, input, fdt, conn, ev>>
  BY DEF AcceptEnd
<1> QED
  BY <1>1 DEF SessionInv, NoHttpReset, Placed, EventsCurrent, FlagsMatch, FlagsOf,
              Doomed, OnItsSocket, Kind, Silent

LEMMA EpollWaitSession ==
  ASSUME IInv, FileInv, SessionInv, EpollWait
  PROVE  SessionInv'
<1>1. /\ UNCHANGED <<peer, backlog, input, fdt, conn>>
      /\ ev' = Fetched
      /\ TypeOK
  BY DEF EpollWait, IInv
<1>2. NoHttpReset' /\ Placed' /\ OnItsSocket'
  BY <1>1 DEF SessionInv, NoHttpReset, Placed, OnItsSocket, Kind
<1>3. ASSUME NEW n \in Fd, NEW c \in Client, fdt[n] = Sock(c)
      PROVE  ev'[n] \in {{}, Mask(c)}
  BY <1>1, <1>3 DEF Fetched, Sock, TypeOK
<1>4. EventsCurrent'
  BY <1>1, <1>3 DEF EventsCurrent, Mask
<1>5. FlagsMatch'
  BY <1>1, <1>3 DEF SessionInv, FlagsMatch, FlagsOf, Doomed, Mask
<1>6. Silent'
  <2> SUFFICES ASSUME NEW n \in Fd, conn[n].task = "send"
               PROVE  "IN" \in ev'[n] => "HUP" \in ev'[n]
    BY <1>1 DEF SessionInv, Silent
  <2>1. /\ fdt[n] = Sock(conn[n].of) /\ conn[n].of \in Client
        /\ ~input[conn[n].of]
    BY DEF SessionInv, Silent, OnItsSocket, Kind, Client, Alive, Suspended
  <2> QED
    BY <1>3, <2>1 DEF Mask
<1> QED
  BY <1>2, <1>4, <1>5, <1>6 DEF SessionInv

LEMMA AcceptOneSession ==
  ASSUME IInv, FileInv, SessionInv, AcceptOne
  PROVE  SessionInv'
<1>1. PICK c \in backlog, x \in Fd :
        /\ fdt[x] = Free
        /\ fdt' = [fdt EXCEPT ![x] = Sock(c)]
        /\ backlog' = backlog \ {c}
  BY DEF AcceptOne, Lowest
<1>2. /\ UNCHANGED <<peer, input, conn, ev>>
      /\ TypeOK /\ c \in Client
  BY <1>1 DEF AcceptOne, IInv, TypeOK
<1>3. ASSUME NEW m \in Fd, NEW e \in Client
      PROVE  /\ fdt'[m] = Sock(e) <=> fdt[m] = Sock(e) \/ (m = x /\ e = c)
             /\ fdt[m] = FileOf(e) => fdt'[m] = FileOf(e)
  BY <1>1, <1>2 DEF TypeOK, Free, Sock, FileOf
<1>4. NoHttpReset'
  BY <1>2 DEF SessionInv, NoHttpReset
<1>5. Placed'
  BY <1>1, <1>2, <1>3 DEF SessionInv, Placed
<1>6. EventsCurrent'
  <2>1. ev[x] = {}
    BY <1>1 DEF FileInv, Occupied, Free, Sock
  <2> QED
    BY <1>2, <1>3, <2>1 DEF SessionInv, EventsCurrent
<1>7. FlagsMatch'
  BY <1>2, <1>3 DEF SessionInv, FlagsMatch, FlagsOf, Doomed
<1>8. ASSUME NEW n \in Fd, conn[n].task \in Alive
      PROVE  conn[n].of \in Client
  BY <1>8 DEF SessionInv, OnItsSocket, Kind, Client
<1>9. OnItsSocket' /\ Silent'
  BY <1>2, <1>3, <1>8 DEF SessionInv, OnItsSocket, Kind, Silent
<1> QED
  BY <1>4, <1>5, <1>6, <1>7, <1>9 DEF SessionInv

------------------------------------------------------------------------------
(* One dispatched event.                                                    *)

\* What the handler of n, run on the socket of connection c, leaves: a coroutine
\* that has ended with its flags clear, or with a flag set on a connection
\* that was reset; or one suspended for c.  It closes n and the File of its own
\* frame at most, and opens a File under a number that was free.
Ended(d, open) ==
    /\ d.task \notin Alive
    /\ ~d.is_read_awaiting /\ ~d.is_write_awaiting
    /\ open = NoFd

BrokenOff(n, c, d, shut, open) ==
    /\ d.task = "done"
    /\ peer[c] = "rst" /\ n \notin shut
    /\ open = NoFd

FreshFile(open) == open = NoFd \/ (open \in Fd /\ fdt[open] = Free)

Waits(n, c, d, shut, open) ==
    /\ d.task \in Alive
    /\ d.of = c /\ c \in Kind(d.task)
    /\ FlagsOf(d)
    /\ n \notin shut
    /\ d.task = "send" => ~input'[c]
    /\ FreshFile(open)

Outcome(n, c) ==
    \E d \in DataInfos, shut \in SUBSET {n, conn[n].file}, open \in Fd \cup {NoFd} :
        /\ Leave(n, d, shut, open)
        /\ \/ Ended(d, open)
           \/ BrokenOff(n, c, d, shut, open)
           \/ Waits(n, c, d, shut, open)

\* The File in the frame of n is c's, and nobody else's.
LEMMA FrameOf ==
  ASSUME IInv, FileInv, SessionInv, NEW n \in Fd, NEW c \in Client, fdt[n] = Sock(c)
  PROVE  /\ conn[n].file \in Fd =>
               conn[n].task \in HoldsFile /\ fdt[conn[n].file] = FileOf(c)
         /\ conn[n].task \in Alive => conn[n].of = c
<1>1. conn[n].task \in Alive => conn[n].of = c
  BY DEF SessionInv, OnItsSocket, Sock
<1>2. conn[n].file \in Fd => conn[n].task \in HoldsFile
  BY NoFdIsNotAFd DEF IInv, FileInScope, HoldsFile, Alive, Suspended
<1>3. conn[n].task \in HoldsFile => fdt[conn[n].file] = FileOf(c)
  BY <1>1 DEF FileInv, HoldsItsFile, OwnsFile, HoldsFile, Alive, Suspended
<1> QED
  BY <1>1, <1>2, <1>3

\* Handling an event of c leaves the sockets of the others alone.
LEMMA OthersUntouched ==
  ASSUME IInv, FileInv, SessionInv, NEW n \in Fd, NEW c \in Client, fdt[n] = Sock(c),
         NEW shut \in SUBSET {n, conn[n].file}, NEW open, NEW e,
         open = NoFd \/ (open \in Fd /\ fdt[open] = Free),
         Descriptors(shut, open, e)
  PROVE  /\ \A m \in Fd \ {n}, b \in Client : fdt'[m] = Sock(b) <=> fdt[m] = Sock(b)
         /\ n \notin shut => fdt'[n] = fdt[n]
         /\ n \in shut => fdt'[n] = Free
<1>1. \A m \in Fd : fdt'[m] = IF m \in shut THEN Free
                              ELSE IF m = open THEN FileOf(e) ELSE fdt[m]
  BY DEF Descriptors
<1>2. \A m \in Fd \ {n} : m \in shut => fdt[m] = FileOf(c)
  BY FrameOf
<1>3. ASSUME NEW m \in Fd \ {n}, NEW b \in Client
      PROVE  fdt'[m] = Sock(b) <=> fdt[m] = Sock(b)
  BY <1>1, <1>2, NoFdIsNotAFd DEF Sock, FileOf, Free
<1>4. n \notin shut => fdt'[n] = fdt[n]
  BY <1>1, NoFdIsNotAFd DEF Sock, Free
<1> QED
  BY <1>1, <1>3, <1>4

\* Reading until EAGAIN empties the input of c alone.
LEMMA ReadAllOf ==
  ASSUME NEW n \in Fd, NEW c \in Client, fdt[n] = Sock(c), ReadAll(n)
  PROVE  /\ ~input'[c]
         /\ \A b \in Client : input'[b] => input[b]
         /\ \A b \in Client \ {c} : input'[b] <=> input[b]
<1>1. \A b \in Client : fdt[n] # Sock(b) <=> b # c
  BY DEF Sock
<1>2. \A b \in Client : input'[b] = (input[b] /\ fdt[n] # Sock(b))
  BY Zenon DEF ReadAll
<1> QED
  BY <1>1, <1>2, Zenon

LEMMA StepSession ==
  ASSUME IInv, FileInv, SessionInv, NEW n \in Fd, NEW c \in Client, fdt[n] = Sock(c),
         Outcome(n, c),
         ev' = [ev EXCEPT ![n] = {}],
         UNCHANGED <<peer, backlog>>,
         ReadAll(n) \/ UNCHANGED input
  PROVE  SessionInv'
<1>1. PICK d \in DataInfos, shut \in SUBSET {n, conn[n].file}, open \in Fd \cup {NoFd} :
        /\ Leave(n, d, shut, open)
        /\ Ended(d, open) \/ BrokenOff(n, c, d, shut, open) \/ Waits(n, c, d, shut, open)
  BY DEF Outcome
<1>2. TypeOK /\ conn' = [conn EXCEPT ![n] = d] /\ Descriptors(shut, open, d.of)
  BY <1>1 DEF Leave, IInv
<1>3. /\ conn'[n] = d /\ ev'[n] = {}
      /\ \A m \in Fd \ {n} : conn'[m] = conn[m] /\ ev'[m] = ev[m]
  BY <1>2 DEF TypeOK
<1>4. open = NoFd \/ (open \in Fd /\ fdt[open] = Free)
  BY <1>1 DEF Ended, BrokenOff, Waits, FreshFile
<1>5. /\ \A m \in Fd \ {n}, b \in Client : fdt'[m] = Sock(b) <=> fdt[m] = Sock(b)
      /\ n \notin shut => fdt'[n] = fdt[n]
      /\ n \in shut => fdt'[n] = Free
  BY <1>2, <1>4, OthersUntouched
<1>6. \A m \in Fd, b \in Client : fdt'[m] = Sock(b) => fdt[m] = Sock(b)
  BY <1>5 DEF Free, Sock
<1>7. \A m \in Fd \ {n} : fdt[m] # Sock(c)
  BY DEF SessionInv, Placed
<1>8. /\ \A b \in Client : input'[b] => input[b]
      /\ \A b \in Client \ {c} : input'[b] <=> input[b]
  <2>1. CASE ReadAll(n)
    BY <2>1, ReadAllOf
  <2>2. CASE UNCHANGED input
    BY <2>2
  <2> QED
    BY <2>1, <2>2
<1>9. NoHttpReset'
  BY DEF SessionInv, NoHttpReset
<1>10. Placed'
  BY <1>6 DEF SessionInv, Placed
<1>11. EventsCurrent'
  <2> SUFFICES ASSUME NEW m \in Fd, NEW b \in Client, fdt'[m] = Sock(b), "IN" \in ev'[m]
               PROVE  input'[b] \/ peer'[b] # "up"
    BY DEF EventsCurrent
  <2>1. m # n /\ fdt[m] = Sock(b) /\ "IN" \in ev[m]
    BY <1>3, <1>6
  <2>2. b # c
    BY <1>7, <2>1
  <2> QED
    BY <1>8, <2>1, <2>2 DEF SessionInv, EventsCurrent
<1>12. FlagsMatch'
  <2>1. ASSUME NEW m \in Fd \ {n}
        PROVE  FlagsOf(conn'[m]) \/ Doomed(m)'
    BY <1>3, <1>5 DEF SessionInv, FlagsMatch, Doomed
  <2>2. FlagsOf(d) \/ Doomed(n)'
    BY <1>1, <1>3, <1>5 DEF Ended, BrokenOff, Waits, FlagsOf, Doomed, Alive,
                            Suspended
  <2> QED
    BY <1>3, <2>1, <2>2 DEF FlagsMatch, FlagsOf, Doomed
<1>13. OnItsSocket'
  <2>1. ASSUME NEW m \in Fd \ {n}, conn[m].task \in Alive
        PROVE  fdt'[m] = Sock(conn[m].of) /\ conn[m].of \in Kind(conn[m].task)
    BY <1>5, <2>1 DEF SessionInv, OnItsSocket, Kind, Client
  <2>2. d.task \in Alive => d.of \in Kind(d.task) /\ fdt'[n] = Sock(d.of)
    BY <1>1, <1>5 DEF Ended, BrokenOff, Waits, Alive, Suspended
  <2> QED
    BY <1>3, <2>1, <2>2 DEF OnItsSocket, Kind
<1>14. Silent'
  <2>1. ASSUME NEW m \in Fd \ {n}, conn[m].task = "send"
        PROVE  /\ ~input'[conn[m].of]
               /\ "IN" \in ev[m] => "HUP" \in ev[m]
    <3>1. conn[m].of \in Client
      BY <2>1 DEF SessionInv, OnItsSocket, Kind, Client, Alive, Suspended
    <3> QED
      BY <1>8, <2>1, <3>1 DEF SessionInv, Silent
  <2>2. d.task = "send" => ~input'[d.of]
    BY <1>1 DEF Ended, BrokenOff, Waits, Alive, Suspended
  <2> QED
    BY <1>3, <2>1, <2>2 DEF Silent
<1> QED
  BY <1>9, <1>10, <1>11, <1>12, <1>13, <1>14 DEF SessionInv

------------------------------------------------------------------------------
(* Each handler has such an outcome.                                        *)

LEMMA SocketState ==
  ASSUME IInv, FileInv, SessionInv, NEW n \in Fd, NEW c \in Client, fdt[n] = Sock(c)
  PROVE  /\ Up(n) <=> peer[c] = "up"
         /\ Eof(n) <=> peer[c] = "fin"
         /\ Broken(n) => peer[c] = "rst" /\ c \notin HttpClient
         /\ HasInput(n) <=> input[c]
<1>1. \A b \in Client : fdt[n] = Sock(b) <=> b = c
  BY DEF Sock
<1>2. (Up(n) <=> peer[c] = "up") /\ (Eof(n) <=> peer[c] = "fin")
  BY <1>1 DEF Up, Eof
<1>3. HasInput(n) <=> input[c]
  BY <1>1, Zenon DEF HasInput
<1>4. peer[c] \in {"away", "up", "fin", "rst"} /\ peer[c] # "away"
  BY DEF IInv, TypeOK, SessionInv, Placed
<1>5. Broken(n) => peer[c] = "rst"
  BY <1>2, <1>4 DEF Broken
<1>6. Broken(n) => c \notin HttpClient
  BY <1>5 DEF SessionInv, NoHttpReset
<1> QED
  BY <1>2, <1>3, <1>5, <1>6

\* How a coroutine that has ended leaves its flags.
LEMMA EndedFields ==
  ASSUME NEW d \in DataInfos, NEW c \in Client
  PROVE  /\ Finished(c) \in DataInfos /\ Finished(c).task = "done"
         /\ ~Finished(c).is_read_awaiting /\ ~Finished(c).is_write_awaiting
         /\ Received(d, c) \in DataInfos /\ Received(d, c).task = "done"
         /\ ~Received(d, c).is_read_awaiting
         /\ ~d.is_write_awaiting => ~Received(d, c).is_write_awaiting
         /\ Abandoned(d, c) \in DataInfos /\ Abandoned(d, c).task = "done"
         /\ ~d.is_read_awaiting => ~Abandoned(d, c).is_read_awaiting
         /\ ~d.is_write_awaiting => ~Abandoned(d, c).is_write_awaiting
  BY DEF Finished, Received, Abandoned, DataInfo, DataInfos, Task

\* A request of a sft client finds no coroutine.
LEMMA SftRequestFresh ==
  ASSUME IInv, FileInv, SessionInv, NEW n \in Fd, NEW c \in SftClient, fdt[n] = Sock(c),
         Readable(n), ~conn[n].is_read_awaiting
  PROVE  /\ conn[n].task \notin Alive /\ conn[n].file = NoFd
         /\ ~conn[n].is_write_awaiting
<1>1. c \in Client /\ c \notin HttpClient
  BY KindsAssumption DEF Client
<1>2. ~Doomed(n)
  BY DEF Doomed, Readable
<1>3. FlagsOf(conn[n])
  BY <1>2 DEF SessionInv, FlagsMatch
<1>4. conn[n].task # "send"
  BY DEF SessionInv, Silent, Readable
<1>5. conn[n].task \notin {"httpSend", "httpRefused", "httpSpin"}
  BY <1>1, FrameOf DEF SessionInv, OnItsSocket, Kind, Alive, Suspended
<1>6. conn[n].task \notin Alive
  BY <1>3, <1>4, <1>5 DEF FlagsOf, Alive, Suspended
<1>7. conn[n].file = NoFd
  BY <1>6 DEF IInv, FileInScope, HoldsFile, Alive, Suspended
<1> QED
  BY <1>3, <1>6, <1>7 DEF FlagsOf

LEMMA StartUploadOutcome ==
  ASSUME IInv, FileInv, SessionInv, NEW n \in Fd, NEW c \in SftClient, fdt[n] = Sock(c),
         Readable(n), ~conn[n].is_read_awaiting, StartUpload(n, c)
  PROVE  Outcome(n, c)
<1>1. c \in Client /\ TypeOK
  BY DEF Client, IInv
<1>2. /\ conn[n].task \notin Alive /\ conn[n].file = NoFd
      /\ ~conn[n].is_write_awaiting /\ conn[n] \in DataInfos
      /\ conn[n].is_write_awaiting \in BOOLEAN
  BY <1>1, SftRequestFresh, ConnType
<1>3. CASE Leave(n, Abandoned(conn[n], c), {conn[n].file}, NoFd)
  BY <1>1, <1>2, <1>3, EndedFields DEF Outcome, Ended, Alive, Suspended
<1>4. ASSUME NEW x \in Fd, Lowest(x),
             Leave(n, DataInfo("upload", c, x, TRUE, conn[n].is_write_awaiting),
                   {conn[n].file}, x)
      PROVE  Outcome(n, c)
  <2> DEFINE d == DataInfo("upload", c, x, TRUE, conn[n].is_write_awaiting)
  <2>1. /\ d \in DataInfos /\ d.task = "upload" /\ d.of = c /\ d.file = x
        /\ d.is_read_awaiting /\ ~d.is_write_awaiting
    BY <1>1, <1>2 DEF DataInfo, DataInfos, Task, Alive, Suspended
  <2>2. Waits(n, c, d, {conn[n].file}, x)
    BY <1>2, <1>4, <2>1, NoFdIsNotAFd
       DEF Waits, FreshFile, FlagsOf, Kind, HoldsFile, Alive, Suspended, Lowest
  <2> QED
    BY <1>4, <2>1, <2>2 DEF Outcome
<1>5. ASSUME NEW shut \in {{conn[n].file}, {conn[n].file, n}},
             Leave(n, Received(conn[n], c), shut, NoFd)
      PROVE  Outcome(n, c)
  BY <1>1, <1>2, <1>5, EndedFields DEF Outcome, Ended, Alive, Suspended
<1> QED
  BY <1>3, <1>4, <1>5 DEF StartUpload

LEMMA StartDownloadOutcome ==
  ASSUME IInv, FileInv, SessionInv, NEW n \in Fd, NEW c \in SftClient, fdt[n] = Sock(c),
         Readable(n), ~conn[n].is_read_awaiting, StartDownload(n, c)
  PROVE  Outcome(n, c)
<1>1. c \in Client /\ TypeOK
  BY DEF Client, IInv
<1>2. /\ conn[n].task \notin Alive /\ conn[n].file = NoFd
      /\ ~conn[n].is_write_awaiting /\ conn[n] \in DataInfos
      /\ conn[n].is_write_awaiting \in BOOLEAN
  BY <1>1, SftRequestFresh, ConnType
<1>3. CASE Leave(n, Abandoned(conn[n], c), {conn[n].file}, NoFd)
  BY <1>1, <1>2, <1>3, EndedFields DEF Outcome, Ended, Alive, Suspended
<1>4. ASSUME NEW x \in Fd, Lowest(x),
             Leave(n, DataInfo("flag", c, x, TRUE, conn[n].is_write_awaiting),
                   {conn[n].file}, x)
      PROVE  Outcome(n, c)
  <2> DEFINE d == DataInfo("flag", c, x, TRUE, conn[n].is_write_awaiting)
  <2>1. /\ d \in DataInfos /\ d.task = "flag" /\ d.of = c /\ d.file = x
        /\ d.is_read_awaiting /\ ~d.is_write_awaiting
    BY <1>1, <1>2 DEF DataInfo, DataInfos, Task, Alive, Suspended
  <2>2. Waits(n, c, d, {conn[n].file}, x)
    BY <1>2, <1>4, <2>1, NoFdIsNotAFd
       DEF Waits, FreshFile, FlagsOf, Kind, HoldsFile, Alive, Suspended, Lowest
  <2> QED
    BY <1>4, <2>1, <2>2 DEF Outcome
<1>5. ASSUME NEW shut \in {{conn[n].file}, {conn[n].file, n}},
             Leave(n, Finished(c), shut, NoFd)
      PROVE  Outcome(n, c)
  BY <1>1, <1>2, <1>5, EndedFields DEF Outcome, Ended, Alive, Suspended
<1> QED
  BY <1>3, <1>4, <1>5 DEF StartDownload

\* A coroutine that yields again is what it was, with its flag set.
LEMMA WaitingFields ==
  ASSUME NEW d \in DataInfos
  PROVE  /\ [d EXCEPT !.is_read_awaiting = TRUE].of = d.of
         /\ [d EXCEPT !.is_read_awaiting = TRUE].is_read_awaiting
         /\ ~d.is_write_awaiting =>
              ~[d EXCEPT !.is_read_awaiting = TRUE].is_write_awaiting
         /\ [d EXCEPT !.is_write_awaiting = TRUE].of = d.of
         /\ [d EXCEPT !.is_write_awaiting = TRUE].is_write_awaiting
  BY DEF DataInfos

\* What is known of a suspended coroutine that an event of c resumes.
LEMMA Resumed ==
  ASSUME IInv, FileInv, SessionInv, NEW n \in Fd, NEW c \in Client, fdt[n] = Sock(c),
         conn[n].task \in Alive
  PROVE  /\ conn[n] \in DataInfos
         /\ conn[n].of = c /\ c \in Kind(conn[n].task)
         /\ FlagsOf(conn[n])
         /\ conn[n].task \in HoldsFile =>
              OwnsFile(n) /\ conn[n].file \in Fd /\ conn[n].file # n
<1>1. conn[n] \in DataInfos /\ conn[n].of = c
  BY ConnType, FrameOf DEF IInv
<1>2. c \in Kind(conn[n].task)
  BY <1>1 DEF SessionInv, OnItsSocket
<1>3. FlagsOf(conn[n])
  BY DEF SessionInv, FlagsMatch, Doomed, Alive, Suspended
<1>4. conn[n].task \in HoldsFile =>
        OwnsFile(n) /\ conn[n].file \in Fd /\ conn[n].file # n
  BY DEF FileInv, HoldsItsFile, OwnsFile, HoldsFile, Alive, Suspended, Sock, FileOf
<1> QED
  BY <1>1, <1>2, <1>3, <1>4

LEMMA ResumeUploadOutcome ==
  ASSUME IInv, FileInv, SessionInv, NEW n \in Fd, NEW c \in Client, fdt[n] = Sock(c),
         ResumeUpload(n)
  PROVE  Outcome(n, c) /\ (ReadAll(n) \/ UNCHANGED input)
<1>1. conn[n].task = "upload" /\ (ReadAll(n) \/ UNCHANGED input)
  BY DEF ResumeUpload
<1>2. /\ conn[n] \in DataInfos /\ conn[n].of = c /\ c \in Kind("upload")
      /\ conn[n].is_read_awaiting /\ ~conn[n].is_write_awaiting
  BY <1>1, Resumed DEF FlagsOf, Alive, Suspended
<1>3. CASE Leave(n, [conn[n] EXCEPT !.is_read_awaiting = TRUE], {}, NoFd)
  <2> DEFINE d == [conn[n] EXCEPT !.is_read_awaiting = TRUE]
  <2>1. /\ d \in DataInfos /\ d.task = "upload" /\ d.of = c /\ d.file = conn[n].file
        /\ d.is_read_awaiting /\ ~d.is_write_awaiting
    BY <1>1, <1>2, WaitingType, WaitingFields
  <2>2. Waits(n, c, d, {}, NoFd)
    BY <1>1, <1>2, <2>1 DEF Waits, FreshFile, FlagsOf, HoldsFile, Alive, Suspended
  <2> QED
    BY <1>1, <1>3, <2>1, <2>2 DEF Outcome
<1>4. ASSUME NEW shut \in {{conn[n].file}, {conn[n].file, n}},
             Leave(n, Received(conn[n], conn[n].of), shut, NoFd)
      PROVE  Outcome(n, c)
  BY <1>2, <1>4, EndedFields DEF Outcome, Ended, Alive, Suspended
<1> QED
  BY <1>3, <1>4 DEF ResumeUpload

LEMMA SendLoopOutcome ==
  ASSUME IInv, FileInv, SessionInv, NEW n \in Fd, NEW c \in Client, fdt[n] = Sock(c),
         conn[n].task \in {"flag", "send"}, ~input'[c],
         SendLoop(n, conn[n].of, conn[n].file)
  PROVE  Outcome(n, c)
<1>1. /\ conn[n] \in DataInfos /\ conn[n].of = c /\ c \in SftClient
      /\ OwnsFile(n) /\ conn[n].file \in Fd /\ conn[n].file # n
  BY Resumed DEF HoldsFile, Alive, Suspended, Kind
<1>2. CASE Leave(n, DataInfo("send", c, conn[n].file, FALSE, TRUE), {}, NoFd)
  <2> DEFINE d == DataInfo("send", c, conn[n].file, FALSE, TRUE)
  <2>1. /\ d \in DataInfos /\ d.task = "send" /\ d.of = c /\ d.file = conn[n].file
        /\ ~d.is_read_awaiting /\ d.is_write_awaiting
    BY <1>1 DEF DataInfo, DataInfos, Task, Alive, Suspended
  <2>2. Waits(n, c, d, {}, NoFd)
    BY <1>1, <2>1 DEF Waits, FreshFile, FlagsOf, HoldsFile, Alive, Suspended, Kind
  <2> QED
    BY <1>2, <2>1, <2>2 DEF Outcome
<1>3. CASE Leave(n, Finished(c), {conn[n].file}, NoFd)
  BY <1>1, <1>3, EndedFields DEF Outcome, Ended, Alive, Suspended
<1>4. CASE Broken(n) /\ Leave(n, Abandoned(conn[n], c), {conn[n].file}, NoFd)
  <2>1. Abandoned(conn[n], c) \in DataInfos /\ Abandoned(conn[n], c).task = "done"
    BY <1>1, EndedFields
  <2>2. peer[c] = "rst"
    BY <1>4, SocketState
  <2> QED
    BY <1>1, <1>4, <2>1, <2>2 DEF Outcome, BrokenOff
<1> QED
  BY <1>1, <1>2, <1>3, <1>4 DEF SendLoop

LEMMA ResumeFlagOutcome ==
  ASSUME IInv, FileInv, SessionInv, NEW n \in Fd, NEW c \in Client, fdt[n] = Sock(c),
         ResumeFlag(n)
  PROVE  Outcome(n, c) /\ ReadAll(n)
<1>1. conn[n].task = "flag" /\ ReadAll(n)
  BY DEF ResumeFlag
<1>2. /\ conn[n] \in DataInfos /\ conn[n].of = c /\ c \in Kind("flag")
      /\ conn[n].is_read_awaiting /\ ~conn[n].is_write_awaiting
  BY <1>1, Resumed DEF FlagsOf, Alive, Suspended
<1>3. CASE SendLoop(n, conn[n].of, conn[n].file)
  BY <1>1, <1>3, ReadAllOf, SendLoopOutcome
<1>4. CASE Leave(n, Finished(conn[n].of), {conn[n].file, n}, NoFd)
  BY <1>1, <1>2, <1>4, EndedFields DEF Outcome, Ended, Alive, Suspended
<1>5. CASE Leave(n, [conn[n] EXCEPT !.is_read_awaiting = TRUE], {}, NoFd)
  <2> DEFINE d == [conn[n] EXCEPT !.is_read_awaiting = TRUE]
  <2>1. /\ d \in DataInfos /\ d.task = "flag" /\ d.of = c /\ d.file = conn[n].file
        /\ d.is_read_awaiting /\ ~d.is_write_awaiting
    BY <1>1, <1>2, WaitingType, WaitingFields
  <2>2. Waits(n, c, d, {}, NoFd)
    BY <1>1, <1>2, <2>1 DEF Waits, FreshFile, FlagsOf, HoldsFile, Alive, Suspended
  <2> QED
    BY <1>1, <1>5, <2>1, <2>2 DEF Outcome
<1> QED
  BY <1>1, <1>3, <1>4, <1>5 DEF ResumeFlag

LEMMA ResumeSendOutcome ==
  ASSUME IInv, FileInv, SessionInv, NEW n \in Fd, NEW c \in Client, fdt[n] = Sock(c),
         ResumeSend(n)
  PROVE  Outcome(n, c) /\ UNCHANGED input
<1>1. conn[n].task = "send" /\ UNCHANGED input
  BY DEF ResumeSend
<1>2. conn[n].of = c
  BY <1>1, Resumed DEF Alive, Suspended
<1>3. ~input'[c]
  BY <1>1, <1>2 DEF SessionInv, Silent
<1> QED
  BY <1>1, <1>3, SendLoopOutcome DEF ResumeSend

\* An HTTP connection is never broken here and no range refused, so handle_http
\* leaves by its ordinary ways, or not at all.
LEMMA HttpRoundOutcome ==
  ASSUME Calm, IInv, FileInv, SessionInv, NEW n \in Fd, NEW c \in HttpClient, fdt[n] = Sock(c),
         HttpRound(n, c)
  PROVE  Outcome(n, c)
<1>1. c \in Client /\ TypeOK /\ conn[n] \in DataInfos
      /\ conn[n].is_read_awaiting \in BOOLEAN
  BY ConnType DEF Client, IInv
<1>2. ~Broken(n) /\ ~Backwards
  BY <1>1, SocketState DEF Calm
<1>3. CASE Leave(n, DataInfo("httpIdle", c, NoFd, TRUE, FALSE), {conn[n].file}, NoFd)
  <2> DEFINE d == DataInfo("httpIdle", c, NoFd, TRUE, FALSE)
  <2>1. /\ d \in DataInfos /\ d.task = "httpIdle" /\ d.of = c
        /\ d.is_read_awaiting /\ ~d.is_write_awaiting
    BY <1>1 DEF DataInfo, DataInfos, Task, Alive, Suspended
  <2>2. conn[n].file # n
    BY <1>1, FrameOf DEF Sock, FileOf
  <2>3. Waits(n, c, d, {conn[n].file}, NoFd)
    BY <2>1, <2>2 DEF Waits, FreshFile, FlagsOf, Kind, Alive, Suspended
  <2> QED
    BY <1>3, <2>1, <2>3 DEF Outcome
<1>4. CASE Leave(n, Finished(c), {conn[n].file, n}, NoFd)
  BY <1>1, <1>4, EndedFields DEF Outcome, Ended, Alive, Suspended
<1>5. ASSUME NEW x \in Fd, Lowest(x),
             Leave(n, DataInfo("httpSend", c, x, conn[n].is_read_awaiting, TRUE),
                   {conn[n].file}, x)
      PROVE  Outcome(n, c)
  <2> DEFINE d == DataInfo("httpSend", c, x, conn[n].is_read_awaiting, TRUE)
  <2>1. /\ d \in DataInfos /\ d.task = "httpSend" /\ d.of = c /\ d.file = x
        /\ d.is_write_awaiting
    BY <1>1 DEF DataInfo, DataInfos, Task, Alive, Suspended
  <2>2. fdt[x] = Free /\ conn[n].file \notin {n, x}
    BY <1>1, <1>5, FrameOf DEF Lowest, Sock, FileOf, Free
  <2>3. Waits(n, c, d, {conn[n].file}, x)
    BY <2>1, <2>2 DEF Waits, FreshFile, FlagsOf, Kind, HoldsFile, Alive, Suspended
  <2> QED
    BY <1>5, <2>1, <2>3 DEF Outcome
<1>6. ASSUME NEW x \in Fd, Lowest(x),
             Leave(n, DataInfo("httpSpin", c, x, conn[n].is_read_awaiting,
                               conn[n].is_write_awaiting),
                   {conn[n].file}, x)
      PROVE  Outcome(n, c)
  <2> DEFINE d == DataInfo("httpSpin", c, x, conn[n].is_read_awaiting,
                           conn[n].is_write_awaiting)
  <2>1. d \in DataInfos /\ d.task = "httpSpin" /\ d.of = c /\ d.file = x
    BY <1>1, ConnType DEF DataInfo, DataInfos, Task, Alive, Suspended
  <2>2. fdt[x] = Free /\ conn[n].file \notin {n, x}
    BY <1>1, <1>6, FrameOf DEF Lowest, Sock, FileOf, Free
  <2>3. Waits(n, c, d, {conn[n].file}, x)
    BY <2>1, <2>2 DEF Waits, FreshFile, FlagsOf, Kind, Alive, Suspended
  <2> QED
    BY <1>6, <2>1, <2>3 DEF Outcome
<1> QED
  BY <1>2, <1>3, <1>4, <1>5, <1>6 DEF HttpRound

LEMMA ResumeHttpIdleOutcome ==
  ASSUME Calm, IInv, FileInv, SessionInv, NEW n \in Fd, NEW c \in Client, fdt[n] = Sock(c),
         ResumeHttpIdle(n)
  PROVE  Outcome(n, c) /\ ReadAll(n)
<1>1. conn[n].task = "httpIdle" /\ ReadAll(n)
  BY DEF ResumeHttpIdle
<1>2. conn[n] \in DataInfos /\ conn[n].of = c /\ c \in HttpClient
  BY <1>1, Resumed DEF Alive, Suspended, Kind
<1>3. ~Broken(n)
  BY <1>2, SocketState
<1>4. CASE HttpRound(n, conn[n].of)
  BY <1>1, <1>2, <1>4, HttpRoundOutcome
<1>5. CASE Leave(n, Finished(conn[n].of), {n}, NoFd)
  BY <1>1, <1>2, <1>5, EndedFields DEF Outcome, Ended, Alive, Suspended
<1> QED
  BY <1>3, <1>4, <1>5 DEF ResumeHttpIdle

LEMMA ResumeHttpSendOutcome ==
  ASSUME IInv, FileInv, SessionInv, NEW n \in Fd, NEW c \in Client, fdt[n] = Sock(c),
         ResumeHttpSend(n)
  PROVE  Outcome(n, c) /\ UNCHANGED input
<1>1. conn[n].task = "httpSend" /\ UNCHANGED input
  BY DEF ResumeHttpSend
<1>2. /\ conn[n] \in DataInfos /\ conn[n].of = c /\ c \in HttpClient
      /\ OwnsFile(n) /\ conn[n].file # n
  BY <1>1, Resumed DEF Alive, Suspended, HoldsFile, Kind
<1>3. ~Broken(n)
  BY <1>2, SocketState
<1>4. CASE Leave(n, [conn[n] EXCEPT !.is_write_awaiting = TRUE], {}, NoFd)
  <2> DEFINE d == [conn[n] EXCEPT !.is_write_awaiting = TRUE]
  <2>1. /\ d \in DataInfos /\ d.task = "httpSend" /\ d.of = c
        /\ d.file = conn[n].file /\ d.is_write_awaiting
    BY <1>1, <1>2, WaitingType, WaitingFields
  <2>2. Waits(n, c, d, {}, NoFd)
    BY <1>1, <1>2, <2>1 DEF Waits, FreshFile, FlagsOf, Kind, HoldsFile, Alive,
                            Suspended
  <2> QED
    BY <1>1, <1>4, <2>1, <2>2 DEF Outcome
<1>5. CASE Leave(n, DataInfo("httpIdle", conn[n].of, NoFd, TRUE, FALSE),
                 {conn[n].file}, NoFd)
  <2> DEFINE d == DataInfo("httpIdle", c, NoFd, TRUE, FALSE)
  <2>1. /\ d \in DataInfos /\ d.task = "httpIdle" /\ d.of = c
        /\ d.is_read_awaiting /\ ~d.is_write_awaiting
    BY <1>2 DEF DataInfo, DataInfos, Task, Alive, Suspended
  <2>2. Waits(n, c, d, {conn[n].file}, NoFd)
    BY <1>2, <2>1 DEF Waits, FreshFile, FlagsOf, Kind, Alive, Suspended
  <2> QED
    BY <1>1, <1>2, <1>5, <2>1, <2>2 DEF Outcome
<1>6. CASE Leave(n, Finished(conn[n].of), {conn[n].file, n}, NoFd)
  BY <1>1, <1>2, <1>6, EndedFields DEF Outcome, Ended, Alive, Suspended
<1>7. CASE Leave(n, [conn[n] EXCEPT !.task = "httpSpin"], {}, NoFd)
  <2> DEFINE d == [conn[n] EXCEPT !.task = "httpSpin"]
  <2>1. d \in DataInfos /\ d.task = "httpSpin" /\ d.of = c /\ d.file = conn[n].file
    BY <1>2, SpinType
  <2>2. Waits(n, c, d, {}, NoFd)
    BY <1>2, <2>1 DEF Waits, FreshFile, FlagsOf, Kind, Alive, Suspended
  <2> QED
    BY <1>1, <1>7, <2>1, <2>2 DEF Outcome
<1> QED
  BY <1>2, <1>3, <1>4, <1>5, <1>6, <1>7 DEF ResumeHttpSend

LEMMA ResumeOutcome ==
  ASSUME Calm, IInv, FileInv, SessionInv, NEW n \in Fd, NEW c \in Client,
         fdt[n] = Sock(c), Resume(n)
  PROVE  Outcome(n, c) /\ (ReadAll(n) \/ UNCHANGED input)
<1>1. ~ResumeHttpRefused(n)
  BY DEF ResumeHttpRefused, SessionInv, OnItsSocket, Kind, Alive, Suspended
<1> QED
  BY <1>1, ResumeUploadOutcome, ResumeFlagOutcome, ResumeSendOutcome,
     ResumeHttpSendOutcome, ResumeHttpIdleOutcome DEF Resume

\* Erasing an entry is an outcome too: nothing of it is left.
LEMMA EraseOutcome ==
  ASSUME IInv, NEW n \in Fd, NEW c \in Client, Erase({n})
  PROVE  Outcome(n, c)
<1>1. TypeOK
  BY DEF IInv
<1>2. Frames({n}) = {n, conn[n].file}
  BY DEF Frames
<1>3. conn' = [conn EXCEPT ![n] = NewDataInfo]
  BY <1>1 DEF Erase, TypeOK
<1>4. NewDataInfo.of = NoClient
  BY DEF NewDataInfo, DataInfo
<1>5. Leave(n, NewDataInfo, {n, conn[n].file}, NoFd)
  BY <1>2, <1>3, <1>4 DEF Erase, Leave
<1>6. Ended(NewDataInfo, NoFd)
  BY DEF Ended, NewDataInfo, DataInfo, Alive, Suspended
<1> QED
  BY <1>5, <1>6, NewDataInfoType DEF Outcome

------------------------------------------------------------------------------
(* The steps of the loop.                                                   *)

\* Events that run no coroutine and close nothing.
LEMMA TouchSession ==
  ASSUME IInv, FileInv, SessionInv, NEW n \in Fd, NEW c \in Client, fdt[n] = Sock(c),
         Touch(n), UNCHANGED <<fdt, conn>>, ReadAll(n) \/ UNCHANGED input
  PROVE  SessionInv'
<1>1. /\ UNCHANGED <<peer, backlog, fdt, conn>>
      /\ ev' = [ev EXCEPT ![n] = {}] /\ TypeOK
  BY DEF Touch, IInv
<1>2. /\ ev'[n] = {}
      /\ \A m \in Fd \ {n} : ev'[m] = ev[m] /\ fdt[m] # Sock(c)
  BY <1>1 DEF TypeOK, SessionInv, Placed
<1>3. /\ \A b \in Client : input'[b] => input[b]
      /\ \A b \in Client \ {c} : input'[b] <=> input[b]
  <2>1. CASE ReadAll(n)
    BY <2>1, ReadAllOf
  <2>2. CASE UNCHANGED input
    BY <2>2
  <2> QED
    BY <2>1, <2>2
<1>4. NoHttpReset' /\ Placed' /\ OnItsSocket'
  BY <1>1 DEF SessionInv, NoHttpReset, Placed, OnItsSocket, Kind
<1>5. EventsCurrent'
  BY <1>1, <1>2, <1>3 DEF SessionInv, EventsCurrent
<1>6. FlagsMatch'
  BY <1>1, <1>2 DEF SessionInv, FlagsMatch, FlagsOf, Doomed
<1>7. Silent'
  <2> SUFFICES ASSUME NEW m \in Fd, conn[m].task = "send"
               PROVE  /\ ~input'[conn[m].of]
                      /\ "IN" \in ev'[m] => "HUP" \in ev'[m]
    BY <1>1 DEF Silent
  <2>1. conn[m].of \in Client
    BY DEF SessionInv, OnItsSocket, Kind, Client, Alive, Suspended
  <2> QED
    BY <1>2, <1>3, <2>1 DEF SessionInv, Silent
<1> QED
  BY <1>4, <1>5, <1>6, <1>7 DEF SessionInv

LEMMA HandleSession ==
  ASSUME Calm, IInv, FileInv, SessionInv, NEW n \in Fd, Handle(n)
  PROVE  SessionInv'
<1>1. PICK c \in Client : fdt[n] = Sock(c)
  <2>1. ev[n] # {}
    BY DEF Handle, Disconnect, ResumeReader, ResumeWriter, IgnoreWritable, StartFile,
           StartGet, StartHttp, Message, UnknownRequest, Request, Readable, Writable
  <2> QED
    BY <2>1 DEF FileInv, Occupied
<1>2. CASE Disconnect(n)
  <2>1. /\ Erase({n}) /\ ev' = [ev EXCEPT ![n] = {}]
        /\ UNCHANGED <<peer, backlog>> /\ UNCHANGED input
    BY <1>2 DEF Disconnect
  <2> QED
    BY <1>1, <2>1, EraseOutcome, StepSession
<1>3. CASE UnknownRequest(n)
  <2>1. /\ Erase({n}) /\ ev' = [ev EXCEPT ![n] = {}]
        /\ UNCHANGED <<peer, backlog>> /\ ReadAll(n)
    BY <1>3 DEF UnknownRequest
  <2> QED
    BY <1>1, <2>1, EraseOutcome, StepSession
<1>4. ASSUME Touch(n), Outcome(n, c), ReadAll(n) \/ UNCHANGED input
      PROVE  SessionInv'
  <2>1. ev' = [ev EXCEPT ![n] = {}] /\ UNCHANGED <<peer, backlog>>
    BY <1>4 DEF Touch
  <2> QED
    BY <1>1, <1>4, <2>1, StepSession
<1>5. CASE ResumeReader(n) \/ ResumeWriter(n)
  <2>1. Touch(n) /\ Resume(n)
    BY <1>5 DEF ResumeReader, ResumeWriter
  <2> QED
    BY <1>1, <1>4, <2>1, ResumeOutcome
<1>6. ASSUME NEW b \in Client, Request(n, b)
      PROVE  /\ b = c /\ Touch(n) /\ ReadAll(n)
             /\ Readable(n) /\ ~conn[n].is_read_awaiting
  BY <1>1, <1>6 DEF Request, Sock
<1>7. CASE StartFile(n)
  <2>1. c \in SftClient /\ Request(n, c) /\ StartUpload(n, c)
    BY <1>6, <1>7 DEF StartFile, Client
  <2> QED
    BY <1>1, <1>4, <1>6, <2>1, StartUploadOutcome
<1>8. CASE StartGet(n)
  <2>1. c \in SftClient /\ Request(n, c) /\ StartDownload(n, c)
    BY <1>6, <1>8 DEF StartGet, Client
  <2> QED
    BY <1>1, <1>4, <1>6, <2>1, StartDownloadOutcome
<1>9. CASE StartHttp(n)
  <2>1. c \in HttpClient /\ Request(n, c) /\ HttpRound(n, c)
    BY <1>6, <1>9 DEF StartHttp, Client
  <2> QED
    BY <1>1, <1>4, <1>6, <2>1, HttpRoundOutcome
<1>10. CASE Message(n)
  BY <1>1, <1>6, <1>10, TouchSession DEF Message, Client
<1>11. CASE IgnoreWritable(n)
  BY <1>1, <1>11, TouchSession DEF IgnoreWritable
<1> QED
  BY <1>2, <1>3, <1>5, <1>7, <1>8, <1>9, <1>10, <1>11 DEF Handle

LEMMA NextSession == Calm /\ IInv /\ FileInv /\ SessionInv /\ [Next]_vars => SessionInv'
<1> SUFFICES ASSUME Calm, IInv, FileInv, SessionInv, [Next]_vars PROVE SessionInv'
  OBVIOUS
<1>1. CASE Environment
  <2>1. ~Alarm
    BY DEF Calm, Alarm, IInv, TypeOK
  <2> QED
    BY <1>1, <2>1, ConnectSession, SendSession, DrainSession, HangUpSession
       DEF Environment
<1>2. CASE Server
  <2>1. ~Tick
    BY DEF Tick, FileInv, NoAlarm
  <2> QED
    BY <1>2, <2>1, EpollWaitSession, AcceptOneSession, AcceptEndSession, HandleSession
       DEF Server
<1>3. CASE UNCHANGED vars
  BY <1>3 DEF vars, SessionInv, NoHttpReset, Placed, EventsCurrent, FlagsMatch,
              FlagsOf, Doomed, OnItsSocket, Kind, Silent
<1> QED
  BY <1>1, <1>2, <1>3 DEF Next

------------------------------------------------------------------------------
(* The theorems. *)

LEMMA SessionInvariance ==
  ASSUME Calm
  PROVE  Spec => [](IInv /\ FileInv /\ SessionInv)
<1>1. Init => IInv /\ FileInv /\ SessionInv
  BY InitInv, InitFileInv, InitSession
<1>2. IInv /\ FileInv /\ SessionInv /\ [Next]_vars =>
        IInv' /\ FileInv' /\ SessionInv'
  BY NextInv, NextFileInv, NextSession DEF Calm
<1> QED
  BY <1>1, <1>2, PTL DEF Spec

\* No event resumes a coroutine that has ended or was never there, although
\* several ways out of the handlers leave a flag set, and no HTTP round starts
\* without a request: for any number of clients and descriptors.
THEOREM OnlyLiveResumed ==
  ASSUME Calm
  PROVE  Spec => []ResumeSafe
<1>1. ASSUME FileInv, SessionInv PROVE ResumeSafe
  <2>1. ASSUME NEW n \in Fd, Readable(n) \/ Writable(n),
               conn[n].is_read_awaiting \/ conn[n].is_write_awaiting
        PROVE  conn[n].task \in Alive
    <3>1. ~Doomed(n)
      BY <2>1 DEF Doomed, Readable, Writable
    <3> QED
      BY <1>1, <2>1, <3>1 DEF SessionInv, FlagsMatch, FlagsOf
  <2>2. ASSUME NEW n \in Fd, Readable(n)
        PROVE  HasInput(n) \/ ~Up(n)
    <3>1. PICK c \in Client : fdt[n] = Sock(c)
      BY <1>1, <2>2 DEF FileInv, Occupied, Readable
    <3>2. input[c] \/ peer[c] # "up"
      BY <1>1, <2>2, <3>1 DEF SessionInv, EventsCurrent, Readable
    <3>3. CASE input[c]
      BY <3>1, <3>3 DEF HasInput
    <3>4. CASE peer[c] # "up"
      BY <3>1, <3>4 DEF Up, Sock
    <3> QED
      BY <3>2, <3>3, <3>4
  <2> QED
    BY <2>1, <2>2 DEF ResumeSafe
<1> QED
  BY <1>1, SessionInvariance, PTL

\* No connection is served by the coroutine of an earlier connection that had
\* its number, however often numbers are reused.
THEOREM SessionsApart ==
  ASSUME Calm
  PROVE  Spec => []OwnSession
<1>1. SessionInv => OwnSession
  BY DEF SessionInv, OnItsSocket, OwnSession, Sock
<1> QED
  BY <1>1, SessionInvariance, PTL
==============================================================================
