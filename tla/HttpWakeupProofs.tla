-------------------------- MODULE HttpWakeupProofs --------------------------
(***************************************************************************)
(* Proofs about Http: the loop does not fall asleep over a request, nor    *)
(* over the room that a suspended body waits for.                          *)
(*                                                                         *)
(* HttpProofs says which bytes a client may get; this module, that none of *)
(* them is forgotten.  It is the safety behind Answered: what is left for  *)
(* fairness is that epoll_wait returns and the client reads.  An error     *)
(* page is two writes, and is sent whole if the socket has room for them.  *)
(***************************************************************************)
EXTENDS HttpProofs

ErrorPageFits == Window # 1

\* A request that is not read yet has an edge to come, or is being read.
Roused ==
    rcv # <<>> => \/ edge
                  \/ server = "dispatch" /\ "IN" \in ev
                  \/ server \in {"decide", "read"}

\* The flag of a suspended body is up, and the body is not sent.
Yielded ==
    server \in {"wait", "dispatch"} /\ task = "send" => writing /\ off # job.size

\* All of the answer to r is on its way, or with the client.
Complete(r) == Received(r) + Len(wire) = Wanted(r) + 1

\* A suspended body has an edge to come, now or when the client reads.
Suspended ==
    /\ server \in {"wait", "dispatch"} /\ task = "send" /\ writing /\ off # job.size
    /\ edge \/ (nospace /\ wire # <<>>) \/ (server = "dispatch" /\ "OUT" \in ev)

UnderWay(r) ==
    rcv = <<>> /\ text = <<>> /\ server \in {"wait", "dispatch", "send"} =>
        \/ Complete(r)
        \/ server = "send" /\ off # job.size
        \/ Suspended

Attended ==
    Careful /\ client = "open" =>
        /\ Roused /\ Yielded
        /\ asked # <<>> => UnderWay(asked[Len(asked)])

WInv == IInv /\ Attended

------------------------------------------------------------------------------
(* The steps of a connection with a careful client. *)

\* What a careful client's connection has left, before its next step.
LEMMA Quiet ==
  ASSUME TypeOK, Sequences, Resuming, Answering, Careful, client = "open"
  PROVE  /\ ~Left /\ ~split
         /\ text # <<>> => server = "answer" /\ rcv = <<>>
         /\ Sending /\ off # job.size => rcv = <<>>
         /\ server = "answer" => text # <<>>
         /\ server = "dispatch" => "HUP" \notin ev /\ ("IN" \in ev => rcv # <<>>)
         /\ server \in {"wait", "dispatch"} /\ (reading \/ writing) => task \in {"read", "send"}
         /\ server \in {"decide", "read"} => rcv # <<>>
<1>1. ~Left /\ ~split
  BY DEF Left, Careful
<1>2. CASE asked = <<>>
  <2>1. NoAnswer
    BY <1>2 DEF Answering
  <2> QED
    BY <1>1, <2>1 DEF NoAnswer, Resuming
<1>3. CASE asked # <<>>
  <2>1. LastAnswer(Len(asked), asked[Len(asked)])
    BY <1>3 DEF Answering
  <2> HIDE DEF Sending
  <2>2. /\ text # <<>> => server = "answer"
        /\ rcv = <<>> \/ text = <<>>
        /\ Sending /\ off # job.size => rcv = <<>>
    <3>1. ASSUME NEW i, NEW r, LastAnswer(i, r)
          PROVE  /\ text # <<>> => server = "answer"
                 /\ rcv = <<>> \/ text = <<>>
                 /\ Sending /\ off # job.size => rcv = <<>>
      BY <3>1 DEF LastAnswer
    <3> QED
      BY <2>1, <3>1
  <2> QED
    BY <1>1, <2>2 DEF Resuming
<1> QED
  BY <1>2, <1>3

LEMMA RousedNext ==
  ASSUME TypeOK, Sequences, Resuming, Whole, Answering, Careful, client = "open",
         client' = "open", Roused, Yielded, [Next]_vars
  PROVE  Roused'
<1> USE DEF clientVars, kernelVars, flagVars, pageVars
<1>1. CASE Ask \/ AskRest
  BY <1>1 DEF Ask, AskRest, Deliver, Roused
<1>2. CASE Receive
  BY <1>2 DEF Receive, Roused
<1>3. CASE SeesEnd \/ Leave \/ Replace \/ Ages \/ UNCHANGED vars
  BY <1>3 DEF SeesEnd, Leave, Replace, Ages, vars, Roused
<1>4. CASE EpollWait
  BY <1>4 DEF EpollWait, Mask, Roused
<1>5. CASE Dispatch
  <2> SUFFICES ASSUME rcv # <<>>
               PROVE  Roused'
    BY <1>5 DEF Dispatch, Roused
  <2>1. server = "dispatch" /\ UNCHANGED <<rcv, edge>>
    BY <1>5 DEF Dispatch
  <2>2. CASE edge
    BY <2>1, <2>2 DEF Roused
  <2>3. CASE "IN" \in ev
    <3>1. task # "send"
      <4>1. task = "send" => Sending /\ off # job.size
        BY <2>1 DEF Yielded, Sending
      <4> QED
        BY <4>1, Quiet
    <3>2. reading => task = "read"
      BY <2>1, <3>1, Quiet
    <3>3. server' \in {"decide", "read"}
      BY <1>5, <2>3, <3>2 DEF Dispatch
    <3> QED
      BY <3>3 DEF Roused
  <2> QED
    BY <2>1, <2>2, <2>3 DEF Roused
<1>6. CASE Expires \/ Disconnect \/ Unknown \/ ReadEnd \/ SendFails \/ (SendDone /\ job.close)
  BY <1>6, Shuts, ShutStep DEF Roused
<1>7. CASE Decide
  BY <1>7 DEF Decide, Roused
<1>8. CASE ReadRequest
  BY <1>8, Quiet DEF ReadRequest, Roused
<1>9. CASE AnswerPage \/ AnswerFresh \/ AnswerError \/ AnswerSegment \/ AnswerFails
  <2>1. rcv = <<>>
    BY <1>9, Quiet DEF AnswerPage, AnswerFresh, AnswerError, AnswerSegment, AnswerFails
  <2>2. rcv' = rcv
    BY <1>9 DEF AnswerPage, AnswerFresh, AnswerError, AnswerSegment, AnswerFails, Put
  <2> QED
    BY <2>1, <2>2 DEF Roused
<1>10. CASE SendSome \/ SendYield \/ (SendDone /\ ~job.close)
  <2>1. server = "send" /\ UNCHANGED <<rcv, edge>>
    BY <1>10 DEF SendSome, SendYield, SendDone
  <2> QED
    BY <2>1 DEF Roused
<1> QED
  BY <1>1, <1>2, <1>3, <1>4, <1>5, <1>6, <1>7, <1>8, <1>9, <1>10 DEF Next, Client, Tick, Server

LEMMA YieldedNext ==
  ASSUME TypeOK, Sequences, Resuming, Answering, Careful, client = "open", client' = "open",
         Yielded, [Next]_vars
  PROVE  Yielded'
<1> USE DEF clientVars, kernelVars, flagVars, pageVars
<1>1. CASE Ask \/ AskRest \/ Receive \/ SeesEnd \/ Leave \/ Replace \/ Ages \/ UNCHANGED vars
  BY <1>1 DEF Ask, AskRest, Receive, SeesEnd, Leave, Replace, Ages, vars, Yielded
<1>2. CASE EpollWait \/ Dispatch
  BY <1>2 DEF EpollWait, Dispatch, Yielded
<1>3. CASE Expires \/ Disconnect \/ Unknown \/ ReadEnd \/ SendFails \/ (SendDone /\ job.close)
  BY <1>3, Shuts, ShutStep DEF Yielded
<1>4. CASE Decide \/ ReadRequest \/ AnswerPage \/ SendSome
  BY <1>4 DEF Decide, ReadRequest, AnswerPage, SendSome, Yielded
<1>5. CASE AnswerFresh \/ AnswerError \/ AnswerSegment \/ (SendDone /\ ~job.close)
  BY <1>5 DEF AnswerFresh, AnswerError, AnswerSegment, SendDone, NextRound, Yielded
<1>6. CASE AnswerFails
  BY <1>6, Quiet DEF AnswerFails
<1>7. CASE SendYield
  BY <1>7 DEF SendYield, Yielded
<1> QED
  BY <1>1, <1>2, <1>3, <1>4, <1>5, <1>6, <1>7 DEF Next, Client, Tick, Server

\* A body that was suspended for want of room has tokens on the wire.
LEMMA RoomAwaited ==
  ASSUME TypeOK, Sequences, SendYield
  PROVE  wire # <<>>
<1>1. Len(wire) = Window /\ Window \in Nat \ {0} /\ Len(<<>>) = 0
  BY BoundsAssumption DEF SendYield
<1> QED
  BY <1>1

LEMMA UnderWayNext ==
  ASSUME ErrorPageFits, TypeOK, Sequences, Resuming, Whole, Paging, Answering,
         Careful, client = "open", client' = "open", ~replaced', Yielded,
         NEW i, NEW r, Serving(i, r), UnderWay(r),
         Client \/ Leave \/ Replace \/ Tick \/ Server \/ UNCHANGED vars
  PROVE  UnderWay(r)'
<1> USE DEF clientVars, kernelVars, flagVars, pageVars
<1>1. CASE AskRest \/ SeesEnd \/ Leave \/ Replace \/ AnswerFails
  BY <1>1, Quiet DEF AskRest, SeesEnd, Leave, Replace, AnswerFails, Whole
<1>2. CASE Receive
  <2> SUFFICES ASSUME rcv' = <<>>, text' = <<>>, server' \in {"wait", "dispatch", "send"}
               PROVE  Complete(r)' \/ (server' = "send" /\ off' # job'.size) \/ Suspended'
    BY DEF UnderWay
  <2>1. /\ UNCHANGED <<rcv, text, server, off, job, task, writing, ev>>
        /\ edge \/ nospace => edge'
    BY <1>2 DEF Receive
  <2>2. Complete(r) \/ (server = "send" /\ off # job.size) \/ Suspended
    BY <2>1 DEF UnderWay
  <2>3. Complete(r) => Complete(r)'
    <3>1. Received(r)' + Len(wire') = Received(r) + Len(wire)
      BY <1>2, AnsweringReceive
    <3>2. Wanted(r)' = Wanted(r)
      OBVIOUS
    <3> QED
      BY <3>1, <3>2 DEF Complete
  <2>4. Suspended => Suspended'
    BY <2>1 DEF Suspended
  <2> QED
    BY <2>1, <2>2, <2>3, <2>4
<1>3. CASE \/ EpollWait \/ Dispatch \/ SendYield \/ (SendDone /\ ~job.close)
           \/ Ages \/ UNCHANGED vars
  <2> SUFFICES ASSUME rcv' = <<>>, text' = <<>>, server' \in {"wait", "dispatch", "send"}
               PROVE  Complete(r)' \/ (server' = "send" /\ off' # job'.size) \/ Suspended'
    BY DEF UnderWay
  <2>1. UNCHANGED <<pending, due, rcv, wire, text, job, off>>
    BY <1>3, QuietSteps
  <2>2. Complete(r) => Complete(r)'
    BY <2>1 DEF Complete, Received
  <2>3. Complete(r) \/ (server = "send" /\ off # job.size) \/ Suspended
    BY <1>3, <2>1 DEF UnderWay, EpollWait, Dispatch, SendYield, SendDone, Ages, vars
  <2>4. CASE EpollWait
    <3>1. server = "wait" /\ server' = "dispatch" /\ ev' = Mask /\ Mask # {}
          /\ UNCHANGED <<task, writing, nospace, wire>>
      BY <2>4 DEF EpollWait
    <3>2. Mask \subseteq {"OUT"}
      BY <2>1, Quiet DEF Mask
    <3>3. "OUT" \in ev'
      BY <3>1, <3>2
    <3>4. Suspended => Suspended'
      BY <2>1, <3>1, <3>3 DEF Suspended
    <3> QED
      BY <2>2, <2>3, <3>1, <3>4
  <2>5. CASE Dispatch
    <3>1. "IN" \notin ev /\ server = "dispatch" /\ UNCHANGED <<task, writing>>
      BY <2>1, <2>5, Quiet DEF Dispatch
    <3>2. Suspended => server' = "send"
      BY <2>5, <3>1 DEF Dispatch, Suspended
    <3> QED
      BY <2>1, <2>2, <2>3, <3>1, <3>2 DEF Suspended
  <2>6. CASE SendYield
    <3>1. /\ server' = "wait" /\ task' = "send" /\ writing' = TRUE /\ off # job.size
          /\ nospace' = TRUE
      BY <2>6 DEF SendYield
    <3>2. wire # <<>>
      BY <2>6, RoomAwaited
    <3> QED
      BY <2>1, <3>1, <3>2 DEF Suspended
  <2>7. CASE SendDone
    <3>1. server = "send" /\ off = job.size
      BY <2>7 DEF SendDone
    <3> QED
      BY <2>2, <2>3, <3>1 DEF Suspended
  <2>8. CASE Ages \/ UNCHANGED vars
    <3>1. Suspended => Suspended'
      BY <2>8 DEF Ages, Suspended, vars
    <3> QED
      BY <2>1, <2>2, <2>3, <2>8, <3>1 DEF Ages, vars
  <2> QED
    BY <1>3, <2>4, <2>5, <2>6, <2>7, <2>8
<1>4. CASE Expires \/ Disconnect \/ Unknown \/ ReadEnd \/ SendFails \/ (SendDone /\ job.close)
  BY <1>4, Shuts, ShutStep DEF UnderWay
<1>5. CASE Decide \/ ReadRequest
  BY <1>5 DEF Decide, ReadRequest, UnderWay
<1>6. CASE AnswerPage
  <2>1. /\ Received(r)' = 0 /\ Len(wire') = 1 /\ Paged(r) /\ job' = r /\ off' = Start(r)
    BY <1>6, AnsweringAnswer
  <2>2. server' = "send"
    BY <1>6 DEF AnswerPage
  <2>3. Start(r) + Wanted(r) = r.size /\ Start(r) \in Nat /\ Wanted(r) \in Nat
    BY <2>1, SoundProperties DEF Serving
  <2>4. off' = job'.size => Complete(r)'
    BY <2>1, <2>3 DEF Complete
  <2> QED
    BY <2>2, <2>4 DEF UnderWay
<1>7. CASE AnswerFresh \/ AnswerError
  <2>1. ~AnswerPage
    BY <1>7 DEF AnswerFresh, AnswerError, AnswerPage
  <2>2. Received(r)' = 0 /\ Len(wire') = Wanted(r) + 1 /\ Wanted(r) \in Nat
    BY <1>7, <2>1, AnsweringAnswer, SoundProperties DEF ErrorPageFits, Serving
  <2>3. Complete(r)'
    BY <2>2 DEF Complete
  <2> QED
    BY <2>3 DEF UnderWay
<1>8. CASE AnswerSegment
  <2>1. text # <<>> /\ ~HasRequest
    BY <1>8, Quiet DEF AnswerSegment
  <2>2. text[1][1] = "rest" /\ Len(text) >= 1
    BY <2>1, EmptySeq, LenProperties DEF HasRequest, TypeOK
  <2>3. 1 \in 1..Len(text)
    BY <2>2, Numbers
  <2> QED
    BY <2>2, <2>3, Quiet DEF Whole, Segmented
<1>9. CASE SendSome
  <2>1. /\ Start(r) + Wanted(r) = r.size /\ job = r
        /\ off' = Start(r) + Received(r)' + Len(wire') - 1
    BY <1>9, AnsweringSend
  <2>2. server' = "send" /\ job' = job
    BY <1>9 DEF SendSome
  <2>3. Wanted(r) \in Nat /\ Start(r) \in Nat /\ Len(wire') \in Nat /\ Received(r)' \in Int
    <3>1. wire' \in Seq(Token) /\ due' \in Seq(Token)
      BY ClientNext, WireNext DEF Next, Sequences
    <3>2. Wanted(r) \in Nat /\ Start(r) \in Nat
      BY SoundProperties DEF Serving
    <3> QED
      BY <3>1, <3>2, LenProperties DEF Received
  <2>4. off' = job'.size => Complete(r)'
    BY <2>1, <2>2, <2>3 DEF Complete
  <2> QED
    BY <2>2, <2>4 DEF UnderWay
<1> QED
  BY <1>1, <1>2, <1>3, <1>4, <1>5, <1>6, <1>7, <1>8, <1>9 DEF Client, Tick, Server

------------------------------------------------------------------------------
(* The invariant, and what follows from it. *)

LEMMA AttendedInit == Init => Attended
<1> SUFFICES ASSUME Init
             PROVE  Attended
  OBVIOUS
<1> QED
  BY DEF Init, Attended, Roused, Yielded

LEMMA AttendedNext ==
  ASSUME ErrorPageFits, IInv, Attended, [Next]_vars
  PROVE  Attended'
<1> SUFFICES ASSUME Careful', client' = "open"
             PROVE  /\ Roused' /\ Yielded'
                    /\ (asked # <<>> => UnderWay(asked[Len(asked)]))'
  BY DEF Attended
<1>1. TypeOK /\ Sequences /\ Resuming /\ Whole /\ Paging /\ Answering
  BY DEF IInv, Checked
<1>2. Careful /\ client = "open" /\ ~replaced'
  BY <1>1, CarefulBefore, ClientLeaves DEF Left, Careful
<1>3. Roused /\ Yielded
  BY <1>2 DEF Attended
<1>4. Roused' /\ Yielded'
  BY <1>1, <1>2, <1>3, RousedNext, YieldedNext
<1>5. CASE Ask
  <2>1. rcv' # <<>>
    <3>1. PICK s : rcv' = Append(rcv, s)
      BY <1>5 DEF Ask, Deliver
    <3>2. rcv \in Seq(Segments) /\ Len(rcv) \in Nat
      BY <1>1, Numbers DEF TypeOK
    <3>3. Len(rcv') = Len(rcv) + 1 /\ Len(<<>>) = 0
      BY <3>1, <3>2
    <3> QED
      BY <3>2, <3>3
  <2> QED
    BY <1>4, <2>1 DEF UnderWay
<1>6. CASE Client \/ Leave \/ Replace \/ Tick \/ Server \/ UNCHANGED vars
  <2> SUFFICES ASSUME asked' # <<>>
               PROVE  UnderWay(asked[Len(asked)])'
    BY <1>4
  <2>1. asked' = asked /\ asked # <<>>
    BY <1>6, AskedKept
  <2>2. Serving(Len(asked), asked[Len(asked)]) /\ UnderWay(asked[Len(asked)])
    BY <1>1, <1>2, <2>1, ServingCareful DEF Attended
  <2>3. \A i, r : Serving(i, r) /\ UnderWay(r) => UnderWay(r)'
    BY <1>1, <1>2, <1>3, <1>6, UnderWayNext
  <2>4. \A r : r = asked[Len(asked)] => UnderWay(r)'
    BY <2>2, <2>3
  <2> QED
    BY <2>1, <2>4
<1> QED
  BY <1>5, <1>6 DEF Next, Tick

LEMMA NothingLeft ==
  ASSUME WInv
  PROVE  BlocksOwingNothing
<1> SUFFICES ASSUME server = "wait", ~(edge /\ Mask # {}), client = "open", Careful,
                    wire = <<>>
             PROVE  pending = <<>> /\ due = <<>>
  BY DEF BlocksOwingNothing
<1>1. TypeOK /\ Sequences /\ Resuming /\ Answering /\ Roused
  BY DEF WInv, IInv, Checked, Attended
<1>2. Len(wire) = 0 /\ Len(wire) < Window
  BY BoundsAssumption
<1>3. ~edge
  BY <1>2 DEF Mask
<1>4. rcv = <<>> /\ text = <<>>
  BY <1>1, <1>3, Quiet DEF Roused
<1>5. CASE asked = <<>>
  BY <1>1, <1>5 DEF Answering, NoAnswer
<1>6. CASE asked # <<>>
  <2> DEFINE i == Len(asked)
             r == asked[Len(asked)]
  <2>1. Serving(i, r) /\ UnderWay(r)
    BY <1>1, <1>6, ServingCareful DEF WInv, Attended
  <2> HIDE DEF i, r
  <2>2. ~Suspended
    BY <1>3 DEF Suspended
  <2>3. Received(r) + Len(wire) = Wanted(r) + 1
    BY <1>4, <2>1, <2>2 DEF UnderWay, Complete
  <2>4. Wanted(r) \in Nat /\ Len(due) \in Nat
    BY <1>1, <2>1, SoundProperties, Numbers DEF Serving
  <2>5. pending = <<>>
    BY <1>2, <2>3, <2>4 DEF Received
  <2>6. Len(due) = 0
    BY <1>2, <2>3, <2>4, <2>5 DEF Received
  <2> QED
    BY <1>1, <2>5, <2>6, EmptySeq DEF Sequences
<1> QED
  BY <1>5, <1>6

\* If the socket has room for an error page, the server never falls asleep in
\* epoll_wait while a careful client waits for bytes it has not been sent:
\* wherever sends are cut and flags are left, however the client's reads and
\* requests fall between the system calls.
THEOREM NeverAsleep == ASSUME ErrorPageFits PROVE Spec => []BlocksOwingNothing
<1>1. Init => WInv
  BY InitInvariant, AttendedInit DEF WInv
<1>2. WInv /\ [Next]_vars => WInv'
  BY StepInvariant, AttendedNext DEF WInv
<1>3. WInv => BlocksOwingNothing
  BY NothingLeft
<1> QED
  BY <1>1, <1>2, <1>3, PTL DEF Spec
=============================================================================
