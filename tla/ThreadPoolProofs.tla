-------------------------- MODULE ThreadPoolProofs --------------------------
(***************************************************************************)
(* Proofs about ThreadPool, for every set of workers, of submitters and of *)
(* tasks, finite or not.                                                   *)
(*                                                                         *)
(* Accounted counts places; a count is not what a step preserves.  The     *)
(* inductive invariant Exclusive says the same of single places: a task is *)
(* in one of three stages (queued, held by a worker, called), and in one   *)
(* place of that stage.                                                    *)
(***************************************************************************)
EXTENDS ThreadPool, SequenceTheorems, FiniteSetTheorems, TLAPS

Queued(t) == \E i \in 1..Len(queue) : queue[i] = t
Holds(w, t) == pc[w] = "run" /\ popped[w] = TRUE /\ func[w] = t
Held(t) == \E w \in Worker : Holds(w, t)

OneQueuePlace == \A i, j \in 1..Len(queue) : queue[i] = queue[j] => i = j
OneHolder == \A t \in Task : \A w, v \in Worker : Holds(w, t) /\ Holds(v, t) => w = v
OneStage ==
    \A t \in Task :
        /\ ran[t] \in {0, 1}
        /\ Queued(t) => ~Held(t) /\ ran[t] = 0
        /\ Held(t) => ran[t] = 0
        /\ t \in submitted <=> Queued(t) \/ Held(t) \/ ran[t] = 1

Exclusive == OneQueuePlace /\ OneHolder /\ OneStage

------------------------------------------------------------------------------
(* Types. *)

LEMMA TypeInit == Init => TypeOK
<1> SUFFICES ASSUME Init
             PROVE  TypeOK
  OBVIOUS
<1>1. queue \in Seq(Task) /\ pc \in [Worker -> {"test"}]
  BY DEF Init
<1>2. /\ popped \in [Worker -> BOOLEAN]
      /\ \A w \in Worker : popped[w] => func[w] # NoTask
  BY Zenon DEF Init
<1> QED
  BY <1>1, <1>2 DEF Init, TypeOK

LEMMA CallersType ==
  ASSUME TypeOK,
         \/ \E s \in Submitter : Submit(s)
         \/ SetShutdown
         \/ Owner
  PROVE  TypeOK'
<1>1. ASSUME NEW s \in Submitter, NEW t \in Task, Push(s, t)
      PROVE  TypeOK'
  <2>1. queue' \in Seq(Task)
    BY <1>1, AppendProperties DEF TypeOK, Push
  <2> QED
    BY <1>1, <2>1 DEF TypeOK, Push, workerVars
<1>2. ASSUME NEW s \in Submitter, NotifyOne(s)
      PROVE  TypeOK'
  BY <1>2 DEF TypeOK, NotifyOne, Goto
<1>3. CASE SetShutdown
  BY <1>3 DEF TypeOK, SetShutdown, workerVars
<1>4. CASE NotifyAll
  BY <1>4 DEF TypeOK, NotifyAll
<1>5. CASE Join
  BY <1>5 DEF TypeOK, Join, workerVars
<1> QED
  BY <1>1, <1>2, <1>3, <1>4, <1>5 DEF Submit, Owner

LEMMA PopType ==
  ASSUME TypeOK, NEW w \in Worker, Pop(w)
  PROVE  TypeOK'
<1>1. /\ pc' = [pc EXCEPT ![w] = "run"] /\ mutex' = NoWorker
      /\ ran' = ran
      /\ UNCHANGED callerVars
  BY DEF Pop, Goto
<1>2. CASE queue # <<>> /\ func' = [func EXCEPT ![w] = Head(queue)]
             /\ queue' = Tail(queue) /\ popped' = [popped EXCEPT ![w] = TRUE]
  <2>1. Head(queue) \in Task /\ Tail(queue) \in Seq(Task)
    BY <1>2, HeadTailProperties DEF TypeOK
  <2>2. Head(queue) # NoTask
    BY <2>1, TaskAssumption
  <2> QED
    BY <1>1, <1>2, <2>1, <2>2 DEF TypeOK, callerVars
<1>3. CASE queue = <<>> /\ popped' = [popped EXCEPT ![w] = FALSE]
             /\ UNCHANGED <<func, queue>>
  BY <1>1, <1>3 DEF TypeOK, callerVars
<1> QED
  BY <1>2, <1>3 DEF Pop

LEMMA WorkersType ==
  ASSUME TypeOK, NEW w \in Worker, Work(w) \/ WakeSpuriously(w)
  PROVE  TypeOK'
<1>1. CASE TestShutdown(w)
  BY <1>1 DEF TypeOK, TestShutdown, Goto, callerVars
<1>2. CASE TestEmpty(w)
  BY <1>2 DEF TypeOK, TestEmpty, Goto, callerVars
<1>3. CASE Wait(w)
  BY <1>3 DEF TypeOK, Wait, Goto, callerVars
<1>4. CASE Relock(w)
  BY <1>4 DEF TypeOK, Relock, Goto, callerVars
<1>5. CASE Pop(w)
  BY <1>5, PopType
<1>6. CASE Run(w)
  <2>1. ran' \in [Task -> Nat]
    <3>1. CASE popped[w]
      <4>1. func[w] \in Task
        BY <3>1 DEF TypeOK
      <4> QED
        BY <1>6, <3>1, <4>1 DEF TypeOK, Run
    <3> QED
      BY <1>6, <3>1 DEF TypeOK, Run
  <2> QED
    BY <1>6, <2>1 DEF TypeOK, Run, Goto, callerVars
<1>7. CASE WakeSpuriously(w)
  BY <1>7 DEF TypeOK, WakeSpuriously, Goto, callerVars
<1> QED
  BY <1>1, <1>2, <1>3, <1>4, <1>5, <1>6, <1>7 DEF Work

\* Every variable of the pool keeps its type: in particular a worker that
\* calls tmp_func() after a successful pop calls a task, never the empty
\* std::function.
THEOREM Typing == Spec => []TypeOK
<1>1. TypeOK /\ [Next]_vars => TypeOK'
  <2> SUFFICES ASSUME TypeOK, [Next]_vars
               PROVE  TypeOK'
    OBVIOUS
  <2>1. CASE \E s \in Submitter : Submit(s)
    BY <2>1, CallersType
  <2>2. CASE SetShutdown
    BY <2>2, CallersType
  <2>3. CASE Owner
    BY <2>3, CallersType
  <2>4. CASE \E w \in Worker : Work(w) \/ WakeSpuriously(w)
    BY <2>4, WorkersType
  <2>5. CASE UNCHANGED vars
    BY <2>5 DEF TypeOK, vars, workerVars, callerVars
  <2> QED
    BY <2>1, <2>2, <2>3, <2>4, <2>5 DEF Next
<1> QED
  BY <1>1, TypeInit, PTL DEF Spec

------------------------------------------------------------------------------
(* Exclusive is inductive. *)

LEMMA ExclusiveInit == Init => Exclusive
<1> SUFFICES ASSUME Init
             PROVE  Exclusive
  OBVIOUS
<1>1. queue = <<>> /\ \A w \in Worker : pc[w] = "test"
  BY DEF Init
<1>2. (\A w \in Worker, t \in Task : ~Holds(w, t)) /\ 1..Len(queue) = {}
  BY <1>1 DEF Holds
<1>3. \A t \in Task : ran[t] = 0 /\ t \notin submitted
  BY DEF Init
<1> QED
  BY <1>2, <1>3
  DEF Exclusive, OneQueuePlace, OneHolder, OneStage, Queued, Held

\* What a step that touches neither the queue nor what the workers hold keeps.
LEMMA ExclusiveKept ==
  ASSUME Exclusive, UNCHANGED <<queue, ran, submitted>>,
         \A w \in Worker, t \in Task : Holds(w, t)' <=> Holds(w, t)
  PROVE  Exclusive'
<1>1. \A t \in Task : (Queued(t)' <=> Queued(t)) /\ (Held(t)' <=> Held(t))
  BY DEF Queued, Held
<1>2. OneQueuePlace'
  BY DEF Exclusive, OneQueuePlace
<1>3. OneHolder'
  BY DEF Exclusive, OneHolder
<1>4. OneStage'
  BY <1>1 DEF Exclusive, OneStage
<1> QED
  BY <1>2, <1>3, <1>4 DEF Exclusive

LEMMA CallersKeep ==
  ASSUME TypeOK, Exclusive,
         \/ \E s \in Submitter : NotifyOne(s)
         \/ SetShutdown
         \/ Owner
  PROVE  Exclusive'
<1>1. UNCHANGED <<queue, ran, submitted, popped, func>>
  BY DEF NotifyOne, SetShutdown, Owner, NotifyAll, Join, workerVars
<1>2. \A w \in Worker : pc'[w] = "run" <=> pc[w] = "run"
  BY DEF TypeOK, NotifyOne, SetShutdown, Owner, NotifyAll, Join, workerVars, Goto
<1> QED
  BY <1>1, <1>2, ExclusiveKept DEF Holds

LEMMA WaitersKeep ==
  ASSUME TypeOK, Exclusive, NEW w \in Worker,
         TestShutdown(w) \/ TestEmpty(w) \/ Wait(w) \/ Relock(w) \/ WakeSpuriously(w)
  PROVE  Exclusive'
<1>1. UNCHANGED <<queue, ran, submitted, popped, func>>
  BY DEF TestShutdown, TestEmpty, Wait, Relock, WakeSpuriously, callerVars
<1>2. \A v \in Worker : pc'[v] = "run" <=> pc[v] = "run"
  BY DEF TypeOK, TestShutdown, TestEmpty, Wait, Relock, WakeSpuriously, Goto
<1> QED
  BY <1>1, <1>2, ExclusiveKept DEF Holds

\* A task that was never submitted is in no place: it gets its only one.
LEMMA PushKeeps ==
  ASSUME TypeOK, Exclusive, NEW s \in Submitter, NEW t \in Task, Push(s, t)
  PROVE  Exclusive'
<1>1. /\ queue' = Append(queue, t) /\ submitted' = submitted \cup {t}
      /\ UNCHANGED <<ran, pc, popped, func>> /\ t \notin submitted
  BY DEF Push, workerVars
<1>2. \A w \in Worker, u \in Task : Holds(w, u)' <=> Holds(w, u)
  BY <1>1 DEF Holds
<1>3. \A u \in Task : Held(u)' <=> Held(u)
  BY <1>2 DEF Held
<1>4. ~Queued(t) /\ ~Held(t) /\ ran[t] = 0
  BY <1>1 DEF Exclusive, OneStage
<1>5. /\ Len(queue) \in Nat /\ Len(queue') = Len(queue) + 1
      /\ \A i \in 1..Len(queue) : queue'[i] = queue[i]
      /\ queue'[Len(queue) + 1] = t
  BY <1>1, AppendProperties, LenProperties DEF TypeOK
<1>6. \A u \in Task : Queued(u)' <=> Queued(u) \/ u = t
  BY <1>5 DEF Queued
<1>7. OneQueuePlace'
  BY <1>4, <1>5 DEF Exclusive, OneQueuePlace, Queued
<1>8. OneHolder'
  BY <1>2 DEF Exclusive, OneHolder
<1>9. OneStage'
  BY <1>1, <1>3, <1>4, <1>6 DEF Exclusive, OneStage
<1> QED
  BY <1>7, <1>8, <1>9 DEF Exclusive

\* The front of the queue passes to the worker that pops it.  The worker
\* held nothing any more: it was not at "run".
LEMMA PopKeeps ==
  ASSUME TypeOK, Exclusive, NEW w \in Worker, Pop(w)
  PROVE  Exclusive'
<1>1. /\ pc[w] = "pop" /\ pc' = [pc EXCEPT ![w] = "run"]
      /\ UNCHANGED <<ran, submitted>>
  BY DEF Pop, Goto, callerVars
<1>2. \A v \in Worker : v # w => (pc'[v] = "run" <=> pc[v] = "run")
  BY <1>1 DEF TypeOK
<1>3. pc'[w] = "run" /\ \A t \in Task : ~Holds(w, t)
  BY <1>1 DEF TypeOK, Holds
<1>4. CASE queue = <<>> /\ popped' = [popped EXCEPT ![w] = FALSE]
             /\ UNCHANGED <<func, queue>>
  <2>1. popped'[w] = FALSE /\ \A v \in Worker : v # w => popped'[v] = popped[v]
    BY <1>4 DEF TypeOK
  <2>2. \A v \in Worker, t \in Task : Holds(v, t)' <=> Holds(v, t)
    BY <1>2, <1>3, <1>4, <2>1 DEF Holds
  <2> QED
    BY <1>1, <1>4, <2>2, ExclusiveKept
<1>5. CASE queue # <<>> /\ func' = [func EXCEPT ![w] = Head(queue)]
             /\ queue' = Tail(queue) /\ popped' = [popped EXCEPT ![w] = TRUE]
  <2> DEFINE front == queue[1]
  <2>1. /\ front \in Task /\ front = Head(queue)
        /\ Len(queue) \in Nat \ {0} /\ Len(queue') = Len(queue) - 1
        /\ \A i \in 1..Len(queue') : queue'[i] = queue[i + 1]
    BY <1>5, HeadTailProperties, LenProperties, EmptySeq, ElementOfSeq DEF TypeOK
  <2>2. \A v \in Worker, t \in Task :
          Holds(v, t)' <=> Holds(v, t) \/ (v = w /\ t = front)
    <3>1. /\ popped'[w] = TRUE /\ func'[w] = front
          /\ \A v \in Worker : v # w => popped'[v] = popped[v] /\ func'[v] = func[v]
      BY <1>5, <2>1 DEF TypeOK
    <3> QED
      BY <1>2, <1>3, <3>1 DEF Holds
  <2>3. Queued(front) /\ ~Held(front) /\ ran[front] = 0
    BY <2>1 DEF Exclusive, OneStage, Queued
  <2>4. \A t \in Task : Queued(t)' <=> Queued(t) /\ t # front
    <3> SUFFICES ASSUME NEW t \in Task
                 PROVE  Queued(t)' <=> Queued(t) /\ t # front
      OBVIOUS
    <3>1. ASSUME NEW i \in 1..Len(queue'), queue'[i] = t
          PROVE  Queued(t) /\ t # front
      <4>1. i + 1 \in 1..Len(queue) /\ queue[i + 1] = t /\ 1 \in 1..Len(queue) /\ i + 1 # 1
        BY <2>1, <3>1
      <4> QED
        BY <4>1 DEF Queued, Exclusive, OneQueuePlace
    <3>2. ASSUME NEW i \in 1..Len(queue), queue[i] = t, t # front
          PROVE  Queued(t)'
      <4>1. i - 1 \in 1..Len(queue') /\ queue'[i - 1] = queue[(i - 1) + 1]
        BY <2>1, <3>2
      <4> QED
        BY <3>2, <4>1 DEF Queued
    <3> QED
      BY <3>1, <3>2 DEF Queued
  <2>5. \A t \in Task : Held(t)' <=> Held(t) \/ t = front
    BY <2>2 DEF Held
  <2>6. OneQueuePlace'
    <3> SUFFICES ASSUME NEW i \in 1..Len(queue'), NEW j \in 1..Len(queue'),
                        queue'[i] = queue'[j]
                 PROVE  i = j
      BY DEF OneQueuePlace
    <3>1. /\ i + 1 \in 1..Len(queue) /\ j + 1 \in 1..Len(queue)
          /\ queue[i + 1] = queue[j + 1]
      BY <2>1
    <3>2. i + 1 = j + 1
      BY <3>1 DEF Exclusive, OneQueuePlace
    <3> QED
      BY <2>1, <3>2
  <2>7. OneHolder'
    BY <2>2, <2>3 DEF Exclusive, OneHolder, Held
  <2>8. OneStage'
    BY <1>1, <2>1, <2>3, <2>4, <2>5 DEF Exclusive, OneStage
  <2> QED
    BY <2>6, <2>7, <2>8 DEF Exclusive
<1> QED
  BY <1>4, <1>5 DEF Pop

\* A called task is in nobody's hands any more, and this was its only holder.
LEMMA RunKeeps ==
  ASSUME TypeOK, Exclusive, NEW w \in Worker, Run(w)
  PROVE  Exclusive'
<1>1. /\ pc[w] = "run" /\ pc' = [pc EXCEPT ![w] = "test"]
      /\ UNCHANGED <<queue, popped, func, submitted>>
  BY DEF Run, Goto, callerVars
<1>2. /\ pc'[w] = "test"
      /\ \A v \in Worker : v # w => pc'[v] = pc[v]
  BY <1>1 DEF TypeOK
<1>3. \A v \in Worker, t \in Task : Holds(v, t)' <=> Holds(v, t) /\ v # w
  BY <1>1, <1>2 DEF Holds
<1>4. CASE popped[w] = FALSE
  <2>1. UNCHANGED ran
    BY <1>4 DEF Run
  <2>2. \A v \in Worker, t \in Task : Holds(v, t)' <=> Holds(v, t)
    BY <1>3, <1>4 DEF Holds
  <2> QED
    BY <1>1, <2>1, <2>2, ExclusiveKept
<1>5. CASE popped[w] = TRUE
  <2> DEFINE mine == func[w]
  <2>1. mine \in Task /\ Holds(w, mine)
    BY <1>1, <1>5 DEF TypeOK, Holds
  <2>2. ran[mine] = 0 /\ ~Queued(mine)
    BY <2>1 DEF Exclusive, OneStage, Held
  <2>3. \A t \in Task : ran'[t] = IF t = mine THEN 1 ELSE ran[t]
    BY <1>5, <2>1, <2>2 DEF Run, TypeOK
  <2>4. \A t \in Task : Held(t)' <=> Held(t) /\ t # mine
    <3>1. \A v \in Worker : Holds(v, mine) => v = w
      BY <2>1 DEF Exclusive, OneHolder
    <3>2. \A t \in Task : Holds(w, t) => t = mine
      BY DEF Holds
    <3> QED
      BY <1>3, <3>1, <3>2 DEF Held
  <2>5. \A t \in Task : Queued(t)' <=> Queued(t)
    BY <1>1 DEF Queued
  <2>6. OneQueuePlace'
    BY <1>1 DEF Exclusive, OneQueuePlace
  <2>7. OneHolder'
    BY <1>3 DEF Exclusive, OneHolder
  <2>8. OneStage'
    <3> SUFFICES ASSUME NEW t \in Task
                 PROVE  /\ ran'[t] \in {0, 1}
                        /\ Queued(t)' => ~Held(t)' /\ ran'[t] = 0
                        /\ Held(t)' => ran'[t] = 0
                        /\ t \in submitted' <=> Queued(t)' \/ Held(t)' \/ ran'[t] = 1
      BY DEF OneStage
    <3>1. CASE t = mine
      <4>1. t \in submitted
        BY <2>1, <3>1 DEF Exclusive, OneStage, Held
      <4> QED
        BY <1>1, <2>2, <2>3, <2>4, <2>5, <3>1, <4>1
    <3>2. CASE t # mine
      BY <1>1, <2>3, <2>4, <2>5, <3>2 DEF Exclusive, OneStage
    <3> QED
      BY <3>1, <3>2
  <2> QED
    BY <2>6, <2>7, <2>8 DEF Exclusive
<1> QED
  BY <1>4, <1>5 DEF TypeOK

LEMMA ExclusiveNext ==
  ASSUME TypeOK, Exclusive, [Next]_vars
  PROVE  Exclusive'
<1>1. CASE \E s \in Submitter : Submit(s)
  BY <1>1, CallersKeep, PushKeeps DEF Submit
<1>2. CASE SetShutdown
  BY <1>2, CallersKeep
<1>3. CASE Owner
  BY <1>3, CallersKeep
<1>4. ASSUME NEW w \in Worker, Work(w) \/ WakeSpuriously(w)
      PROVE  Exclusive'
  BY <1>4, WaitersKeep, PopKeeps, RunKeeps DEF Work
<1>5. CASE UNCHANGED vars
  <2>1. UNCHANGED <<queue, ran, submitted, pc, popped, func>>
    BY <1>5 DEF vars, workerVars, callerVars
  <2> QED
    BY <2>1, ExclusiveKept DEF Holds
<1> QED
  BY <1>1, <1>2, <1>3, <1>4, <1>5 DEF Next

\* A submitted task never gets lost and never multiplies: it is in one stage,
\* in one place of it, however workers are notified, woken for nothing, or
\* beaten to a task.
THEOREM ExclusiveAlways == Spec => []Exclusive
  BY Typing, ExclusiveInit, ExclusiveNext, PTL DEF Spec

------------------------------------------------------------------------------
(* Accounted follows: the set of a task's places is empty or a singleton. *)

LEMMA AccountedHolds ==
  ASSUME TypeOK, Exclusive
  PROVE  Accounted
<1> SUFFICES ASSUME NEW t \in Task
             PROVE  ran[t] + Cardinality(Places(t)) = IF t \in submitted THEN 1 ELSE 0
  BY DEF Accounted
<1>1. \A p : p \in Places(t) <=>
             \/ \E i \in 1..Len(queue) : queue[i] = t /\ p = <<"queue", i>>
             \/ \E w \in Worker : Holds(w, t) /\ p = <<"worker", w>>
  BY DEF Places, Holds, TypeOK
<1>2. /\ ran[t] \in {0, 1}
      /\ Queued(t) => ~Held(t) /\ ran[t] = 0
      /\ Held(t) => ran[t] = 0
      /\ t \in submitted <=> Queued(t) \/ Held(t) \/ ran[t] = 1
  BY DEF Exclusive, OneStage
<1>3. CASE Queued(t)
  <2>1. PICK i \in 1..Len(queue) : queue[i] = t
    BY <1>3 DEF Queued
  <2>2. Places(t) = {<<"queue", i>>}
    BY <1>1, <1>2, <1>3, <2>1 DEF Exclusive, OneQueuePlace, Held
  <2>3. Cardinality(Places(t)) = 1
    BY <2>2, FS_Singleton, Zenon
  <2> QED
    BY <1>2, <1>3, <2>3
<1>4. CASE Held(t)
  <2>1. PICK w \in Worker : Holds(w, t)
    BY <1>4 DEF Held
  <2>2. Places(t) = {<<"worker", w>>}
    BY <1>1, <1>2, <1>4, <2>1 DEF Exclusive, OneHolder, Queued
  <2>3. Cardinality(Places(t)) = 1
    BY <2>2, FS_Singleton, Zenon
  <2> QED
    BY <1>2, <1>4, <2>3
<1>5. CASE ~Queued(t) /\ ~Held(t)
  <2>1. Places(t) = {}
    BY <1>1, <1>5 DEF Queued, Held
  <2> QED
    BY <1>2, <1>5, <2>1, FS_EmptySet
<1> QED
  BY <1>3, <1>4, <1>5

\* Every submitted task is queued once, or in the hands of one worker, or has
\* been called once; no other task is anywhere.
THEOREM AccountedAlways == Spec => []Accounted
  BY Typing, ExclusiveAlways, AccountedHolds, PTL
==============================================================================
