----------------------------- MODULE ThreadPool -----------------------------
(***************************************************************************)
(* thread_pool and sync_queue (src/src/thread_pool.hpp): threads that      *)
(* submit tasks, workers that take them from one queue, and the owner that *)
(* shuts the pool down.                                                    *)
(*                                                                         *)
(* The queue has a mutex of its own; m_mutex and m_cv are the workers'     *)
(* alone: neither push, notify_one nor shutdown_pool takes m_mutex.  A     *)
(* step is one call on a shared object; taking a mutex belongs to the      *)
(* first call made under it, releasing it to the last.                     *)
(***************************************************************************)
EXTENDS Integers, Sequences, FiniteSets

CONSTANTS Worker,
          Submitter,    \* threads that call submit_to_pool
          Task,         \* each is submitted once at most
          NoWorker,
          NoTask

ASSUME WorkerAssumption == NoWorker \notin Worker
ASSUME TaskAssumption == NoTask \notin Task

VARIABLES
    queue,      \* m_queue
    mutex,      \* who holds m_mutex
    shutdown,   \* m_shutdown
    pc,         \* where each worker is in operator()
    popped,     \* already_poped
    func,       \* tmp_func
    calling,    \* the task a submitter has pushed and not yet notified of
    owner,      \* where the owner is in shutdown_pool
    submitted,
    ran         \* how often each task was called

workerVars == <<mutex, pc, popped, func, ran>>
callerVars == <<calling, owner, submitted, shutdown>>
vars == <<queue, workerVars, callerVars>>

TypeOK ==
    /\ queue \in Seq(Task)
    /\ mutex \in Worker \cup {NoWorker}
    /\ shutdown \in BOOLEAN
    /\ pc \in [Worker -> {"test", "lock", "wait", "asleep", "woken", "pop", "run", "exit"}]
    /\ popped \in [Worker -> BOOLEAN]
    /\ func \in [Worker -> Task \cup {NoTask}]
    /\ \A w \in Worker : popped[w] => func[w] # NoTask
    /\ calling \in [Submitter -> Task \cup {NoTask}]
    /\ owner \in {"using", "notify", "join", "gone"}
    /\ submitted \subseteq Task
    /\ ran \in [Task -> Nat]

Init ==
    /\ queue = <<>>
    /\ mutex = NoWorker
    /\ shutdown = FALSE
    /\ pc = [w \in Worker |-> "test"]
    /\ popped = [w \in Worker |-> FALSE]
    /\ func = [w \in Worker |-> NoTask]
    /\ calling = [s \in Submitter |-> NoTask]
    /\ owner = "using"
    /\ submitted = {}
    /\ ran = [t \in Task |-> 0]

Goto(w, place) == pc' = [pc EXCEPT ![w] = place]

------------------------------------------------------------------------------
(* submit_to_pool and shutdown_pool. *)

\* sync_queue::push.  Nobody submits to a pool that is being destroyed.
Push(s, t) ==
    /\ owner = "using"
    /\ calling[s] = NoTask
    /\ t \notin submitted
    /\ queue' = Append(queue, t)
    /\ calling' = [calling EXCEPT ![s] = t]
    /\ submitted' = submitted \cup {t}
    /\ UNCHANGED <<workerVars, owner, shutdown>>

\* m_cv.notify_one: one of the workers that sleep, if any does.
NotifyOne(s) ==
    /\ calling[s] # NoTask
    /\ calling' = [calling EXCEPT ![s] = NoTask]
    /\ \/ \E w \in Worker : pc[w] = "asleep" /\ Goto(w, "woken")
       \/ (\A w \in Worker : pc[w] # "asleep") /\ UNCHANGED pc
    /\ UNCHANGED <<queue, mutex, popped, func, ran, owner, submitted, shutdown>>

\* shutdown_pool, called by the owner or by ~thread_pool.
SetShutdown ==
    /\ owner = "using"
    /\ \A s \in Submitter : calling[s] = NoTask
    /\ shutdown' = TRUE
    /\ owner' = "notify"
    /\ UNCHANGED <<queue, workerVars, calling, submitted>>

\* Mutant of NotifyAll: notify_one.
NotifyAllOnce ==
    /\ owner = "notify"
    /\ owner' = "join"
    /\ \/ \E w \in Worker : pc[w] = "asleep" /\ Goto(w, "woken")
       \/ (\A w \in Worker : pc[w] # "asleep") /\ UNCHANGED pc
    /\ UNCHANGED <<queue, mutex, popped, func, ran, calling, submitted, shutdown>>

NotifyAll ==
    /\ owner = "notify"
    /\ owner' = "join"
    /\ pc' = [w \in Worker |-> IF pc[w] = "asleep" THEN "woken" ELSE pc[w]]
    /\ UNCHANGED <<queue, mutex, popped, func, ran, calling, submitted, shutdown>>

\* join of every worker; what is still queued goes with the pool.
Join ==
    /\ owner = "join"
    /\ \A w \in Worker : pc[w] = "exit"
    /\ owner' = "gone"
    /\ UNCHANGED <<queue, workerVars, calling, submitted, shutdown>>

Submit(s) == NotifyOne(s) \/ \E t \in Task : Push(s, t)
Owner == NotifyAll \/ Join

------------------------------------------------------------------------------
(* thread_pool_worker::operator(). *)

\* while (!m_shutdown)
TestShutdown(w) ==
    /\ pc[w] = "test"
    /\ Goto(w, IF shutdown THEN "exit" ELSE "lock")
    /\ UNCHANGED <<queue, mutex, popped, func, ran, callerVars>>

\* Mutant of TestEmpty: the worker always waits for a notification.
TestEmptyNever(w) ==
    /\ pc[w] = "lock" /\ mutex = NoWorker
    /\ mutex' = w
    /\ Goto(w, "wait")
    /\ UNCHANGED <<queue, popped, func, ran, callerVars>>

\* m_mutex is taken, and sync_queue::is_empty decides whether to wait.
TestEmpty(w) ==
    /\ pc[w] = "lock" /\ mutex = NoWorker
    /\ mutex' = w
    /\ Goto(w, IF queue = <<>> THEN "wait" ELSE "pop")
    /\ UNCHANGED <<queue, popped, func, ran, callerVars>>

\* m_cv.wait has no predicate: it releases m_mutex and sleeps, whatever was
\* pushed since is_empty answered.
Wait(w) ==
    /\ pc[w] = "wait"
    /\ mutex' = NoWorker
    /\ Goto(w, "asleep")
    /\ UNCHANGED <<queue, popped, func, ran, callerVars>>

\* wait may return without a notification.
WakeSpuriously(w) ==
    /\ pc[w] = "asleep"
    /\ Goto(w, "woken")
    /\ UNCHANGED <<queue, mutex, popped, func, ran, callerVars>>

\* wait returns with m_mutex taken again.
Relock(w) ==
    /\ pc[w] = "woken" /\ mutex = NoWorker
    /\ mutex' = w
    /\ Goto(w, "pop")
    /\ UNCHANGED <<queue, popped, func, ran, callerVars>>

\* Mutants of Pop: the result of a pop that finds nothing is not stored, and
\* the front of an empty queue is taken.
PopKeepsResult(w) ==
    /\ pc[w] = "pop"
    /\ mutex' = NoWorker
    /\ Goto(w, "run")
    /\ \/ /\ queue # <<>>
          /\ func' = [func EXCEPT ![w] = Head(queue)]
          /\ queue' = Tail(queue)
          /\ popped' = [popped EXCEPT ![w] = TRUE]
       \/ /\ queue = <<>>
          /\ UNCHANGED <<func, queue, popped>>
    /\ UNCHANGED <<ran, callerVars>>

PopUntested(w) ==
    /\ pc[w] = "pop"
    /\ mutex' = NoWorker
    /\ Goto(w, "run")
    /\ func' = [func EXCEPT ![w] = IF queue = <<>> THEN NoTask ELSE Head(queue)]
    /\ queue' = IF queue = <<>> THEN <<>> ELSE Tail(queue)
    /\ popped' = [popped EXCEPT ![w] = TRUE]
    /\ UNCHANGED <<ran, callerVars>>

\* sync_queue::pop, and the end of the block that holds m_mutex.  A worker
\* that was woken may find that another has taken the task.
Pop(w) ==
    /\ pc[w] = "pop"
    /\ mutex' = NoWorker
    /\ Goto(w, "run")
    /\ \/ /\ queue # <<>>
          /\ func' = [func EXCEPT ![w] = Head(queue)]
          /\ queue' = Tail(queue)
          /\ popped' = [popped EXCEPT ![w] = TRUE]
       \/ /\ queue = <<>>
          /\ popped' = [popped EXCEPT ![w] = FALSE]
          /\ UNCHANGED <<func, queue>>
    /\ UNCHANGED <<ran, callerVars>>

\* tmp_func(), if a task was popped.
Run(w) ==
    /\ pc[w] = "run"
    /\ Goto(w, "test")
    /\ ran' = IF popped[w] THEN [ran EXCEPT ![func[w]] = @ + 1] ELSE ran
    /\ UNCHANGED <<queue, mutex, popped, func, callerVars>>

Work(w) ==
    \/ TestShutdown(w)
    \/ TestEmpty(w)
    \/ Wait(w)
    \/ Relock(w)
    \/ Pop(w)
    \/ Run(w)

Next ==
    \/ \E s \in Submitter : Submit(s)
    \/ SetShutdown
    \/ Owner
    \/ \E w \in Worker : Work(w) \/ WakeSpuriously(w)

Spec == Init /\ [][Next]_vars

\* Threads run when they can.  Nobody has to submit, to shut down, or to wake
\* up by itself.
FairSpec ==
    /\ Spec
    /\ \A s \in Submitter : WF_vars(NotifyOne(s))
    /\ WF_vars(Owner)
    /\ \A w \in Worker : WF_vars(Work(w))

------------------------------------------------------------------------------
(* Properties. *)

Places(t) ==
    {<<"queue", i>> : i \in {j \in 1..Len(queue) : queue[j] = t}}
        \cup {<<"worker", w>> : w \in {v \in Worker :
                                  pc[v] = "run" /\ popped[v] /\ func[v] = t}}

\* However workers are notified, woken for nothing or beaten to a task, every
\* submitted task is queued once, or in the hands of one worker, or has been
\* called once.
Accounted ==
    \A t \in Task :
        ran[t] + Cardinality(Places(t)) = IF t \in submitted THEN 1 ELSE 0

\* A notification that is missed strands a task only if every worker sleeps
\* or has already decided to: as long as one does not, the queue is emptied,
\* because a worker looks at the queue again before it waits.
AwakeWorkerDrains ==
    (queue # <<>> /\ \E w \in Worker : pc[w] \notin {"wait", "asleep", "exit"})
        ~> (queue = <<>> \/ shutdown)

\* shutdown_pool returns unless a worker stands between its test of
\* m_shutdown and its wait, where it misses notify_all: the sleepers are woken,
\* find nothing to run, and see the flag.
ShutdownEnds ==
    (owner = "notify" /\ \A w \in Worker : pc[w] \notin {"lock", "wait"})
        ~> (owner = "gone")
==============================================================================
