----------------------------- MODULE ThreadPool -----------------------------
(***************************************************************************)
(* The worker pool (src/src/thread_pool.cpp): a queue under a mutex, a     *)
(* condition variable, workers that sleep on it, and a destructor that     *)
(* drains the queue and joins the workers.                                 *)
(*                                                                         *)
(* A step is a critical section of the mutex, or a notification, which the *)
(* code makes after releasing the mutex.  The condition variable is the    *)
(* set of workers asleep on it: a notification moves one or all of them    *)
(* back to re-checking the predicate, and a sleeper may also wake for no   *)
(* reason.                                                                 *)
(***************************************************************************)
EXTENDS Naturals, Sequences, FiniteSets

CONSTANTS Worker,     \* the threads of the pool
          Task,       \* tasks that callers submit, each once
          NoTask,
          MaxQueue    \* max_queue_size_; 0 means unbounded

ASSUME PoolAssumption ==
  /\ IsFiniteSet(Worker)
  /\ Worker # {}
  /\ NoTask \notin Task
  /\ MaxQueue \in Nat

VARIABLES
  tasks, stop,   \* tasks_ and stop_, guarded by the mutex
  at, job,       \* each worker's place in worker_loop, and the task it holds
  call,          \* how far the submit() of each task has come
  dtor,          \* how far the destructor has come
  finished       \* history: tasks that have run

vars == <<tasks, stop, at, job, call, dtor, finished>>

Place == {"check", "asleep", "run", "exited"}
Call == {"new", "notify", "taken", "refused"}
Dtor == {"none", "notify", "join", "done"}

Asleep == {w \in Worker : at[w] = "asleep"}

Init ==
  /\ tasks = <<>> /\ stop = FALSE
  /\ at = [w \in Worker |-> "check"]
  /\ job = [w \in Worker |-> NoTask]
  /\ call = [t \in Task |-> "new"]
  /\ dtor = "none" /\ finished = {}

-----------------------------------------------------------------------------
(* submit(). *)

QueueFull == MaxQueue # 0 /\ Len(tasks) >= MaxQueue

PushesMovedFrom(t) ==
  /\ dtor # "done"
  /\ call[t] = "new"
  /\ ~stop /\ ~QueueFull
  /\ call' = [call EXCEPT ![t] = "notify"]
  /\ tasks' = Append(tasks, NoTask)
  /\ UNCHANGED <<stop, at, job, dtor, finished>>

\* The locked part.  The pool object must outlive every call made on it.
submit(t) ==
  /\ dtor # "done"
  /\ call[t] = "new"
  /\ \/ /\ stop \/ QueueFull
        /\ call' = [call EXCEPT ![t] = "refused"]
        /\ tasks' = tasks
     \/ /\ ~stop /\ ~QueueFull
        /\ call' = [call EXCEPT ![t] = "notify"]
        /\ tasks' = Append(tasks, t)
  /\ UNCHANGED <<stop, at, job, dtor, finished>>

ForgetsToNotify(t) ==
  /\ call[t] = "notify"
  /\ call' = [call EXCEPT ![t] = "taken"]
  /\ UNCHANGED <<tasks, stop, at, job, dtor, finished>>

\* cv_.notify_one(): wakes one sleeper, or nobody if there is none.
notify_one(t) ==
  /\ call[t] = "notify"
  /\ call' = [call EXCEPT ![t] = "taken"]
  /\ \/ \E w \in Asleep : at' = [at EXCEPT ![w] = "check"]
     \/ Asleep = {} /\ at' = at
  /\ UNCHANGED <<tasks, stop, job, dtor, finished>>

-----------------------------------------------------------------------------
(* worker_loop(). *)

ExitsOnStop(w) ==
  /\ at[w] = "check"
  /\ \/ /\ stop
        /\ at' = [at EXCEPT ![w] = "exited"]
        /\ UNCHANGED <<tasks, job>>
     \/ /\ ~stop /\ tasks # <<>>
        /\ at' = [at EXCEPT ![w] = "run"]
        /\ job' = [job EXCEPT ![w] = Head(tasks)]
        /\ tasks' = Tail(tasks)
     \/ /\ ~stop /\ tasks = <<>>
        /\ at' = [at EXCEPT ![w] = "asleep"]
        /\ UNCHANGED <<tasks, job>>
  /\ UNCHANGED <<stop, call, dtor, finished>>

\* With the lock held: sleep on the predicate, exit, or take the oldest task.
CheckQueue(w) ==
  /\ at[w] = "check"
  /\ \/ /\ tasks = <<>> /\ ~stop
        /\ at' = [at EXCEPT ![w] = "asleep"]
        /\ UNCHANGED <<tasks, job>>
     \/ /\ tasks = <<>> /\ stop
        /\ at' = [at EXCEPT ![w] = "exited"]
        /\ UNCHANGED <<tasks, job>>
     \/ /\ tasks # <<>>
        /\ at' = [at EXCEPT ![w] = "run"]
        /\ job' = [job EXCEPT ![w] = Head(tasks)]
        /\ tasks' = Tail(tasks)
  /\ UNCHANGED <<stop, call, dtor, finished>>

SpuriousWakeup(w) ==
  /\ at[w] = "asleep"
  /\ at' = [at EXCEPT ![w] = "check"]
  /\ UNCHANGED <<tasks, stop, job, call, dtor, finished>>

\* The task returns, or throws and is caught: the worker loops either way.
FinishTask(w) ==
  /\ at[w] = "run"
  /\ at' = [at EXCEPT ![w] = "check"]
  /\ job' = [job EXCEPT ![w] = NoTask]
  /\ finished' = finished \cup {job[w]}
  /\ UNCHANGED <<tasks, stop, call, dtor>>

-----------------------------------------------------------------------------
(* ~ThreadPool(). *)

SetStop ==
  /\ dtor = "none"
  /\ stop' = TRUE
  /\ dtor' = "notify"
  /\ UNCHANGED <<tasks, at, job, call, finished>>

WakesOne ==
  /\ dtor = "notify"
  /\ dtor' = "join"
  /\ \/ \E w \in Asleep : at' = [at EXCEPT ![w] = "check"]
     \/ Asleep = {} /\ at' = at
  /\ UNCHANGED <<tasks, stop, job, call, finished>>

notify_all ==
  /\ dtor = "notify"
  /\ dtor' = "join"
  /\ at' = [w \in Worker |-> IF w \in Asleep THEN "check" ELSE at[w]]
  /\ UNCHANGED <<tasks, stop, job, call, finished>>

Join ==
  /\ dtor = "join"
  /\ \A w \in Worker : at[w] = "exited"
  /\ \A t \in Task : call[t] # "notify"
  /\ dtor' = "done"
  /\ UNCHANGED <<tasks, stop, at, job, call, finished>>

\* After the destructor nothing is left to do.
Destroyed == dtor = "done" /\ UNCHANGED vars

-----------------------------------------------------------------------------

Next ==
  \/ \E t \in Task : submit(t) \/ notify_one(t)
  \/ \E w \in Worker : CheckQueue(w) \/ SpuriousWakeup(w) \/ FinishTask(w)
  \/ SetStop \/ notify_all \/ Join \/ Destroyed

Spec == Init /\ [][Next]_vars

\* The scheduler runs every thread that is not asleep, tasks return, and a
\* call once begun ends.  Nobody has to submit or to destroy the pool, and no
\* spurious wakeup has to come.
FairSpec ==
  /\ Spec
  /\ \A w \in Worker : WF_vars(CheckQueue(w)) /\ WF_vars(FinishTask(w))
  /\ \A t \in Task : WF_vars(notify_one(t))
  /\ WF_vars(notify_all) /\ WF_vars(Join)

-----------------------------------------------------------------------------
(* Properties. *)

TypeOK ==
  /\ tasks \in Seq(Task)
  /\ stop \in BOOLEAN
  /\ at \in [Worker -> Place]
  /\ job \in [Worker -> Task \cup {NoTask}]
  /\ call \in [Task -> Call]
  /\ dtor \in Dtor
  /\ finished \subseteq Task

Checking == {w \in Worker : at[w] = "check"}
Notifying == {t \in Task : call[t] = "notify"}

\* No lost wakeup: while a worker sleeps, every queued task has a wakeup of its
\* own on the way, either a worker awake to re-check the queue or a caller of
\* submit() that has yet to notify.
NoLostWakeup ==
  Asleep # {} => Len(tasks) <= Cardinality(Checking) + Cardinality(Notifying)

\* A destructor past its notify_all leaves nobody asleep for it to wait on.
NobodySleepsThroughStop == dtor \in {"join", "done"} => Asleep = {}

Running == {job[w] : w \in {x \in Worker : at[x] = "run"}}

Service == INSTANCE PoolService WITH
  Size <- Cardinality(Worker),
  backlog <- tasks,
  running <- Running,
  refused <- {t \in Task : call[t] = "refused"},
  open <- ~stop,
  gone <- (dtor = "done")

\* Every step of the pool is a step of the service: tasks start in the order
\* they were taken, none is lost, run twice or run after a refusal, and the
\* destructor returns only when every task taken has run.
ImplementsService == Service!SSpec

\* The pool keeps the service's promises of progress: a task taken is begun
\* and finished even when the pool is being destroyed, and the destructor ends.
KeepsRunning == Service!SFairSpec
=============================================================================
