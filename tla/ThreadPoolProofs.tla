-------------------------- MODULE ThreadPoolProofs --------------------------
(***************************************************************************)
(* Proofs about ThreadPool for any finite number of workers, any set of    *)
(* tasks, finite or not, and any bound on the queue.                       *)
(***************************************************************************)
EXTENDS ThreadPool, FiniteSetTheorems, SequenceTheorems, TLAPS

\* The destructor sets stop_ first, and a worker exits only when nothing is
\* queued and nothing can be any more.
StopFacts ==
  /\ stop <=> dtor # "none"
  /\ \A w \in Worker : at[w] = "exited" => stop /\ tasks = <<>>
  /\ NobodySleepsThroughStop

\* Of the tasks, only finitely many are between push and notify at a time.
WakeupFacts == IsFiniteSet(Notifying) /\ NoLostWakeup

\* A task is in one place at a time, and only after submit() took it.
TaskFacts ==
  /\ \A i, j \in DOMAIN tasks : tasks[i] = tasks[j] => i = j
  /\ \A i \in DOMAIN tasks : call[tasks[i]] \in {"notify", "taken"}
  /\ \A w \in Worker : at[w] = "run" =>
       /\ job[w] \in Task
       /\ call[job[w]] \in {"notify", "taken"}
       /\ \A i \in DOMAIN tasks : tasks[i] # job[w]
       /\ \A x \in Worker : at[x] = "run" /\ job[x] = job[w] => x = w
  /\ \A t \in finished : call[t] \in {"notify", "taken"}

IInv == TypeOK /\ StopFacts /\ WakeupFacts /\ TaskFacts

-----------------------------------------------------------------------------
(* The inductive invariant, conjunct by conjunct. *)

LEMMA TypeKept == ASSUME TypeOK, StopFacts, TaskFacts, [Next]_vars PROVE TypeOK'
<1> USE DEF TypeOK, Place, Call, Dtor
<1>1. ASSUME NEW t \in Task, submit(t) PROVE TypeOK'
  <2>1. tasks' \in Seq(Task)
    BY <1>1 DEF submit
  <2>2. call' \in [Task -> Call]
    BY <1>1 DEF submit
  <2> QED
    BY <1>1, <2>1, <2>2 DEF submit
<1>2. ASSUME NEW t \in Task, notify_one(t) PROVE TypeOK'
  BY <1>2 DEF notify_one, Asleep
<1>3. ASSUME NEW w \in Worker, CheckQueue(w) PROVE TypeOK'
  BY <1>3 DEF CheckQueue
<1>4. ASSUME NEW w \in Worker, SpuriousWakeup(w) PROVE TypeOK'
  BY <1>4 DEF SpuriousWakeup
<1>5. ASSUME NEW w \in Worker, FinishTask(w) PROVE TypeOK'
  BY <1>5 DEF FinishTask, TaskFacts
<1>6. CASE SetStop
  BY <1>6 DEF SetStop
<1>7. CASE notify_all
  BY <1>7 DEF notify_all, Asleep
<1>8. CASE Join
  BY <1>8 DEF Join
<1>9. CASE UNCHANGED vars
  BY <1>9 DEF vars
<1> QED
  BY <1>1, <1>2, <1>3, <1>4, <1>5, <1>6, <1>7, <1>8, <1>9 DEF Next, Destroyed

LEMMA StopKept == ASSUME TypeOK, StopFacts, [Next]_vars PROVE StopFacts'
<1> USE DEF TypeOK, StopFacts, NobodySleepsThroughStop, Asleep, Place, Dtor
<1>1. ASSUME NEW t \in Task, submit(t) PROVE StopFacts'
  BY <1>1 DEF submit
<1>2. ASSUME NEW t \in Task, notify_one(t) PROVE StopFacts'
  BY <1>2 DEF notify_one
<1>3. ASSUME NEW w \in Worker, CheckQueue(w) PROVE StopFacts'
  BY <1>3 DEF CheckQueue
<1>4. ASSUME NEW w \in Worker, SpuriousWakeup(w) PROVE StopFacts'
  BY <1>4 DEF SpuriousWakeup
<1>5. ASSUME NEW w \in Worker, FinishTask(w) PROVE StopFacts'
  BY <1>5 DEF FinishTask
<1>6. CASE SetStop
  BY <1>6 DEF SetStop
<1>7. CASE notify_all
  BY <1>7 DEF notify_all
<1>8. CASE Join
  BY <1>8 DEF Join
<1>9. CASE UNCHANGED vars
  BY <1>9 DEF vars
<1> QED
  BY <1>1, <1>2, <1>3, <1>4, <1>5, <1>6, <1>7, <1>8, <1>9 DEF Next, Destroyed

\* Counting the workers awake at the queue when one joins or leaves them.
LEMMA CheckingCounts ==
  ASSUME TypeOK
  PROVE  /\ IsFiniteSet(Checking) /\ Cardinality(Checking) \in Nat
         /\ \A w \in Worker :
              /\ w \notin Checking =>
                   Cardinality(Checking \cup {w}) = Cardinality(Checking) + 1
              /\ w \in Checking =>
                   Cardinality(Checking \ {w}) = Cardinality(Checking) - 1
<1>1. IsFiniteSet(Checking)
  BY PoolAssumption, FS_Subset DEF Checking
<1> QED
  BY <1>1, FS_CardinalityType, FS_AddElement, FS_RemoveElement

LEMMA WakeupsKept ==
  ASSUME TypeOK, TypeOK', StopFacts, StopFacts', WakeupFacts, [Next]_vars
  PROVE  WakeupFacts'
<1> USE DEF WakeupFacts
<1>c. /\ IsFiniteSet(Checking) /\ Cardinality(Checking) \in Nat
      /\ \A w \in Worker :
           /\ w \notin Checking =>
                Cardinality(Checking \cup {w}) = Cardinality(Checking) + 1
           /\ w \in Checking =>
                Cardinality(Checking \ {w}) = Cardinality(Checking) - 1
  BY CheckingCounts
<1>n. Cardinality(Notifying) \in Nat
  BY FS_CardinalityType
<1>l. Len(tasks) \in Nat
  BY DEF TypeOK
<1>1. ASSUME NEW t \in Task, submit(t) PROVE WakeupFacts'
  <2>1. CASE stop \/ QueueFull
    <3>1. Notifying' = Notifying /\ Checking' = Checking /\ Asleep' = Asleep
             /\ tasks' = tasks
      BY <1>1, <2>1 DEF submit, Notifying, Checking, Asleep, TypeOK
    <3> QED
      BY <3>1 DEF NoLostWakeup
  <2>2. CASE ~(stop \/ QueueFull)
    <3>1. Notifying' = Notifying \cup {t} /\ t \notin Notifying
      BY <1>1, <2>2 DEF submit, Notifying, TypeOK
    <3>2. IsFiniteSet(Notifying') /\ Cardinality(Notifying') = Cardinality(Notifying) + 1
      BY <3>1, FS_AddElement
    <3>3. Checking' = Checking /\ Asleep' = Asleep /\ Len(tasks') = Len(tasks) + 1
      BY <1>1, <2>2 DEF submit, Checking, Asleep, TypeOK
    <3> QED
      BY <3>2, <3>3, <1>c, <1>n, <1>l DEF NoLostWakeup
  <2> QED
    BY <2>1, <2>2
<1>2. ASSUME NEW t \in Task, notify_one(t) PROVE WakeupFacts'
  <2>1. Notifying' = Notifying \ {t} /\ t \in Notifying /\ tasks' = tasks
    BY <1>2 DEF notify_one, Notifying, TypeOK
  <2>2. IsFiniteSet(Notifying') /\ Cardinality(Notifying') = Cardinality(Notifying) - 1
    BY <2>1, FS_RemoveElement
  <2>3. CASE Asleep = {}
    <3>1. Asleep' = {}
      BY <1>2, <2>3 DEF notify_one, Asleep
    <3> QED
      BY <3>1, <2>2 DEF NoLostWakeup
  <2>4. CASE Asleep # {}
    <3>1. PICK w \in Asleep : at' = [at EXCEPT ![w] = "check"]
      BY <1>2, <2>4 DEF notify_one
    <3>2. w \in Worker /\ w \notin Checking /\ Checking' = Checking \cup {w}
      BY <3>1 DEF Asleep, Checking, TypeOK
    <3> QED
      BY <2>1, <2>2, <2>4, <3>2, <1>c, <1>n, <1>l DEF NoLostWakeup
  <2> QED
    BY <2>3, <2>4
<1>3. ASSUME NEW w \in Worker, CheckQueue(w) PROVE WakeupFacts'
  <2>1. Notifying' = Notifying
    BY <1>3 DEF CheckQueue, Notifying
  <2>2. CASE tasks = <<>>
    <3>1. Len(tasks') = 0
      BY <1>3, <2>2 DEF CheckQueue
    <3>2. Cardinality(Checking') \in Nat
      BY PoolAssumption, FS_Subset, FS_CardinalityType DEF Checking
    <3> QED
      BY <2>1, <3>1, <3>2, <1>n DEF NoLostWakeup
  <2>3. CASE tasks # <<>>
    <3>1. Len(tasks') = Len(tasks) - 1
      BY <1>3, <2>3 DEF CheckQueue, TypeOK
    <3>2. w \in Checking /\ Checking' = Checking \ {w} /\ Asleep' = Asleep
      BY <1>3, <2>3 DEF CheckQueue, Checking, Asleep, TypeOK
    <3> QED
      BY <2>1, <3>1, <3>2, <1>c, <1>n, <1>l DEF NoLostWakeup
  <2> QED
    BY <2>2, <2>3
<1>4. ASSUME NEW w \in Worker, SpuriousWakeup(w) \/ FinishTask(w) PROVE WakeupFacts'
  <2>1. Notifying' = Notifying /\ tasks' = tasks
    BY <1>4 DEF SpuriousWakeup, FinishTask, Notifying
  <2>2. w \notin Checking /\ Checking' = Checking \cup {w} /\ Asleep' \subseteq Asleep
    BY <1>4 DEF SpuriousWakeup, FinishTask, Checking, Asleep, TypeOK
  <2> QED
    BY <2>1, <2>2, <1>c, <1>n, <1>l DEF NoLostWakeup
<1>5. CASE notify_all
  <2>1. Notifying' = Notifying /\ Asleep' = {}
    BY <1>5 DEF notify_all, Notifying, Asleep, TypeOK
  <2> QED
    BY <2>1 DEF NoLostWakeup
<1>6. CASE SetStop \/ Join \/ UNCHANGED vars
  <2>1. Notifying' = Notifying /\ Checking' = Checking /\ Asleep' = Asleep /\ tasks' = tasks
    BY <1>6 DEF SetStop, Join, vars, Notifying, Checking, Asleep
  <2> QED
    BY <2>1 DEF NoLostWakeup
<1> QED
  BY <1>1, <1>2, <1>3, <1>4, <1>5, <1>6 DEF Next, Destroyed

\* What is left of a queue whose front is taken.
LEMMA PopFacts ==
  ASSUME NEW s \in Seq(Task), s # <<>>
  PROVE  /\ 1 \in DOMAIN s /\ Head(s) = s[1] /\ s[1] \in Task
         /\ \A i \in DOMAIN Tail(s) :
              i \in Nat /\ i + 1 \in DOMAIN s /\ i + 1 # 1 /\ Tail(s)[i] = s[i + 1]
<1>1. Len(s) \in Nat /\ Len(s) # 0 /\ DOMAIN s = 1..Len(s)
  OBVIOUS
<1>2. 1 \in DOMAIN s /\ Head(s) = s[1] /\ s[1] \in Task
  BY <1>1
<1>3. /\ Tail(s) \in Seq(Task) /\ Len(Tail(s)) = Len(s) - 1
      /\ \A i \in 1..Len(Tail(s)) : Tail(s)[i] = s[i + 1]
  BY HeadTailProperties
<1>4. DOMAIN Tail(s) = 1..(Len(s) - 1)
  BY <1>3
<1> QED
  BY <1>1, <1>2, <1>3, <1>4

LEMMA TasksKept ==
  ASSUME TypeOK, TypeOK', TaskFacts, [Next]_vars
  PROVE  TaskFacts'
<1>1. ASSUME NEW t \in Task, submit(t) PROVE TaskFacts'
  <2>1. CASE tasks' = tasks
    BY <1>1, <2>1 DEF submit, TaskFacts, TypeOK
  <2>2. CASE tasks' = Append(tasks, t)
    <3>1. /\ DOMAIN tasks' = 1..(Len(tasks) + 1)
          /\ DOMAIN tasks = 1..Len(tasks) /\ Len(tasks) \in Nat
          /\ \A i \in 1..Len(tasks) : tasks'[i] = tasks[i] /\ tasks[i] \in Task
          /\ tasks'[Len(tasks) + 1] = t
      BY <2>2 DEF TypeOK
    <3>2. \A i \in DOMAIN tasks : tasks[i] # t
      BY <1>1 DEF submit, TaskFacts
    <3>3. \A i, j \in DOMAIN tasks' : tasks'[i] = tasks'[j] => i = j
      BY <3>1, <3>2 DEF TaskFacts
    <3>4. \A s \in Task : call[s] \in {"notify", "taken"} => call'[s] = call[s]
      BY <1>1 DEF submit, TypeOK
    <3>5. call'[t] \in {"notify", "taken"}
      BY <1>1, <2>2 DEF submit, TypeOK
    <3>6. \A i \in DOMAIN tasks' : call'[tasks'[i]] \in {"notify", "taken"}
      BY <3>1, <3>4, <3>5 DEF TaskFacts
    <3>7. UNCHANGED <<at, job, finished>> /\ call[t] = "new"
      BY <1>1 DEF submit
    <3>8. \A w \in Worker : at[w] = "run" =>
            \A i \in DOMAIN tasks' : tasks'[i] # job[w]
      BY <3>1, <3>7 DEF TaskFacts
    <3>9. finished \subseteq Task
      BY DEF TypeOK
    <3> QED
      BY <3>3, <3>4, <3>6, <3>7, <3>8, <3>9 DEF TaskFacts
  <2> QED
    BY <1>1, <2>1, <2>2 DEF submit
<1>2. ASSUME NEW t \in Task, notify_one(t) PROVE TaskFacts'
  <2>1. \A w \in Worker : at'[w] = "run" => at[w] = "run"
    BY <1>2 DEF notify_one, TypeOK
  <2>2. UNCHANGED <<tasks, job, finished>>
    BY <1>2 DEF notify_one
  <2>3. \A s \in Task : call[s] \in {"notify", "taken"} => call'[s] \in {"notify", "taken"}
    BY <1>2 DEF notify_one, TypeOK
  <2>4. (\A i \in DOMAIN tasks : tasks[i] \in Task) /\ finished \subseteq Task
    BY DEF TypeOK
  <2> QED
    BY <2>1, <2>2, <2>3, <2>4 DEF TaskFacts
<1>3. ASSUME NEW w \in Worker, CheckQueue(w) PROVE TaskFacts'
  <2>1. CASE tasks = <<>>
    BY <1>3, <2>1 DEF CheckQueue, TaskFacts, TypeOK
  <2>2. CASE tasks # <<>>
    <3>0. tasks' = Tail(tasks) /\ tasks \in Seq(Task)
      BY <1>3, <2>2 DEF CheckQueue, TypeOK
    <3>1. /\ 1 \in DOMAIN tasks /\ Head(tasks) = tasks[1] /\ tasks[1] \in Task
          /\ \A i \in DOMAIN tasks' :
               /\ i \in Nat /\ i + 1 \in DOMAIN tasks /\ i + 1 # 1
               /\ tasks'[i] = tasks[i + 1]
      BY <3>0, <2>2, PopFacts
    <3>2. /\ at' = [at EXCEPT ![w] = "run"]
          /\ job' = [job EXCEPT ![w] = tasks[1]]
          /\ UNCHANGED <<call, finished>>
      BY <1>3, <2>2, <3>1 DEF CheckQueue
    <3>3. /\ \A i, j \in DOMAIN tasks' : tasks'[i] = tasks'[j] => i = j
          /\ \A i \in DOMAIN tasks' : tasks'[i] # tasks[1]
          /\ \A i \in DOMAIN tasks' : call[tasks'[i]] \in {"notify", "taken"}
      <4>1. \A i, j \in DOMAIN tasks' : i + 1 = j + 1 => i = j
        BY <3>1
      <4> QED
        BY <3>1, <4>1 DEF TaskFacts
    <3>4. /\ at'[w] = "run" /\ job'[w] = tasks[1]
          /\ \A x \in Worker \ {w} : at'[x] = at[x] /\ job'[x] = job[x]
      BY <3>2 DEF TypeOK
    <3>5. \A x \in Worker \ {w} : at[x] = "run" =>
            job[x] # tasks[1] /\ \A i \in DOMAIN tasks' : tasks'[i] # job[x]
      BY <3>1 DEF TaskFacts
    <3>6. call[tasks[1]] \in {"notify", "taken"}
      BY <3>1 DEF TaskFacts
    <3> QED
      BY <3>1, <3>2, <3>3, <3>4, <3>5, <3>6 DEF TaskFacts
  <2> QED
    BY <2>1, <2>2
<1>4. ASSUME NEW w \in Worker, SpuriousWakeup(w) PROVE TaskFacts'
  BY <1>4 DEF SpuriousWakeup, TaskFacts, TypeOK
<1>5. ASSUME NEW w \in Worker, FinishTask(w) PROVE TaskFacts'
  BY <1>5 DEF FinishTask, TaskFacts, TypeOK
<1>6. CASE notify_all
  BY <1>6 DEF notify_all, TaskFacts, TypeOK
<1>7. CASE SetStop \/ Join \/ UNCHANGED vars
  BY <1>7 DEF SetStop, Join, vars, TaskFacts
<1> QED
  BY <1>1, <1>2, <1>3, <1>4, <1>5, <1>6, <1>7 DEF Next, Destroyed

-----------------------------------------------------------------------------
(* The theorems. *)

LEMMA InitHolds == ASSUME Init PROVE IInv
<1>1. TypeOK
  <2>1. tasks \in Seq(Task)
    BY DEF Init
  <2> QED
    BY <2>1 DEF Init, TypeOK, Place, Call, Dtor
<1>3. StopFacts
  BY DEF Init, StopFacts, NobodySleepsThroughStop
<1>4. TaskFacts
  <2>1. DOMAIN tasks = {} /\ finished = {} /\ \A w \in Worker : at[w] # "run"
    BY DEF Init
  <2> QED
    BY <2>1 DEF TaskFacts
<1>2. Notifying = {} /\ Asleep = {}
  BY DEF Init, Notifying, Asleep
<1> QED
  BY <1>1, <1>2, <1>3, <1>4, FS_EmptySet DEF IInv, WakeupFacts, NoLostWakeup

\* The conjunction of TypeOK with the order of the destructor's steps, the
\* count of wakeups and the whereabouts of every task is an invariant.
THEOREM InductiveInvariant == Spec => []IInv
<1>1. IInv /\ [Next]_vars => IInv'
  BY TypeKept, StopKept, WakeupsKept, TasksKept DEF IInv
<1> QED
  BY InitHolds, <1>1, PTL DEF Spec

\* The members of the pool keep their types.
THEOREM TypeCorrect == Spec => []TypeOK
BY InductiveInvariant, PTL DEF IInv

\* submit() may notify after it released the mutex: however notifications,
\* spurious wakeups and checks of the queue interleave, no worker sleeps on a
\* task that nobody is about to wake one for.
THEOREM WakeupsAreNotLost == Spec => []NoLostWakeup
BY InductiveInvariant, PTL DEF IInv, WakeupFacts

\* The destructor joins no worker that is asleep.
THEOREM JoinsOnlyAwakeWorkers == Spec => []NobodySleepsThroughStop
BY InductiveInvariant, PTL DEF IInv, StopFacts

-----------------------------------------------------------------------------
(* The pool implements PoolService. *)

Runners == {w \in Worker : at[w] = "run"}

\* Steps that leave Runners and their jobs alone leave Running alone.
LEMMA SameRunning ==
  ASSUME Runners' = Runners, \A w \in Runners : job'[w] = job[w]
  PROVE  Running' = Running
BY DEF Running, Runners

\* A worker that is not running leaves room for one more task in progress.
LEMMA RoomToRun ==
  ASSUME TypeOK, NEW w \in Worker, at[w] # "run"
  PROVE  Cardinality(Running) < Cardinality(Worker)
<1> DEFINE f == [x \in Runners |-> job[x]]
<1>1. IsFiniteSet(Worker \ {w}) /\ Cardinality(Worker \ {w}) = Cardinality(Worker) - 1
  BY PoolAssumption, FS_RemoveElement
<1>2. Runners \in SUBSET (Worker \ {w})
  BY DEF Runners
<1>3. IsFiniteSet(Runners) /\ Cardinality(Runners) <= Cardinality(Worker \ {w})
  BY <1>1, <1>2, FS_Subset
<1>4. f \in Surjection(Runners, Running)
  BY DEF Surjection, Running, Runners
<1>5. IsFiniteSet(Running) /\ Cardinality(Running) <= Cardinality(Runners)
  BY <1>3, <1>4, FS_Surjection
<1>6. /\ Cardinality(Worker) \in Nat /\ Cardinality(Runners) \in Nat
      /\ Cardinality(Running) \in Nat
  BY <1>3, <1>5, PoolAssumption, FS_CardinalityType
<1> QED
  BY <1>1, <1>3, <1>5, <1>6

\* A step of a caller, a worker or the destructor is a step of the service, or
\* one the service does not see.
LEMMA StepSimulates ==
  ASSUME IInv, IInv', [Next]_vars
  PROVE  [Service!SNext]_(Service!service)
<1> USE DEF IInv, Service!service
<1> DEFINE Refused == {t \in Task : call[t] = "refused"}
<1>1. ASSUME NEW t \in Task, submit(t) PROVE Service!Take(t) \/ Service!Refuse(t)
  <2>1. Running' = Running
    BY <1>1, SameRunning DEF submit, Runners
  <2>2. t \notin Service!Known
    BY <1>1 DEF submit, Service!Known, TaskFacts, Running
  <2>3. CASE stop \/ QueueFull
    <3>1. Refused' = Refused \cup {t} /\ tasks' = tasks
      BY <1>1, <2>3 DEF submit, TypeOK
    <3> QED
      BY <1>1, <2>1, <2>2, <2>3, <3>1 DEF submit, Service!Refuse, Service!Full, QueueFull
  <2>4. CASE ~(stop \/ QueueFull)
    <3>1. Refused' = Refused /\ tasks' = Append(tasks, t)
      BY <1>1, <2>4 DEF submit, TypeOK
    <3> QED
      BY <1>1, <2>1, <2>2, <2>4, <3>1 DEF submit, Service!Take, Service!Full, QueueFull
  <2> QED
    BY <2>3, <2>4
<1>2. ASSUME NEW t \in Task, notify_one(t) PROVE UNCHANGED Service!service
  <2>1. Running' = Running
    BY <1>2, SameRunning DEF notify_one, Runners, Asleep, TypeOK
  <2>2. Refused' = Refused
    BY <1>2 DEF notify_one, TypeOK
  <2> QED
    BY <1>2, <2>1, <2>2 DEF notify_one
<1>3. ASSUME NEW w \in Worker, CheckQueue(w)
      PROVE  Service!Begin \/ UNCHANGED Service!service
  <2>1. Refused' = Refused
    BY <1>3 DEF CheckQueue
  <2>2. CASE tasks = <<>>
    <3>1. Running' = Running
      BY <1>3, <2>2, SameRunning DEF CheckQueue, Runners, TypeOK
    <3> QED
      BY <1>3, <2>1, <2>2, <3>1 DEF CheckQueue
  <2>3. CASE tasks # <<>>
    <3>1. Running' = Running \cup {Head(tasks)}
      <4>1. Runners' = Runners \cup {w} /\ w \notin Runners
        BY <1>3, <2>3 DEF CheckQueue, Runners, TypeOK
      <4>2. job'[w] = Head(tasks) /\ \A x \in Worker \ {w} : job'[x] = job[x]
        BY <1>3, <2>3 DEF CheckQueue, TypeOK
      <4> QED
        BY <4>1, <4>2 DEF Running, Runners
    <3>2. Cardinality(Running) < Cardinality(Worker)
      BY <1>3, RoomToRun DEF CheckQueue
    <3>3. tasks' = Tail(tasks) /\ UNCHANGED <<stop, call, dtor, finished>>
      BY <1>3, <2>3 DEF CheckQueue
    <3>4. Service!Cardinality(Running) = Cardinality(Running)
      BY DEF Service!Cardinality, Cardinality
    <3>5. Service!Begin
      BY <2>1, <2>3, <3>1, <3>2, <3>3, <3>4 DEF Service!Begin
    <3> QED
      BY <3>5
  <2> QED
    BY <2>2, <2>3
<1>4. ASSUME NEW w \in Worker, SpuriousWakeup(w) PROVE UNCHANGED Service!service
  <2>1. Running' = Running
    BY <1>4, SameRunning DEF SpuriousWakeup, Runners, TypeOK
  <2> QED
    BY <1>4, <2>1 DEF SpuriousWakeup
<1>5. ASSUME NEW w \in Worker, FinishTask(w) PROVE \E t \in Task : Service!Complete(t)
  <2>1. job[w] \in Task /\ job[w] \in Running
    BY <1>5 DEF FinishTask, TaskFacts, Running
  <2>2. Running' = Running \ {job[w]}
    <3>1. Runners' = Runners \ {w} /\ w \in Runners
      BY <1>5 DEF FinishTask, Runners, TypeOK
    <3>2. \A x \in Worker \ {w} : job'[x] = job[x]
      BY <1>5 DEF FinishTask, TypeOK
    <3>3. \A x \in Runners : job[x] = job[w] => x = w
      BY <1>5 DEF FinishTask, TaskFacts, Runners
    <3> QED
      BY <3>1, <3>2, <3>3 DEF Running, Runners
  <2>3. Service!Complete(job[w])
    BY <1>5, <2>1, <2>2 DEF FinishTask, Service!Complete
  <2> QED
    BY <2>1, <2>3
<1>6. CASE SetStop
  <2>1. Running' = Running /\ ~stop
    BY <1>6, SameRunning DEF SetStop, Runners, StopFacts
  <2>2. Service!Close
    BY <1>6, <2>1 DEF SetStop, Service!Close
  <2> QED
    BY <2>2 DEF Service!SNext
<1>7. CASE notify_all
  <2>1. Running' = Running
    BY <1>7, SameRunning DEF notify_all, Runners, Asleep, TypeOK
  <2> QED
    BY <1>7, <2>1 DEF notify_all
<1>8. CASE Join
  <2>1. tasks = <<>> /\ stop
    BY <1>8, PoolAssumption DEF Join, StopFacts
  <2>2. Running = {} /\ Running' = {}
    BY <1>8 DEF Join, Running
  <2>3. Service!Vanish
    BY <1>8, <2>1, <2>2 DEF Join, Service!Vanish
  <2> QED
    BY <2>3 DEF Service!SNext
<1>9. CASE UNCHANGED vars
  BY <1>9 DEF vars, Running
<1> QED
  BY <1>1, <1>2, <1>3, <1>4, <1>5, <1>6, <1>7, <1>8, <1>9
  DEF Next, Destroyed, Service!SNext

\* Everything a caller of the pool can see, the promises of thread_pool.h allow:
\* tasks start in the order they were taken and at most one per worker, none is
\* dropped or run twice, and the destructor returns only once all have run.
THEOREM PoolImplementsService == Spec => ImplementsService
<1>1. Init => Service!SInit
  BY DEF Init, Service!SInit, Running
<1>2. IInv /\ IInv' /\ [Next]_vars => [Service!SNext]_(Service!service)
  BY StepSimulates
<1> QED
  BY <1>1, <1>2, InductiveInvariant, PTL DEF Spec, ImplementsService, Service!SSpec
=============================================================================
