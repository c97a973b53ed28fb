---------------------------- MODULE PoolService -----------------------------
(***************************************************************************)
(* What the thread pool promises its callers (thread_pool.h), with neither *)
(* threads nor wakeups: tasks are taken or refused on the spot, start in   *)
(* the order they were taken, at most Size at a time, all of them finish,  *)
(* and the pool is gone only once they have.                               *)
(***************************************************************************)
EXTENDS Naturals, Sequences, FiniteSets

CONSTANTS Task, Size, MaxQueue

VARIABLES backlog, running, finished, refused, open, gone

service == <<backlog, running, finished, refused, open, gone>>

Full == MaxQueue # 0 /\ Len(backlog) >= MaxQueue

Known == {backlog[i] : i \in DOMAIN backlog} \cup running \cup finished \cup refused

SInit ==
  /\ backlog = <<>> /\ running = {} /\ finished = {} /\ refused = {}
  /\ open = TRUE /\ gone = FALSE

Take(t) ==
  /\ open /\ ~Full /\ t \notin Known
  /\ backlog' = Append(backlog, t)
  /\ UNCHANGED <<running, finished, refused, open, gone>>

Refuse(t) ==
  /\ ~open \/ Full
  /\ t \notin Known
  /\ refused' = refused \cup {t}
  /\ UNCHANGED <<backlog, running, finished, open, gone>>

Begin ==
  /\ backlog # <<>> /\ Cardinality(running) < Size
  /\ running' = running \cup {Head(backlog)}
  /\ backlog' = Tail(backlog)
  /\ UNCHANGED <<finished, refused, open, gone>>

Complete(t) ==
  /\ t \in running
  /\ running' = running \ {t}
  /\ finished' = finished \cup {t}
  /\ UNCHANGED <<backlog, refused, open, gone>>

Close ==
  /\ open
  /\ open' = FALSE
  /\ UNCHANGED <<backlog, running, finished, refused, gone>>

Vanish ==
  /\ ~open /\ ~gone /\ backlog = <<>> /\ running = {}
  /\ gone' = TRUE
  /\ UNCHANGED <<backlog, running, finished, refused, open>>

SNext ==
  \/ \E t \in Task : Take(t) \/ Refuse(t) \/ Complete(t)
  \/ Begin \/ Close \/ Vanish

SSpec == SInit /\ [][SNext]_service

\* Taken tasks do not wait for ever, and neither does the destructor.
SFairSpec ==
  /\ SSpec
  /\ WF_service(Begin)
  /\ \A t \in Task : WF_service(Complete(t))
  /\ WF_service(Vanish)
=============================================================================
