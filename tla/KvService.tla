----------------------------- MODULE KvService ------------------------------
(***************************************************************************)
(* What a client may rely on, be it connected to a store or to a router    *)
(* with any number of shards: one map, on which each line takes effect     *)
(* whole and at most once, between the moment it is sent and the moment    *)
(* its result is heard.  A line that is answered with an error instead of  *)
(* its result may have taken effect, may never do so, or may do so later.  *)
(***************************************************************************)
EXTENDS Naturals

CONSTANTS Client, Key, Absent, Line,
          NoLine, Nothing, Err,
          Outcomes(_, _),   \* the results a line may have on a map
          Unexecuted(_),    \* the replies a line may get without being executed
          IsWrite(_)        \* the lines that change the map unless refused

VARIABLES store,   \* the map
          doing,   \* the line each client has sent, and what it will hear
          count,   \* how many lines each client has sent
          late     \* the lines that were given up and may still take effect

service == <<store, doing, count, late>>

Idle == [step |-> "idle", line |-> NoLine, reply |-> Nothing]
Asked(l) == [step |-> "asked", line |-> l, reply |-> Nothing]
Answered(l, r) == [step |-> "answered", line |-> l, reply |-> r]

KInit ==
  /\ store = [k \in Key |-> Absent]
  /\ doing = [c \in Client |-> Idle]
  /\ count = [c \in Client |-> 0]
  /\ late = {}

\* Line l takes effect, with result r.
Effect(l, r) ==
  /\ r \in Outcomes(store, l)
  /\ store' = IF r # Err /\ IsWrite(l) THEN [store EXCEPT ![l.key] = l.rest] ELSE store

Becomes(c, d) == doing' = [doing EXCEPT ![c] = d]

\* A line of client c arrives: it waits, is answered without being executed, or
\* is executed at once.
Sends(c) ==
  /\ doing[c] = Idle
  /\ count' = [count EXCEPT ![c] = @ + 1]
  /\ UNCHANGED late

Ask(c, l) == Becomes(c, Asked(l)) /\ UNCHANGED store

Refuse(c, l, r) == Becomes(c, Answered(l, r)) /\ UNCHANGED store

ExecuteAtOnce(c, l, r) == Becomes(c, Answered(l, r)) /\ Effect(l, r)

Execute(c, r) ==
  /\ Becomes(c, Answered(doing[c].line, r))
  /\ Effect(doing[c].line, r)
  /\ UNCHANGED <<count, late>>

\* An error takes the place of the result; a line that had no effect yet is lost
\* or stays behind.
GiveUp(c) ==
  /\ doing[c].step \in {"asked", "answered"}
  /\ Becomes(c, Answered(doing[c].line, Err))
  /\ \/ UNCHANGED late
     \/ /\ doing[c].step = "asked"
        /\ late' = late \cup {[from |-> c, no |-> count[c], line |-> doing[c].line]}
  /\ UNCHANGED <<store, count>>

ExecuteLate(q, r) ==
  /\ late' = late \ {q}
  /\ Effect(q.line, r)
  /\ UNCHANGED <<doing, count>>

\* The client hears the reply, or is gone.
Hear(c) ==
  /\ doing[c].step = "answered"
  /\ Becomes(c, Idle)
  /\ UNCHANGED <<store, count, late>>

Takes(c, l) ==
  \/ Ask(c, l)
  \/ \E r \in Unexecuted(l) : Refuse(c, l, r)
  \/ \E r \in Outcomes(store, l) : ExecuteAtOnce(c, l, r)

KStep ==
  \/ \E c \in Client :
       \/ Sends(c) /\ \E l \in Line : Takes(c, l)
       \/ doing[c].step = "asked" /\ \E r \in Outcomes(store, doing[c].line) : Execute(c, r)
       \/ GiveUp(c) \/ Hear(c)
  \/ \E q \in late : \E r \in Outcomes(store, q.line) : ExecuteLate(q, r)

\* Steps that change nothing are the stuttering of KSpec.
KNext == service' # service /\ KStep

KSpec == KInit /\ [][KNext]_service
=============================================================================
