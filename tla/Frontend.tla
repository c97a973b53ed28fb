------------------------------ MODULE Frontend ------------------------------
(***************************************************************************)
(* A node's front end: the accept loop and handle_client of                *)
(* src/src/server.cpp, the command dispatch of command.cpp and the router  *)
(* of router.cpp.  A node is either a router, which forwards every keyed   *)
(* line to the shard of its key over a connection of its own, or a store   *)
(* that executes the line itself.                                          *)
(*                                                                         *)
(* The thread pool appears as its service (PoolService): a bounded queue   *)
(* of connections and workers that serve them.  A line is its first two    *)
(* tokens and the rest, Absent where there is none; the hash is an         *)
(* arbitrary function ShardOf.  The replication handshake and the Raft     *)
(* RPCs that travel over the same dispatch are in Replication and          *)
(* RaftElection.  Stores are unbounded, as by default, and neither fail to *)
(* read nor restart: eviction, faults and crashes are in WalStore and      *)
(* DiskStore.  Blank lines, INFO, ROLE and PING, which look at no key, and *)
(* an exception (memory exhausted) in a worker are left out.               *)
(***************************************************************************)
EXTENDS Naturals, Sequences, FiniteSets, Functions

CONSTANTS Client, Key, Value, Absent,
          Shard, ShardOf,   \* the shards, and fnv1a(key) % N
          Line,             \* the lines clients may send
          MaxWorkers,       \* threads of the pool, at most
          MaxQueue,         \* connections that may wait for one
          MaxLines          \* bound: lines of all clients

ASSUME FrontendAssumption ==
  /\ IsFiniteSet(Client) /\ Absent \notin Client \cup Key \cup Value
  /\ Shard # {}
  /\ ShardOf \in [Key -> Shard]
  /\ Line \subseteq [verb : {"SET", "GET", "DEL", "EXISTS", "QUIT"},
                     key : Key \cup {Absent}, rest : Value \cup {Absent}]
  /\ MaxWorkers \in Nat \ {0} /\ MaxQueue \in Nat /\ MaxLines \in Nat

VARIABLES
  isRouter, workers,    \* the node's configuration
  acc, queue,           \* the accept loop's client_guard; the pool's queue
  sock, closes,         \* each connection's socket, and how often it was closed
  at, line, reply,      \* its worker: place in handle_client, and its locals
  requests, answer,     \* forwarded lines not yet executed; replies to read
  data,                 \* each shard's store (the node's own one if no router)
  connected,            \* the connected_ gauge of Metrics
  \* History: lines taken up of each client and of all, how often each was
  \* executed, and what each client was promised of each key.
  handled, taken, runs, promised

sockets == <<sock, closes>>
worker == <<at, line, reply>>
shards == <<requests, answer, data>>
history == <<handled, taken, runs, promised>>
config == <<isRouter, workers>>
vars == <<config, acc, queue, sockets, worker, shards, connected, history>>

NoLine == [verb |-> "none", key |-> Absent, rest |-> Absent]
Reply(kind) == [kind |-> kind, val |-> Absent]
Nothing == Reply("none")
Err == Reply("ERR")
NoConn == [conn |-> Absent, step |-> "accept"]
Unknown == [val |-> {}]
Known(v) == [val |-> {v}]

Serving == {c \in Client : at[c] # "none"}

Init ==
  /\ isRouter \in BOOLEAN /\ workers \in 1..MaxWorkers
  /\ acc = NoConn /\ queue = <<>>
  /\ sock = [c \in Client |-> "none"] /\ closes = [c \in Client |-> 0]
  /\ at = [c \in Client |-> "none"]
  /\ line = [c \in Client |-> NoLine] /\ reply = [c \in Client |-> Nothing]
  /\ requests = {} /\ answer = [c \in Client |-> Nothing]
  /\ data = [s \in Shard |-> [k \in Key |-> Absent]]
  /\ connected = 0
  /\ handled = [c \in Client |-> 0] /\ taken = 0
  /\ runs = [id \in Client \X (1..MaxLines) |-> 0]
  /\ promised = [c \in Client |-> [k \in Key |-> Unknown]]

-----------------------------------------------------------------------------
(* The accept loop.  client_guard owns the socket until submit() succeeded;   *)
(* by then a worker may already have served and closed it.                    *)

Accept(c) ==
  /\ acc = NoConn
  /\ sock[c] = "none"
  /\ sock' = [sock EXCEPT ![c] = "open"]
  /\ acc' = [conn |-> c, step |-> "submit"]
  /\ UNCHANGED <<config, queue, closes, worker, shards, connected, history>>

CloseSocket(c) ==
  /\ sock' = [sock EXCEPT ![c] = "closed"]
  /\ closes' = [closes EXCEPT ![c] = @ + 1]

\* The pool takes the connection; or its queue is full, or there is no memory
\* for the task, and the client is turned away.
Submit ==
  /\ acc.step = "submit"
  /\ \/ /\ Len(queue) < MaxQueue
        /\ queue' = Append(queue, acc.conn)
        /\ acc' = [acc EXCEPT !.step = "release"]
        /\ UNCHANGED sockets
     \/ /\ CloseSocket(acc.conn)
        /\ acc' = NoConn
        /\ queue' = queue
  /\ UNCHANGED <<config, worker, shards, connected, history>>

GuardStillOwns ==
  /\ acc.step = "release"
  /\ CloseSocket(acc.conn)
  /\ acc' = NoConn
  /\ UNCHANGED <<config, queue, worker, shards, connected, history>>

Release ==
  /\ acc.step = "release"
  /\ acc' = NoConn
  /\ UNCHANGED <<config, queue, sockets, worker, shards, connected, history>>

\* A free worker takes the oldest connection; ConnectionScope counts it.
Begin ==
  /\ queue # <<>> /\ Cardinality(Serving) < workers
  /\ queue' = Tail(queue)
  /\ at' = [at EXCEPT ![Head(queue)] = "recv"]
  /\ connected' = connected + 1
  /\ UNCHANGED <<config, acc, sockets, line, reply, shards, history>>

-----------------------------------------------------------------------------
(* execute_line on a shard's (or the node's own) store. *)

WellFormed(l) ==
  \/ l.verb = "SET" /\ l.key # Absent /\ l.rest # Absent
  \/ l.verb \in {"GET", "DEL", "EXISTS"} /\ l.key # Absent /\ l.rest = Absent
  \/ l.verb = "QUIT" /\ l.key = Absent /\ l.rest = Absent

IsWrite(l) == l.verb \in {"SET", "DEL"} /\ WellFormed(l)

\* The reply to a well-formed line.
Result(map, l) ==
  CASE l.verb = "GET" -> IF map[l.key] = Absent THEN Reply("(nil)")
                         ELSE [kind |-> "value", val |-> map[l.key]]
    [] l.verb \in {"DEL", "EXISTS"} -> Reply(IF map[l.key] = Absent THEN "0" ELSE "1")
    [] OTHER -> Reply("OK")

\* A write is a promise to the client that waits for its reply, and overtakes
\* what the others know of the key.
Noted(k, v, owner) ==
  [c \in Client |-> [promised[c] EXCEPT ![k] = IF c = owner THEN Known(v) ELSE Unknown]]

\* A write is refused by a read-only replica, by a node that is not the Raft
\* leader, and when the log fails.
MayRefuse(l) == ~WellFormed(l) \/ IsWrite(l)

Outcomes(map, l) ==
  (IF WellFormed(l) THEN {Result(map, l)} ELSE {})
    \cup (IF MayRefuse(l) THEN {Err} ELSE {})

\* Execution of line l, number i of client c, on shard s with result r; `owner`
\* is c as long as c is waiting for it.
execute_line(s, c, i, l, owner, r) ==
  /\ runs' = [runs EXCEPT ![<<c, i>>] = @ + 1]
  /\ \/ /\ r = Err \/ ~IsWrite(l)
        /\ UNCHANGED <<data, promised>>
     \/ /\ r # Err /\ IsWrite(l)
        /\ data' = [data EXCEPT ![s][l.key] = l.rest]
        /\ promised' = Noted(l.key, l.rest, owner)

-----------------------------------------------------------------------------
(* handle_client, by the worker that serves connection c. *)

HashesValue(l) ==
  IF l.rest = Absent THEN ShardOf[l.key] ELSE CHOOSE s \in Shard : s # ShardOf[l.key]

\* Where the router sends a line: it looks at the key only.
Home(l) == ShardOf[l.key]

Own == CHOOSE s \in Shard : TRUE

\* Lines a router answers itself.
IsLocal(l) == l.verb = "QUIT" \/ l.key = Absent

\* The next line of client c is read.  What the client sends, and when, is open.
TakeLine(c, l) ==
  /\ at[c] = "recv"
  /\ taken < MaxLines
  /\ line' = [line EXCEPT ![c] = l]
  /\ handled' = [handled EXCEPT ![c] = @ + 1] /\ taken' = taken + 1

\* route_line: QUIT, or a line it cannot route.
AnswerLocally(c, l) ==
  /\ TakeLine(c, l)
  /\ isRouter /\ IsLocal(l)
  /\ reply' = [reply EXCEPT ![c] = IF l.verb = "QUIT" THEN Reply("OK") ELSE Err]
  /\ at' = [at EXCEPT ![c] = "send"]
  /\ UNCHANGED <<config, acc, queue, sockets, shards, connected, runs, promised>>

\* A node that is no router executes the line on its own store.
ExecuteHere(c, l) ==
  /\ TakeLine(c, l)
  /\ ~isRouter
  /\ \E r \in Outcomes(data[Own], l) :
       /\ execute_line(Own, c, handled[c] + 1, l, c, r)
       /\ reply' = [reply EXCEPT ![c] = r]
  /\ at' = [at EXCEPT ![c] = "send"]
  /\ UNCHANGED <<config, acc, queue, sockets, requests, answer, connected>>

\* Router::forward: no connection to the shard, or the line is on its way.
Forward(c, l) ==
  /\ TakeLine(c, l)
  /\ isRouter /\ ~IsLocal(l)
  /\ \/ /\ requests' = requests \cup {[from |-> c, no |-> handled[c] + 1, line |-> l]}
        /\ at' = [at EXCEPT ![c] = "wait"]
        /\ reply' = reply
     \/ /\ reply' = [reply EXCEPT ![c] = Err]
        /\ at' = [at EXCEPT ![c] = "send"]
        /\ requests' = requests
  /\ UNCHANGED <<config, acc, queue, sockets, answer, data, connected, runs, promised>>

Awaited(q) == at[q.from] = "wait" /\ handled[q.from] = q.no

\* A worker of the shard reads and executes a forwarded line, also one whose
\* router has given up on it and closed the connection.
ShardExecutes(q) ==
  /\ q \in requests
  /\ requests' = requests \ {q}
  /\ \E r \in Outcomes(data[Home(q.line)], q.line) :
       /\ execute_line(Home(q.line), q.from, q.no, q.line,
                       IF Awaited(q) THEN q.from ELSE Absent, r)
       /\ answer' = [answer EXCEPT ![q.from] = IF Awaited(q) THEN r ELSE @]
  /\ UNCHANGED <<config, acc, queue, sockets, worker, connected, handled, taken>>

ReadAnswer(c) ==
  /\ at[c] = "wait" /\ answer[c] # Nothing
  /\ reply' = [reply EXCEPT ![c] = answer[c]]
  /\ answer' = [answer EXCEPT ![c] = Nothing]
  /\ at' = [at EXCEPT ![c] = "send"]
  /\ UNCHANGED <<config, acc, queue, sockets, line, requests, data, connected, history>>

RetriesForward(c) ==
  /\ at[c] = "wait"
  /\ requests' = requests \cup {[from |-> c, no |-> handled[c], line |-> line[c]]}
  /\ answer' = [answer EXCEPT ![c] = Nothing]
  /\ UNCHANGED <<config, acc, queue, sockets, worker, data, connected, history>>

\* The send or the wait for the reply fails or times out.  The line may be lost,
\* may have been executed, or may still wait at the shard.
ForwardFails(c) ==
  /\ at[c] = "wait"
  /\ requests' \in {requests, {q \in requests : ~(q.from = c /\ q.no = handled[c])}}
  /\ reply' = [reply EXCEPT ![c] = Err]
  /\ answer' = [answer EXCEPT ![c] = Nothing]
  /\ at' = [at EXCEPT ![c] = "send"]
  /\ UNCHANGED <<config, acc, queue, sockets, line, data, connected, history>>

\* A client told that its write failed knows nothing of the key.
Promise(c) ==
  IF IsWrite(line[c]) /\ reply[c] = Err
  THEN [promised EXCEPT ![c][line[c].key] = Unknown] ELSE promised

ShouldClose(l) == l.verb = "QUIT" /\ (isRouter \/ WellFormed(l))

\* send_line succeeds, or fails on a client that left or does not read.
SendReply(c) ==
  /\ at[c] = "send"
  /\ \E ok \in BOOLEAN :
       at' = [at EXCEPT ![c] = IF ok /\ ~ShouldClose(line[c]) THEN "recv" ELSE "close"]
  /\ line' = [line EXCEPT ![c] = NoLine]
  /\ reply' = [reply EXCEPT ![c] = Nothing]
  /\ promised' = Promise(c)
  /\ UNCHANGED <<config, acc, queue, sockets, shards, connected, handled, taken, runs>>

NoIdleTimeout(c) ==
  /\ at[c] = "recv"
  /\ handled[c] > 0
  /\ at' = [at EXCEPT ![c] = "close"]
  /\ UNCHANGED <<config, acc, queue, sockets, line, reply, shards, connected, history>>

\* recv() fails: the client left, or has been idle for too long; or an endless
\* line is refused.
Leave(c) ==
  /\ at[c] = "recv"
  /\ at' = [at EXCEPT ![c] = "close"]
  /\ UNCHANGED <<config, acc, queue, sockets, line, reply, shards, connected, history>>

ForgetsToCount(c) ==
  /\ at[c] = "close"
  /\ CloseSocket(c)
  /\ at' = [at EXCEPT ![c] = "none"]
  /\ UNCHANGED <<config, acc, queue, line, reply, shards, connected, history>>

\* ConnectionScope's destructor; the worker is free again.
CloseConnection(c) ==
  /\ at[c] = "close"
  /\ CloseSocket(c)
  /\ at' = [at EXCEPT ![c] = "none"]
  /\ connected' = connected - 1
  /\ promised' = [promised EXCEPT ![c] = [k \in Key |-> Unknown]]
  /\ UNCHANGED <<config, acc, queue, line, reply, shards, handled, taken, runs>>

-----------------------------------------------------------------------------
TakesUp(c, l) == AnswerLocally(c, l) \/ ExecuteHere(c, l) \/ Forward(c, l)

WorkerStep(c) ==
  \/ ReadAnswer(c) \/ ForwardFails(c) \/ SendReply(c)
  \/ Leave(c) \/ CloseConnection(c)

Next ==
  \/ \E c \in Client : Accept(c) \/ WorkerStep(c)
  \/ \E c \in Client, l \in Line : TakesUp(c, l)
  \/ Submit \/ Release \/ Begin
  \/ \E q \in requests : ShardExecutes(q)

Spec == Init /\ [][Next]_vars

\* Threads are scheduled, and no wait of a worker is endless: recv, send and the
\* wait for a shard all have a timeout (the idle timeout is on, as by default).
\* Shards and clients owe nothing.
FairSpec ==
  /\ Spec
  /\ WF_vars(Submit) /\ WF_vars(Release) /\ WF_vars(Begin)
  /\ \A c \in Client : WF_vars(WorkerStep(c))

-----------------------------------------------------------------------------
(* Properties. *)

Answers == [kind : {"none", "OK", "ERR", "(nil)", "0", "1"}, val : {Absent}]
             \cup [kind : {"value"}, val : Value]

Place == {"none", "recv", "wait", "send", "close"}

\* The types; and the connected gauge is the number of connections served, of
\* which there are never more than workers.
TypeOK ==
  /\ isRouter \in BOOLEAN /\ workers \in 1..MaxWorkers
  /\ acc.conn \in Client \cup {Absent} /\ acc.step \in {"accept", "submit", "release"}
  /\ queue \in Seq(Client) /\ Len(queue) <= MaxQueue
  /\ sock \in [Client -> {"none", "open", "closed"}]
  /\ closes \in [Client -> Nat]
  /\ at \in [Client -> Place]
  /\ line \in [Client -> Line \cup {NoLine}]
  /\ reply \in [Client -> Answers] /\ answer \in [Client -> Answers]
  /\ requests \subseteq [from : Client, no : 1..MaxLines, line : Line]
  /\ data \in [Shard -> [Key -> Value \cup {Absent}]]
  /\ connected = Cardinality(Serving) /\ connected <= workers

\* Every socket accepted has somebody who will close it, and is closed once,
\* although the accept loop lets go of it only after a worker may have served
\* and closed it (server.cpp: "the task now owns the socket").
SocketClosedOnce ==
  \A c \in Client :
    /\ closes[c] <= 1
    /\ sock[c] = "open" => \/ acc = [conn |-> c, step |-> "submit"]
                            \/ c \in Range(queue)
                            \/ c \in Serving

\* No line is executed twice, whatever times out on its way; one that is
\* answered with a shard's result has been executed.
ExecutedOnce ==
  /\ \A id \in DOMAIN runs : runs[id] <= 1
  /\ \A c \in Client :
       at[c] = "send" /\ line[c].verb # "QUIT" /\ reply[c] # Err
         => runs[<<c, handled[c]>>] = 1

\* "after you SET user:1 on shard 0, a later GET user:1 is sent to shard 0 and
\* finds it" (PHASE7.md): GET and EXISTS answer with what their client last wrote
\* with success, unless another client's write, or a write that it was told had
\* failed, has been executed since.
ReadYourWrites ==
  \A c \in Client :
    /\ at[c] = "send" /\ line[c].verb = "GET" /\ reply[c] # Err
         => promised[c][line[c].key] \in {Unknown, Known(reply[c].val)}
    /\ at[c] = "send" /\ line[c].verb = "EXISTS" /\ reply[c].kind = "1"
         => promised[c][line[c].key] # Known(Absent)
    /\ at[c] = "send" /\ line[c].verb = "EXISTS" /\ reply[c].kind = "0"
         => promised[c][line[c].key] \in {Unknown, Known(Absent)}

\* A connection in the queue gets a worker, however many idle clients, clients
\* that do not read and silent shards hold the workers.  A client that never
\* stops sending lines does keep its worker: MaxLines rules it out.
QueuedIsServed ==
  \A c \in Client : c \in Range(queue) ~> c \in Serving

-----------------------------------------------------------------------------
(* What a client may rely on. *)

\* The one map that the shards, or the node's own store, make up together.
Store == [k \in Key |-> data[IF isRouter THEN ShardOf[k] ELSE Own][k]]

Doing ==
  [c \in Client |->
    [step |-> CASE at[c] = "send" -> "answered"
                [] at[c] = "wait" -> IF answer[c] = Nothing THEN "asked" ELSE "answered"
                [] OTHER -> "idle",
     line |-> line[c],
     reply |-> IF at[c] = "wait" THEN answer[c] ELSE reply[c]]]

Late == {q \in requests : ~Awaited(q)}

\* A router, or a store on a bad day, refuses a line; a router bids farewell.
Unexecuted(l) == {Err} \cup (IF l.verb = "QUIT" THEN {Reply("OK")} ELSE {})

K == INSTANCE KvService WITH store <- Store, doing <- Doing, count <- handled, late <- Late

\* Sharding is transparent: a router with its shards, their timeouts and lines
\* that are executed after the router gave up is, to its clients, the same map a
\* single store is, on which each line takes effect at most once and before its
\* result is heard (router.h: "a given key always maps to the same
\* shard").
ImplementsKv == K!KSpec
=============================================================================
