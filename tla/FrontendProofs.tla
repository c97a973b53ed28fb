--------------------------- MODULE FrontendProofs ---------------------------
(***************************************************************************)
(* Theorems about Frontend, for any finite set of clients, any keys,       *)
(* values, shards and hash function, and any size of pool and queue.       *)
(*                                                                         *)
(* SockFacts says who holds a socket: the accept loop, the queue or one    *)
(* worker, and nobody once it is closed.  RunFacts says that a line still  *)
(* on its way to a shard has never been executed, and that the answer a    *)
(* worker waits for or is about to send comes from an execution.  DataFacts *)
(* ties what a client was promised of a key to the store of that key's     *)
(* shard, and AnswerFacts an answer that is under way to the promise.      *)
(* AskedFacts, used for the refinement of KvService only, says where the   *)
(* line is that a worker waits for.                                        *)
(***************************************************************************)
EXTENDS Frontend, FiniteSetTheorems, TLAPS

Submitting(c) == acc = [conn |-> c, step |-> "submit"]
Queued(c) == \E i \in 1..Len(queue) : queue[i] = c

SocketOK(c) ==
  /\ closes[c] = IF sock[c] = "closed" THEN 1 ELSE 0
  /\ sock[c] = "open" <=> Submitting(c) \/ Queued(c) \/ at[c] # "none"
  /\ ~(Submitting(c) /\ Queued(c))
  /\ at[c] # "none" => ~Submitting(c) /\ ~Queued(c)

SockFacts ==
  /\ acc \in [conn : Client, step : {"submit", "release"}] \cup {NoConn}
  /\ \A i, j \in 1..Len(queue) : queue[i] = queue[j] => i = j
  /\ \A c \in Client : SocketOK(c)

RunFacts ==
  /\ taken \in 0..MaxLines
  /\ handled \in [Client -> 0..MaxLines] /\ \A c \in Client : handled[c] <= taken
  /\ runs \in [Client \X (1..MaxLines) -> {0, 1}]
  /\ \A c \in Client : \A i \in 1..MaxLines : i > handled[c] => runs[<<c, i>>] = 0
  /\ \A q \in requests : q.no <= handled[q.from] /\ runs[<<q.from, q.no>>] = 0
  /\ \A q, r \in requests : q.from = r.from /\ q.no = r.no => q = r
  /\ \A c \in Client :
       /\ at[c] \in {"wait", "send"} => handled[c] \in 1..MaxLines /\ line[c] \in Line
       /\ at[c] = "wait" => isRouter
       /\ at[c] # "wait" => answer[c] = Nothing
       /\ answer[c] # Nothing => runs[<<c, handled[c]>>] = 1

\* Where key k is kept.
Loc(k) == IF isRouter THEN ShardOf[k] ELSE Own

Promises == {Unknown} \cup {Known(v) : v \in Value \cup {Absent}}

DataFacts ==
  /\ promised \in [Client -> [Key -> Promises]]
  /\ \A c \in Client, k \in Key, v \in Value \cup {Absent} :
       promised[c][k] = Known(v) => data[Loc(k)][k] = v

\* Reply r to line l agrees with what client c was promised.
Agrees(c, l, r) ==
  l.verb \in {"GET", "EXISTS"} /\ r \notin {Err, Nothing} =>
    /\ l.key \in Key
    /\ l.verb = "GET" => promised[c][l.key] \in {Unknown, Known(r.val)}
    /\ l.verb = "EXISTS" /\ r.kind = "1" => promised[c][l.key] # Known(Absent)
    /\ l.verb = "EXISTS" /\ r.kind = "0" => promised[c][l.key] \in {Unknown, Known(Absent)}

AnswerFacts ==
  /\ \A q \in requests : isRouter /\ ~IsLocal(q.line) /\ (Awaited(q) => q.line = line[q.from])
  /\ \A c \in Client :
       /\ at[c] = "wait" => Agrees(c, line[c], answer[c])
       /\ at[c] = "send" => reply[c] # Nothing /\ Agrees(c, line[c], reply[c])

Typed ==
  /\ isRouter \in BOOLEAN /\ workers \in 1..MaxWorkers
  /\ queue \in Seq(Client) /\ Len(queue) <= MaxQueue
  /\ sock \in [Client -> {"none", "open", "closed"}]
  /\ closes \in [Client -> Nat]
  /\ at \in [Client -> Place]
  /\ line \in [Client -> Line \cup {NoLine}]
  /\ reply \in [Client -> Answers] /\ answer \in [Client -> Answers]
  /\ requests \subseteq [from : Client, no : 1..MaxLines, line : Line]
  /\ data \in [Shard -> [Key -> Value \cup {Absent}]]

Counted == connected = Cardinality(Serving) /\ connected <= workers

IInv == /\ Typed /\ Counted /\ SockFacts
        /\ RunFacts /\ ExecutedOnce /\ DataFacts /\ AnswerFacts
-----------------------------------------------------------------------------
(* What a step that leaves something alone keeps. *)

LEMMA ServingIsFinite == IsFiniteSet(Serving) /\ Cardinality(Serving) \in Nat
<1>1. Serving \subseteq Client
  BY Zenon DEF Serving
<1> QED  BY <1>1, FS_Subset, FS_CardinalityType, FrontendAssumption, Zenon

\* The worker of no connection begins or ends.
LEMMA SameSockets ==
  ASSUME Counted, SockFacts, UNCHANGED <<workers, acc, queue, sock, closes, connected>>,
         \A c \in Client : at'[c] = "none" <=> at[c] = "none"
  PROVE  Counted' /\ SockFacts'
<1>1. Serving' = Serving
  BY Zenon DEF Serving
<1>2. Counted'
  BY <1>1, Zenon DEF Counted
<1>3. SockFacts'
  BY DEF SockFacts, SocketOK, Submitting, Queued
<1> QED  BY <1>2, <1>3, Zenon

LEMMA SameRuns ==
  ASSUME RunFacts, ExecutedOnce,
         UNCHANGED <<isRouter, line, reply, requests, answer, handled, taken, runs>>,
         \A c \in Client : at'[c] # at[c] =>
            {at[c], at'[c]} \subseteq {"none", "recv", "close"}
  PROVE  RunFacts' /\ ExecutedOnce'
<1>1. RunFacts'
  BY Zenon DEF RunFacts
<1>2. ExecutedOnce'
  BY Zenon DEF ExecutedOnce
<1> QED  BY <1>1, <1>2, Zenon

LEMMA SameAnswers ==
  ASSUME AnswerFacts,
         UNCHANGED <<isRouter, line, reply, requests, answer, handled, promised>>,
         \A c \in Client : at'[c] # at[c] =>
            {at[c], at'[c]} \subseteq {"none", "recv", "close"},
         requests \subseteq [from : Client, no : 1..MaxLines, line : Line]
  PROVE  AnswerFacts'
<1>1. \A c, l, r : Agrees(c, l, r)' = Agrees(c, l, r)
  BY DEF Agrees
<1>2. \A q \in requests : Awaited(q)' <=> Awaited(q)
  BY Zenon DEF Awaited
<1> QED  BY <1>1, <1>2 DEF AnswerFacts, Awaited, Agrees

LEMMA SameData ==
  ASSUME DataFacts, UNCHANGED <<isRouter, data, promised>>
  PROVE  DataFacts'
  BY Zenon DEF DataFacts, Loc

-----------------------------------------------------------------------------
(* The accept loop. *)

LEMMA RecordsDiffer ==
  ASSUME NEW c, NEW d, NEW s, NEW r
  PROVE  /\ [conn |-> c, step |-> s] = [conn |-> d, step |-> r] <=> c = d /\ s = r
         /\ s # "accept" => [conn |-> c, step |-> s] # NoConn
  BY Zenon DEF NoConn

LEMMA AcceptKeepsIInv ==
  ASSUME IInv, NEW c \in Client, Accept(c)
  PROVE  IInv'
<1> USE DEF IInv
<1>1. /\ sock' \in [Client -> {"none", "open", "closed"}]
      /\ \A d \in Client : sock'[d] = IF d = c THEN "open" ELSE sock[d]
      /\ acc = NoConn /\ acc' = [conn |-> c, step |-> "submit"] /\ sock[c] = "none"
      /\ UNCHANGED <<isRouter, workers, queue, closes, at, line, reply, requests, answer,
                     data, connected, handled, taken, runs, promised>>
  BY Zenon DEF Typed, Accept, config, worker, shards, history
<1>2. Typed'
  BY <1>1, Zenon DEF Typed
<1>3. Counted'
  BY <1>1, Zenon DEF Counted, Serving
<1>4. SockFacts'
  <2>1. \A d \in Client : ~Submitting(d) /\ (Submitting(d)' <=> d = c)
    BY <1>1, RecordsDiffer, Zenon DEF Submitting
  <2>2. \A d \in Client : Queued(d)' <=> Queued(d)
    BY <1>1, Zenon DEF Queued
  <2>3. at[c] = "none" /\ ~Queued(c) /\ closes[c] = 0
    BY <1>1, Zenon DEF SockFacts, SocketOK
  <2>4. acc' \in [conn : Client, step : {"submit", "release"}] \cup {NoConn}
    BY <1>1, Zenon
  <2>5. \A i, j \in 1..Len(queue') : queue'[i] = queue'[j] => i = j
    BY <1>1, Zenon DEF SockFacts
  <2>6. \A d \in Client : SocketOK(d)'
    BY <1>1, <2>1, <2>2, <2>3, Zenon DEF SockFacts, SocketOK
  <2> QED  BY <2>4, <2>5, <2>6, Zenon DEF SockFacts
<1>5. RunFacts' /\ ExecutedOnce'
  BY <1>1, SameRuns, Zenon
<1>6. DataFacts' /\ AnswerFacts'
  BY <1>1, SameData, SameAnswers, Zenon DEF Typed
<1> QED  BY <1>2, <1>3, <1>4, <1>5, <1>6, Zenon

\* The task joins the queue.
LEMMA QueuedAfterAppend ==
  ASSUME NEW q \in Seq(Client), NEW c \in Client
  PROVE  LET p == Append(q, c) IN
         /\ p \in Seq(Client) /\ Len(p) = Len(q) + 1
         /\ \A i \in 1..Len(q) : p[i] = q[i]
         /\ p[Len(q) + 1] = c
  OBVIOUS

LEMMA SubmitKeepsIInv ==
  ASSUME IInv, Submit
  PROVE  IInv'
<1> USE DEF IInv
<1>1. PICK c \in Client : acc = [conn |-> c, step |-> "submit"]
  BY DEF SockFacts, Submit, NoConn
<1>2. /\ UNCHANGED <<isRouter, workers, at, line, reply, requests, answer,
                     data, connected, handled, taken, runs, promised>>
      /\ acc.conn = c
  BY <1>1, Zenon DEF Submit, config, worker, shards, history
<1>3. \A d \in Client : Submitting(d) <=> d = c
  BY <1>1, RecordsDiffer, Zenon DEF Submitting
<1>4. sock[c] = "open" /\ ~Queued(c) /\ at[c] = "none" /\ closes[c] = 0
  BY <1>3, Zenon DEF SockFacts, SocketOK
<1>5. Typed' /\ SockFacts'
  <2>1. CASE /\ Len(queue) < MaxQueue /\ queue' = Append(queue, c)
             /\ acc' = [conn |-> c, step |-> "release"] /\ UNCHANGED <<sock, closes>>
    <3>1. /\ queue' \in Seq(Client) /\ Len(queue') = Len(queue) + 1 /\ Len(queue) \in Nat
          /\ \A i \in 1..Len(queue) : queue'[i] = queue[i]
          /\ queue'[Len(queue) + 1] = c
      BY <2>1, QueuedAfterAppend DEF Typed
    <3>2. Len(queue') <= MaxQueue
      BY <2>1, <3>1, FrontendAssumption
    <3>3. Typed'
      BY <1>2, <2>1, <3>1, <3>2, Zenon DEF Typed
    <3>4. \A d \in Client : ~Submitting(d)'
      BY <2>1, RecordsDiffer, Zenon DEF Submitting
    <3>5. 1..Len(queue') = (1..Len(queue)) \cup {Len(queue) + 1}
      BY <3>1
    <3>6. \A d \in Client : Queued(d)' <=> d = c \/ Queued(d)
      BY <3>1, <3>5, Zenon DEF Queued
    <3>7. \A i, j \in 1..Len(queue') : queue'[i] = queue'[j] => i = j
      BY <1>4, <3>1, <3>5 DEF SockFacts, Queued
    <3>8. \A d \in Client : SocketOK(d)'
      BY <1>2, <1>3, <1>4, <2>1, <3>4, <3>6, Zenon DEF SockFacts, SocketOK
    <3>9. acc' \in [conn : Client, step : {"submit", "release"}] \cup {NoConn}
      BY <2>1, Zenon
    <3> QED  BY <3>3, <3>7, <3>8, <3>9, Zenon DEF SockFacts
  <2>2. CASE CloseSocket(c) /\ acc' = NoConn /\ queue' = queue
    <3>1. /\ sock' \in [Client -> {"none", "open", "closed"}] /\ closes' \in [Client -> Nat]
          /\ \A d \in Client : /\ sock'[d] = IF d = c THEN "closed" ELSE sock[d]
                               /\ closes'[d] = IF d = c THEN 1 ELSE closes[d]
      BY <1>4, <2>2 DEF Typed, CloseSocket
    <3>2. Typed'
      BY <1>2, <2>2, <3>1, Zenon DEF Typed
    <3>3. \A d \in Client : ~Submitting(d)' /\ (Queued(d)' <=> Queued(d))
      BY <2>2, RecordsDiffer, Zenon DEF Submitting, Queued
    <3>4. \A d \in Client : SocketOK(d)'
      BY <1>2, <1>3, <1>4, <3>1, <3>3 DEF SockFacts, SocketOK
    <3>5. /\ acc' \in [conn : Client, step : {"submit", "release"}] \cup {NoConn}
          /\ \A i, j \in 1..Len(queue') : queue'[i] = queue'[j] => i = j
      BY <2>2, Zenon DEF SockFacts
    <3> QED  BY <3>2, <3>4, <3>5, Zenon DEF SockFacts
  <2> QED  BY <1>1, <1>2, <2>1, <2>2, Zenon DEF Submit, sockets
<1>6. Counted'
  BY <1>2, Zenon DEF Counted, Serving
<1>7. RunFacts' /\ ExecutedOnce'
  BY <1>2, SameRuns, Zenon
<1>8. DataFacts' /\ AnswerFacts'
  BY <1>2, SameData, SameAnswers, Zenon DEF Typed
<1> QED  BY <1>5, <1>6, <1>7, <1>8, Zenon

LEMMA ReleaseKeepsIInv ==
  ASSUME IInv, Release
  PROVE  IInv'
<1> USE DEF IInv
<1>1. /\ acc' = NoConn /\ acc.step = "release"
      /\ UNCHANGED <<isRouter, workers, queue, sock, closes, at, line, reply, requests, answer,
                     data, connected, handled, taken, runs, promised>>
  BY Zenon DEF Release, config, sockets, worker, shards, history
<1>2. Typed' /\ Counted'
  BY <1>1, Zenon DEF Typed, Counted, Serving
<1>3. \A d \in Client : ~Submitting(d)' /\ ~Submitting(d) /\ (Queued(d)' <=> Queued(d))
  BY <1>1, RecordsDiffer DEF Submitting, Queued
<1>4. \A d \in Client : SocketOK(d)'
  BY <1>1, <1>3, Zenon DEF SockFacts, SocketOK
<1>5. SockFacts'
  BY <1>1, <1>4, Zenon DEF SockFacts
<1>6. RunFacts' /\ ExecutedOnce'
  BY <1>1, SameRuns, Zenon
<1>7. DataFacts' /\ AnswerFacts'
  BY <1>1, SameData, SameAnswers, Zenon DEF Typed
<1> QED  BY <1>2, <1>5, <1>6, <1>7, Zenon

\* The oldest task leaves the queue.
LEMMA QueuedAfterTail ==
  ASSUME NEW q \in Seq(Client), q # <<>>
  PROVE  /\ Head(q) = q[1] /\ q[1] \in Client
         /\ Tail(q) \in Seq(Client) /\ Len(q) \in Nat \ {0} /\ Len(Tail(q)) = Len(q) - 1
         /\ \A i \in 1..Len(q) - 1 : Tail(q)[i] = q[i + 1]
  OBVIOUS

LEMMA BeginKeepsIInv ==
  ASSUME IInv, Begin
  PROVE  IInv'
<1> USE DEF IInv
<1>0. PICK c \in Client : c = queue[1] /\ Head(queue) = c
  BY QueuedAfterTail, Zenon DEF Begin, Typed
<1>1. /\ Len(queue) \in Nat \ {0}
      /\ queue' \in Seq(Client) /\ Len(queue') = Len(queue) - 1
      /\ \A i \in 1..Len(queue) - 1 : queue'[i] = queue[i + 1]
  BY QueuedAfterTail, Zenon DEF Begin, Typed
<1>2. /\ at' \in [Client -> Place]
      /\ \A d \in Client : at'[d] = IF d = c THEN "recv" ELSE at[d]
      /\ connected' = connected + 1 /\ Cardinality(Serving) < workers
      /\ UNCHANGED <<isRouter, workers, acc, sock, closes, line, reply, requests, answer,
                     data, handled, taken, runs, promised>>
  BY <1>0, Zenon DEF Begin, Typed, Place, config, sockets, shards, history
<1>3. Queued(c)
  BY <1>0, <1>1 DEF Queued
<1>4. at[c] = "none" /\ ~Submitting(c) /\ sock[c] = "open"
  BY <1>1, <1>3, Zenon DEF SockFacts, SocketOK
<1>5. Typed'
  <2>1. Len(queue') <= MaxQueue
    BY <1>1, FrontendAssumption DEF Typed
  <2> QED  BY <1>1, <1>2, <2>1, Zenon DEF Typed
<1>6. Counted'
  <2>1. Serving' = Serving \cup {c} /\ c \notin Serving
    BY <1>1, <1>2, <1>4, Zenon DEF Serving
  <2>2. Cardinality(Serving') = Cardinality(Serving) + 1
    BY <2>1, ServingIsFinite, FS_AddElement, Zenon
  <2>3. workers \in Nat /\ Cardinality(Serving) \in Nat
    BY ServingIsFinite DEF Typed
  <2> QED  BY <1>2, <2>2, <2>3 DEF Counted
<1>7. SockFacts'
  <2>1. \A i \in 1..Len(queue') : i + 1 \in 1..Len(queue) /\ queue'[i] = queue[i + 1]
    BY <1>1
  <2>2. \A i, j \in 1..Len(queue') : queue'[i] = queue'[j] => i = j
    <3> SUFFICES ASSUME NEW i \in 1..Len(queue'), NEW j \in 1..Len(queue'),
                        queue'[i] = queue'[j]
                 PROVE  i = j
      OBVIOUS
    <3>1. i + 1 = j + 1
      BY <2>1, Zenon DEF SockFacts
    <3> QED  BY <1>1, <3>1
  <2>3. ~Queued(c)'
    <3> SUFFICES ASSUME NEW i \in 1..Len(queue'), queue'[i] = c PROVE FALSE
      BY Zenon DEF Queued
    <3>1. 1 = i + 1
      BY <1>0, <1>1, <2>1 DEF SockFacts
    <3> QED  BY <3>1
  <2>4. \A d \in Client : d # c => (Queued(d)' <=> Queued(d))
    <3> TAKE d \in Client
    <3> HAVE d # c
    <3>1. Queued(d)' => Queued(d)
      BY <2>1, Zenon DEF Queued
    <3>2. ASSUME NEW i \in 1..Len(queue), queue[i] = d
          PROVE  Queued(d)'
      <4>1. i # 1 /\ i - 1 \in 1..Len(queue')
        BY <1>0, <1>1, <3>2
      <4>2. queue'[i - 1] = queue[(i - 1) + 1]
        BY <2>1, <4>1, Zenon
      <4>3. (i - 1) + 1 = i
        OBVIOUS
      <4> QED  BY <3>2, <4>1, <4>2, <4>3, Zenon DEF Queued
    <3> QED  BY <3>1, <3>2, Zenon DEF Queued
  <2>5. \A d \in Client : Submitting(d)' <=> Submitting(d)
    BY <1>2, Zenon DEF Submitting
  <2>6. \A d \in Client : SocketOK(d)'
    BY <1>2, <1>4, <2>3, <2>4, <2>5, Zenon DEF SockFacts, SocketOK
  <2> QED  BY <1>2, <2>2, <2>6, Zenon DEF SockFacts
<1>8. RunFacts' /\ ExecutedOnce'
  BY <1>2, <1>4, SameRuns, Zenon
<1>9. DataFacts' /\ AnswerFacts'
  BY <1>2, <1>4, SameData, SameAnswers, Zenon DEF Typed
<1> QED  BY <1>5, <1>6, <1>7, <1>8, <1>9, Zenon

-----------------------------------------------------------------------------
(* The end of a connection. *)

LEMMA UnknownIsNoValue == \A u, v : Known(u) # Unknown /\ (Known(u) = Known(v) => u = v)
  BY Zenon DEF Known, Unknown

\* A reply still agrees with the promises when some of them are forgotten.
LEMMA AgreesStays ==
  ASSUME NEW c \in Client, NEW l, NEW r, Agrees(c, l, r),
         \A k \in Key : promised'[c][k] \in {promised[c][k], Unknown}
  PROVE  Agrees(c, l, r)'
  BY UnknownIsNoValue, Zenon DEF Agrees

LEMMA LeaveKeepsIInv ==
  ASSUME IInv, NEW c \in Client, Leave(c)
  PROVE  IInv'
<1> USE DEF IInv
<1>1. /\ at[c] = "recv" /\ at' \in [Client -> Place]
      /\ \A d \in Client : at'[d] = IF d = c THEN "close" ELSE at[d]
      /\ UNCHANGED <<isRouter, workers, acc, queue, sock, closes, line, reply, requests, answer,
                     data, connected, handled, taken, runs, promised>>
  BY Zenon DEF Leave, Typed, Place, config, sockets, shards, history
<1>2. Typed'
  BY <1>1, Zenon DEF Typed
<1>3. Counted' /\ SockFacts'
  BY <1>1, SameSockets, Zenon
<1>4. RunFacts' /\ ExecutedOnce'
  BY <1>1, SameRuns, Zenon
<1>5. DataFacts' /\ AnswerFacts'
  BY <1>1, SameData, SameAnswers, Zenon DEF Typed
<1> QED  BY <1>2, <1>3, <1>4, <1>5, Zenon

LEMMA CloseConnectionKeepsIInv ==
  ASSUME IInv, NEW c \in Client, CloseConnection(c)
  PROVE  IInv'
<1> USE DEF IInv
<1>1. /\ at[c] = "close" /\ at' \in [Client -> Place]
      /\ \A d \in Client : at'[d] = IF d = c THEN "none" ELSE at[d]
      /\ connected' = connected - 1
      /\ UNCHANGED <<isRouter, workers, acc, queue, line, reply, requests, answer,
                     data, handled, taken, runs>>
  BY Zenon DEF CloseConnection, Typed, Place, config, shards
<1>2. sock[c] = "open" /\ closes[c] = 0 /\ ~Submitting(c) /\ ~Queued(c)
  BY <1>1, Zenon DEF SockFacts, SocketOK
<1>3. /\ sock' \in [Client -> {"none", "open", "closed"}] /\ closes' \in [Client -> Nat]
      /\ \A d \in Client : /\ sock'[d] = IF d = c THEN "closed" ELSE sock[d]
                           /\ closes'[d] = IF d = c THEN 1 ELSE closes[d]
  BY <1>2 DEF CloseConnection, CloseSocket, Typed
<1>4. Typed'
  BY <1>1, <1>3, Zenon DEF Typed
<1>5. Counted'
  <2>1. Serving' = Serving \ {c} /\ c \in Serving
    BY <1>1, Zenon DEF Serving
  <2>2. Cardinality(Serving') = Cardinality(Serving) - 1
    BY <2>1, ServingIsFinite, FS_RemoveElement, Zenon
  <2>3. workers \in Nat /\ Cardinality(Serving) \in Nat
    BY ServingIsFinite DEF Typed
  <2> QED  BY <1>1, <2>2, <2>3 DEF Counted
<1>6. SockFacts'
  <2>1. \A d \in Client : (Submitting(d)' <=> Submitting(d)) /\ (Queued(d)' <=> Queued(d))
    BY <1>1, Zenon DEF Submitting, Queued
  <2>2. \A d \in Client : SocketOK(d)'
    BY <1>1, <1>2, <1>3, <2>1, Zenon DEF SockFacts, SocketOK
  <2> QED  BY <1>1, <2>2, Zenon DEF SockFacts
<1>7. RunFacts' /\ ExecutedOnce'
  BY <1>1, SameRuns, Zenon
<1>8. /\ promised' \in [Client -> [Key -> Promises]]
      /\ \A d \in Client, k \in Key : promised'[d][k] = IF d = c THEN Unknown ELSE promised[d][k]
  BY Zenon DEF CloseConnection, DataFacts, Promises
<1>9. DataFacts'
  BY <1>1, <1>8, UnknownIsNoValue DEF DataFacts, Loc
<1>10. AnswerFacts'
  BY <1>1, <1>8, AgreesStays, Zenon DEF AnswerFacts, Awaited, Typed
<1> QED  BY <1>4, <1>5, <1>6, <1>7, <1>9, <1>10, Zenon

-----------------------------------------------------------------------------
(* The reply to a forwarded line, and of any line to the client. *)

LEMMA AnswersTyped == {Nothing, Err} \subseteq Answers /\ Nothing # Err
<1>1. Nothing = [kind |-> "none", val |-> Absent] /\ Err = [kind |-> "ERR", val |-> Absent]
  BY Zenon DEF Nothing, Err, Reply
<1>2. Nothing \in Answers
  BY <1>1, Zenon DEF Answers
<1>3. Err \in Answers
  BY <1>1, Zenon DEF Answers
<1>4. Nothing.kind # Err.kind
  BY <1>1, Zenon
<1> QED  BY <1>2, <1>3, <1>4, Zenon

LEMMA ReadAnswerKeepsIInv ==
  ASSUME IInv, NEW c \in Client, ReadAnswer(c)
  PROVE  IInv'
<1> USE DEF IInv
<1>1. /\ at[c] = "wait" /\ answer[c] # Nothing
      /\ at' \in [Client -> Place]
      /\ \A d \in Client : at'[d] = IF d = c THEN "send" ELSE at[d]
      /\ UNCHANGED <<isRouter, workers, acc, queue, sock, closes, line, requests,
                     data, connected, handled, taken, runs, promised>>
  BY Zenon DEF ReadAnswer, Typed, Place, config, sockets, history
<1>2. /\ reply' \in [Client -> Answers] /\ answer' \in [Client -> Answers]
      /\ \A d \in Client : /\ reply'[d] = IF d = c THEN answer[c] ELSE reply[d]
                           /\ answer'[d] = IF d = c THEN Nothing ELSE answer[d]
  BY AnswersTyped, Zenon DEF ReadAnswer, Typed
<1>3. Typed'
  BY <1>1, <1>2, Zenon DEF Typed
<1>4. Counted' /\ SockFacts'
  BY <1>1, SameSockets, Zenon
<1>5. RunFacts'
  BY <1>1, <1>2, Zenon DEF RunFacts
<1>6. ExecutedOnce'
  BY <1>1, <1>2, Zenon DEF ExecutedOnce, RunFacts
<1>7. DataFacts'
  BY <1>1, SameData, Zenon
<1>8. \A d \in Client : \A l, r : Agrees(d, l, r) => Agrees(d, l, r)'
  BY <1>1, AgreesStays, Zenon
<1>9. AnswerFacts'
  BY <1>1, <1>2, <1>8, Zenon DEF AnswerFacts, Awaited, Typed
<1> QED  BY <1>3, <1>4, <1>5, <1>6, <1>7, <1>9, Zenon

LEMMA ForwardFailsKeepsIInv ==
  ASSUME IInv, NEW c \in Client, ForwardFails(c)
  PROVE  IInv'
<1> USE DEF IInv
<1>1. /\ at[c] = "wait" /\ requests' \subseteq requests
      /\ at' \in [Client -> Place]
      /\ \A d \in Client : at'[d] = IF d = c THEN "send" ELSE at[d]
      /\ UNCHANGED <<isRouter, workers, acc, queue, sock, closes, line,
                     data, connected, handled, taken, runs, promised>>
  BY Zenon DEF ForwardFails, Typed, Place, config, sockets, history
<1>2. /\ reply' \in [Client -> Answers] /\ answer' \in [Client -> Answers]
      /\ \A d \in Client : /\ reply'[d] = IF d = c THEN Err ELSE reply[d]
                           /\ answer'[d] = IF d = c THEN Nothing ELSE answer[d]
  BY AnswersTyped, Zenon DEF ForwardFails, Typed
<1>3. Typed'
  BY <1>1, <1>2, Zenon DEF Typed
<1>4. Counted' /\ SockFacts'
  BY <1>1, SameSockets, Zenon
<1>5. RunFacts'
  BY <1>1, <1>2, Zenon DEF RunFacts
<1>6. ExecutedOnce'
  BY <1>1, <1>2, Zenon DEF ExecutedOnce
<1>7. DataFacts'
  BY <1>1, SameData, Zenon
<1>8. /\ \A d \in Client : \A l, r : Agrees(d, l, r) => Agrees(d, l, r)'
      /\ \A l : Agrees(c, l, Err)'
  BY <1>1, AgreesStays DEF Agrees
<1>9. AnswerFacts'
  BY <1>1, <1>2, <1>8, AnswersTyped, Zenon DEF AnswerFacts, Awaited, Typed
<1> QED  BY <1>3, <1>4, <1>5, <1>6, <1>7, <1>9, Zenon

LEMMA SendReplyKeepsIInv ==
  ASSUME IInv, NEW c \in Client, SendReply(c)
  PROVE  IInv'
<1> USE DEF IInv
<1>1. PICK place \in {"recv", "close"} : at' = [at EXCEPT ![c] = place]
  BY Zenon DEF SendReply
<1>2. /\ at[c] = "send"
      /\ at' \in [Client -> Place]
      /\ \A d \in Client : at'[d] = IF d = c THEN place ELSE at[d]
      /\ UNCHANGED <<isRouter, workers, acc, queue, sock, closes, requests, answer,
                     data, connected, handled, taken, runs>>
  BY <1>1, Zenon DEF SendReply, Typed, Place, config, sockets, shards
<1>3. /\ reply' \in [Client -> Answers] /\ line' \in [Client -> Line \cup {NoLine}]
      /\ \A d \in Client \ {c} : reply'[d] = reply[d] /\ line'[d] = line[d]
  BY AnswersTyped, Zenon DEF SendReply, Typed
<1>4. /\ promised' \in [Client -> [Key -> Promises]]
      /\ \A d \in Client, k \in Key : promised'[d][k] \in {promised[d][k], Unknown}
  <2>1. CASE promised' = promised
    BY <2>1, Zenon DEF DataFacts
  <2>2. CASE IsWrite(line[c]) /\ promised' = [promised EXCEPT ![c][line[c].key] = Unknown]
    <3>1. line[c].key \in Key
      BY <1>2, <2>2, FrontendAssumption, Zenon DEF RunFacts, IsWrite, WellFormed
    <3> QED  BY <2>2, <3>1, Zenon DEF DataFacts, Promises
  <2> QED  BY <2>1, <2>2, Zenon DEF SendReply, Promise
<1>5. Typed'
  BY <1>2, <1>3, Zenon DEF Typed
<1>6. Counted' /\ SockFacts'
  BY <1>2, SameSockets, Zenon
<1>7. RunFacts'
  BY <1>2, <1>3, Zenon DEF RunFacts
<1>8. ExecutedOnce'
  BY <1>2, <1>3, Zenon DEF ExecutedOnce
<1>9. DataFacts'
  BY <1>2, <1>4, UnknownIsNoValue DEF DataFacts, Loc
<1>10. \A d \in Client : \A l, r : Agrees(d, l, r) => Agrees(d, l, r)'
  BY <1>4, AgreesStays, Zenon
<1>11. AnswerFacts'
  <2>1. \A q \in requests : /\ q.from \in Client /\ isRouter /\ ~IsLocal(q.line)
                            /\ Awaited(q)' => q.line = line'[q.from]
    BY <1>2, <1>3, Zenon DEF AnswerFacts, Awaited, Typed
  <2>2. \A d \in Client : /\ at'[d] = "wait" => Agrees(d, line[d], answer[d])'
                          /\ at'[d] = "send" => reply'[d] # Nothing /\ Agrees(d, line[d], reply[d])'
    <3> SUFFICES ASSUME NEW d \in Client, d # c
                 PROVE  /\ at'[d] = "wait" => Agrees(d, line[d], answer[d])'
                        /\ at'[d] = "send" => reply'[d] # Nothing /\ Agrees(d, line[d], reply[d])'
      BY <1>2, Zenon
    <3>1. at'[d] = at[d] /\ line'[d] = line[d] /\ answer'[d] = answer[d] /\ reply'[d] = reply[d]
      BY <1>2, <1>3, Zenon
    <3>2. PICK m, a, b : m = line[d] /\ a = answer[d] /\ b = reply[d]
      OBVIOUS
    <3>3. /\ at[d] = "wait" => Agrees(d, m, a)
          /\ at[d] = "send" => b # Nothing /\ Agrees(d, m, b)
      BY <3>2, Zenon DEF AnswerFacts
    <3>4. /\ at[d] = "wait" => Agrees(d, m, a)'
          /\ at[d] = "send" => b # Nothing /\ Agrees(d, m, b)'
      BY <1>10, <3>3, Zenon
    <3> QED  BY <3>1, <3>2, <3>4, Zenon DEF Agrees
  <2> QED  BY <1>2, <2>1, <2>2, Zenon DEF AnswerFacts, Awaited
<1> QED  BY <1>5, <1>6, <1>7, <1>8, <1>9, <1>11, Zenon

-----------------------------------------------------------------------------
(* execute_line. *)

\* Store s is the one a line with l's key belongs to.
HomeOf(s, l) == s \in Shard /\ (l.key \in Key => s = Loc(l.key))

LEMMA LineShape ==
  ASSUME NEW l \in Line
  PROVE  /\ l.key \in Key \cup {Absent} /\ l.rest \in Value \cup {Absent}
         /\ IsWrite(l) => l.key \in Key /\ l.verb \notin {"GET", "EXISTS"}
         /\ WellFormed(l) /\ l.verb # "QUIT" => l.key \in Key
         /\ l.verb \in {"SET", "GET", "DEL", "EXISTS", "QUIT"}
  BY FrontendAssumption, Zenon DEF IsWrite, WellFormed

LEMMA ReplyShape ==
  ASSUME NEW x \in {"OK", "(nil)", "0", "1"}
  PROVE  Reply(x).kind = x /\ Reply(x).val = Absent /\ Reply(x) \in Answers \ {Nothing, Err}
<1>1. Reply(x) = [kind |-> x, val |-> Absent]
  BY Zenon DEF Reply
<1>2. Reply(x).kind = x /\ Reply(x).val = Absent
  BY <1>1
<1>3. Nothing.kind = "none" /\ Err.kind = "ERR"
  BY Zenon DEF Nothing, Err, Reply
<1>4. Reply(x) \in [kind : {"none", "OK", "ERR", "(nil)", "0", "1"}, val : {Absent}]
  <2>1. CASE x = "OK"
    BY <1>1, <2>1
  <2>2. CASE x = "(nil)"
    BY <1>1, <2>2
  <2>3. CASE x = "0"
    BY <1>1, <2>3
  <2>4. CASE x = "1"
    BY <1>1, <2>4
  <2> QED  BY <2>1, <2>2, <2>3, <2>4, Zenon
<1>5. Reply(x) # Nothing /\ Reply(x) # Err
  BY <1>2, <1>3, Zenon
<1> QED  BY <1>2, <1>4, <1>5, Zenon DEF Answers

LEMMA ValueShape ==
  ASSUME NEW v \in Value
  PROVE  [kind |-> "value", val |-> v] \in Answers \ {Nothing, Err}
<1>1. PICK r : r = [kind |-> "value", val |-> v]
  OBVIOUS
<1>2. r.kind = "value" /\ r \in [kind : {"value"}, val : Value]
  BY <1>1, Zenon
<1>3. Nothing.kind = "none" /\ Err.kind = "ERR"
  BY Zenon DEF Nothing, Err, Reply
<1>4. r # Nothing /\ r # Err
  BY <1>2, <1>3, Zenon
<1> QED  BY <1>1, <1>2, <1>4, Zenon DEF Answers

\* What a line answers is an answer, and says of its key what the store says.
LEMMA OutcomeSays ==
  ASSUME Typed, NEW l \in Line, NEW s \in Shard, NEW r \in Outcomes(data[s], l)
  PROVE  /\ r \in Answers \ {Nothing}
         /\ r # Err => WellFormed(l)
         /\ r # Err /\ l.verb = "GET" => r.val = data[s][l.key]
         /\ r # Err /\ l.verb = "EXISTS" /\ r.kind = "1" => data[s][l.key] # Absent
         /\ r # Err /\ l.verb = "EXISTS" /\ r.kind = "0" => data[s][l.key] = Absent
<1>1. CASE r = Err
  BY <1>1, AnswersTyped, Zenon
<1>2. CASE r # Err
  <2>1. WellFormed(l) /\ r = Result(data[s], l)
    BY <1>2, Zenon DEF Outcomes
  <2>2. CASE l.verb = "GET"
    <3>1. data[s][l.key] \in Value \cup {Absent}
      BY <2>1, <2>2, LineShape, Zenon DEF Typed
    <3>2. CASE data[s][l.key] = Absent
      BY <2>1, <2>2, <3>2, ReplyShape, Zenon DEF Result
    <3>3. CASE data[s][l.key] # Absent
      BY <2>1, <2>2, <3>1, <3>3, ValueShape, Zenon DEF Result
    <3> QED  BY <3>2, <3>3, Zenon
  <2>3. CASE l.verb \in {"DEL", "EXISTS"}
    <3>1. CASE data[s][l.key] = Absent
      BY <2>1, <2>3, <3>1, ReplyShape, Zenon DEF Result
    <3>2. CASE data[s][l.key] # Absent
      BY <2>1, <2>3, <3>2, ReplyShape, Zenon DEF Result
    <3> QED  BY <3>1, <3>2, Zenon
  <2>4. CASE l.verb \notin {"GET", "DEL", "EXISTS"}
    BY <2>1, <2>4, ReplyShape, Zenon DEF Result
  <2> QED  BY <2>2, <2>3, <2>4, Zenon
<1> QED  BY <1>1, <1>2, Zenon

\* A read agrees with every promise.
LEMMA ReadAgrees ==
  ASSUME Typed, DataFacts, NEW c \in Client, NEW l \in Line, NEW s, HomeOf(s, l),
         NEW r \in Outcomes(data[s], l)
  PROVE  Agrees(c, l, r)
<1> SUFFICES ASSUME l.verb \in {"GET", "EXISTS"}, r # Err
             PROVE  Agrees(c, l, r)
  BY Zenon DEF Agrees
<1>1. s \in Shard /\ WellFormed(l)
  BY OutcomeSays, Zenon DEF HomeOf
<1>2. l.key \in Key
  BY <1>1, LineShape, Zenon
<1>3. PICK k \in Key, v \in Value \cup {Absent} : k = l.key /\ v = data[Loc(k)][k] /\ v = data[s][k]
  BY <1>1, <1>2, Zenon DEF HomeOf, Typed
<1>4. promised[c][k] \in {Unknown, Known(v)}
  <2>1. promised[c][k] = Unknown \/ \E w \in Value \cup {Absent} : promised[c][k] = Known(w)
    BY DEF DataFacts, Promises
  <2>2. \A w \in Value \cup {Absent} : promised[c][k] = Known(w) => w = v
    BY <1>3, Zenon DEF DataFacts
  <2> QED  BY <2>1, <2>2, Zenon
<1>5. /\ l.verb = "GET" => r.val = v
      /\ l.verb = "EXISTS" /\ r.kind = "1" => v # Absent
      /\ l.verb = "EXISTS" /\ r.kind = "0" => v = Absent
  BY <1>1, <1>3, OutcomeSays, Zenon
<1> QED  BY <1>2, <1>3, <1>4, <1>5, UnknownIsNoValue, Zenon DEF Agrees

LEMMA ExecutionKeeps ==
  ASSUME IInv, UNCHANGED isRouter, NEW c \in Client, NEW i \in 1..MaxLines, NEW l \in Line,
         NEW s, HomeOf(s, l), NEW owner, NEW r, runs[<<c, i>>] = 0,
         execute_line(s, c, i, l, owner, r)
  PROVE  /\ runs' \in [Client \X (1..MaxLines) -> {0, 1}]
         /\ \A id \in Client \X (1..MaxLines) :
              runs'[id] = IF id = <<c, i>> THEN 1 ELSE runs[id]
         /\ data' \in [Shard -> [Key -> Value \cup {Absent}]]
         /\ DataFacts'
         /\ \A d \in Client, k \in Key : d # owner => promised'[d][k] \in {promised[d][k], Unknown}
         /\ l.verb \in {"GET", "EXISTS"} => promised' = promised
<1> USE DEF IInv
<1>1. runs' = [runs EXCEPT ![<<c, i>>] = @ + 1]
  BY Zenon DEF execute_line
<1>2. /\ runs' \in [Client \X (1..MaxLines) -> {0, 1}]
      /\ \A id \in Client \X (1..MaxLines) : runs'[id] = IF id = <<c, i>> THEN 1 ELSE runs[id]
  BY <1>1 DEF RunFacts
<1>3. CASE UNCHANGED <<data, promised>>
  BY <1>2, <1>3, SameData, Zenon DEF Typed
<1>4. CASE /\ IsWrite(l) /\ data' = [data EXCEPT ![s][l.key] = l.rest]
           /\ promised' = Noted(l.key, l.rest, owner)
  <2>1. /\ l.key \in Key /\ l.rest \in Value \cup {Absent} /\ l.verb \notin {"GET", "EXISTS"}
        /\ s \in Shard /\ s = Loc(l.key)
    BY <1>4, LineShape, Zenon DEF HomeOf
  <2>2. /\ data' \in [Shard -> [Key -> Value \cup {Absent}]]
        /\ \A t \in Shard, k \in Key :
             data'[t][k] = IF t = s /\ k = l.key THEN l.rest ELSE data[t][k]
    BY <1>4, <2>1, Zenon DEF Typed
  <2>3. /\ promised' \in [Client -> [Key -> Promises]]
        /\ \A d \in Client, k \in Key :
             promised'[d][k] = IF k # l.key THEN promised[d][k]
                               ELSE IF d = owner THEN Known(l.rest) ELSE Unknown
    BY <1>4, <2>1, Zenon DEF DataFacts, Noted, Promises
  <2>4. \A k \in Key : Loc(k)' = Loc(k) /\ Loc(k) \in Shard
    BY FrontendAssumption DEF Loc, Own
  <2>5. ASSUME NEW d \in Client, NEW k \in Key, NEW v \in Value \cup {Absent},
               promised'[d][k] = Known(v)
        PROVE  data'[Loc(k)'][k] = v
    <3>1. CASE k = l.key
      BY <2>1, <2>2, <2>3, <2>4, <2>5, <3>1, UnknownIsNoValue, Zenon
    <3>2. CASE k # l.key
      BY <2>2, <2>3, <2>4, <2>5, <3>2 DEF DataFacts
    <3> QED  BY <3>1, <3>2, Zenon
  <2>6. DataFacts'
    BY <2>3, <2>5, Zenon DEF DataFacts
  <2> QED  BY <1>2, <2>1, <2>2, <2>3, <2>6, Zenon
<1> QED  BY <1>3, <1>4, Zenon DEF execute_line

-----------------------------------------------------------------------------
(* A line is taken up. *)

\* A number a line already has is not the next one, and stays in range.
LEMMA OldNumber ==
  ASSUME NEW m \in Nat, NEW a \in 1..m, NEW b \in 0..m, a <= b
  PROVE  a # b + 1 /\ \A e \in {b, b + 1} : a <= e
OBVIOUS

LEMMA Taken ==
  ASSUME IInv, NEW c \in Client, NEW l \in Line, TakeLine(c, l)
  PROVE  /\ at[c] = "recv" /\ answer[c] = Nothing
         /\ line' \in [Client -> Line \cup {NoLine}]
         /\ \A d \in Client : line'[d] = IF d = c THEN l ELSE line[d]
         /\ taken' \in 0..MaxLines
         /\ handled' \in [Client -> 0..MaxLines] /\ \A d \in Client : handled'[d] <= taken'
         /\ handled[c] + 1 \in 1..MaxLines
         /\ \A d \in Client : handled'[d] = IF d = c THEN handled[c] + 1 ELSE handled[d]
         /\ runs[<<c, handled[c] + 1>>] = 0
<1> USE DEF IInv
<1>1. taken \in Nat /\ taken + 1 <= MaxLines /\ MaxLines \in Nat /\ taken' = taken + 1
  BY FrontendAssumption DEF TakeLine, RunFacts
<1>2. \A d \in Client : handled[d] \in 0..MaxLines /\ handled[d] <= taken
  BY Zenon DEF RunFacts
<1>3. handled[c] + 1 \in 1..MaxLines /\ handled[c] + 1 > handled[c]
  BY <1>1, <1>2
<1>4. /\ handled' \in [Client -> 0..MaxLines]
      /\ \A d \in Client : handled'[d] = IF d = c THEN handled[c] + 1 ELSE handled[d]
  BY <1>1, <1>3 DEF TakeLine, RunFacts
<1>5. \A d \in Client : handled'[d] <= taken'
  BY <1>1, <1>2, <1>4
<1>6. taken' \in 0..MaxLines
  BY <1>1
<1>7. runs[<<c, handled[c] + 1>>] = 0
  BY <1>3, Zenon DEF RunFacts
<1>8. /\ at[c] = "recv" /\ answer[c] = Nothing
      /\ line' \in [Client -> Line \cup {NoLine}]
      /\ \A d \in Client : line'[d] = IF d = c THEN l ELSE line[d]
  BY Zenon DEF TakeLine, RunFacts, Typed
<1> QED  BY <1>3, <1>4, <1>5, <1>6, <1>7, <1>8, Zenon

\* The worker of c goes on to send r.
Sends(c, r) ==
  /\ reply' = [reply EXCEPT ![c] = r] /\ at' = [at EXCEPT ![c] = "send"]
  /\ UNCHANGED <<config, acc, queue, sockets, requests, answer, connected>>

\* The step executes no line but the one c has just sent, and that one unless it
\* is answered by the front end itself.
RunsLine(c, l, r) ==
  /\ runs' \in [Client \X (1..MaxLines) -> {0, 1}]
  /\ \A id \in Client \X (1..MaxLines) : id # <<c, handled[c] + 1>> => runs'[id] = runs[id]
  /\ l.verb # "QUIT" /\ r # Err => runs'[<<c, handled[c] + 1>>] = 1

\* What the replies promised to the others still stands, or is void.
OthersForget(c) ==
  \A d \in Client, k \in Key : d # c => promised'[d][k] \in {promised[d][k], Unknown}

\* The worker of c has the reply to its line, executed or not.
LEMMA AnsweredHere ==
  ASSUME IInv, NEW c \in Client, NEW l \in Line, TakeLine(c, l), NEW r \in Answers \ {Nothing},
         Sends(c, r), RunsLine(c, l, r), OthersForget(c), Agrees(c, l, r)',
         data' \in [Shard -> [Key -> Value \cup {Absent}]], DataFacts'
  PROVE  IInv'
<1>0. Typed /\ Counted /\ SockFacts /\ RunFacts /\ ExecutedOnce /\ AnswerFacts
  BY Zenon DEF IInv
<1>1. /\ at' \in [Client -> Place]
      /\ \A d \in Client : at'[d] = IF d = c THEN "send" ELSE at[d]
      /\ reply' \in [Client -> Answers]
      /\ \A d \in Client : reply'[d] = IF d = c THEN r ELSE reply[d]
      /\ UNCHANGED <<isRouter, workers, acc, queue, sock, closes, requests, answer, connected>>
  BY <1>0, Zenon DEF Sends, Typed, Place, config, sockets
<1>2. /\ at[c] = "recv" /\ answer[c] = Nothing
      /\ line' \in [Client -> Line \cup {NoLine}]
      /\ \A d \in Client : line'[d] = IF d = c THEN l ELSE line[d]
  BY Taken, Zenon
<1>3. /\ taken' \in 0..MaxLines
      /\ handled' \in [Client -> 0..MaxLines] /\ \A d \in Client : handled'[d] <= taken'
      /\ handled[c] + 1 \in 1..MaxLines
      /\ \A d \in Client : handled'[d] = IF d = c THEN handled[c] + 1 ELSE handled[d]
  BY Taken, Zenon
<1>4. Typed'
  BY <1>0, <1>1, <1>2, Zenon DEF Typed
<1>5. Counted' /\ SockFacts'
  BY <1>0, <1>1, <1>2, SameSockets, Zenon
<1>6. \A d \in Client : d # c => /\ at'[d] = at[d] /\ handled'[d] = handled[d]
                                 /\ line'[d] = line[d] /\ reply'[d] = reply[d]
                                 /\ answer'[d] = answer[d]
  BY <1>1, <1>2, <1>3, Zenon
<1>7. \A q \in requests : q.from \in Client /\ q.no \in 1..MaxLines
  BY <1>0, Zenon DEF Typed
<1>8. RunFacts'
  <2>1. \A d \in Client : handled[d] \in 0..MaxLines /\ handled'[d] \in {handled[d], handled[d] + 1}
    BY <1>0, <1>3, Zenon DEF RunFacts
  <2>2. ASSUME NEW d \in Client, NEW i \in 1..MaxLines, i > handled'[d]
        PROVE  runs'[<<d, i>>] = 0
    <3>1. i > handled[d] /\ (d = c => i # handled[c] + 1)
      BY <1>3, <2>1, <2>2
    <3>2. runs[<<d, i>>] = 0
      BY <1>0, <3>1, Zenon DEF RunFacts
    <3>3. <<d, i>> # <<c, handled[c] + 1>> /\ <<d, i>> \in Client \X (1..MaxLines)
      BY <3>1, Zenon
    <3> QED  BY <3>2, <3>3, Zenon DEF RunsLine
  <2>3. ASSUME NEW q \in requests
        PROVE  q.no <= handled'[q.from] /\ runs'[<<q.from, q.no>>] = 0
    <3>1. q.no <= handled[q.from] /\ runs[<<q.from, q.no>>] = 0
      BY <1>0, Zenon DEF RunFacts
    <3>2. q.no # handled[q.from] + 1 /\ q.no <= handled'[q.from]
      <4>1. /\ MaxLines \in Nat /\ q.no \in 1..MaxLines /\ q.no <= handled[q.from]
            /\ handled[q.from] \in 0..MaxLines
            /\ handled'[q.from] \in {handled[q.from], handled[q.from] + 1}
        BY <1>7, <2>1, <3>1, FrontendAssumption, Zenon
      <4> QED  BY <4>1, OldNumber
    <3>3. <<q.from, q.no>> # <<c, handled[c] + 1>> /\ <<q.from, q.no>> \in Client \X (1..MaxLines)
      BY <1>7, <3>2, Zenon
    <3> QED  BY <3>1, <3>2, <3>3, Zenon DEF RunsLine
  <2>4. ASSUME NEW d \in Client
        PROVE  /\ at'[d] \in {"wait", "send"} => handled'[d] \in 1..MaxLines /\ line'[d] \in Line
               /\ at'[d] = "wait" => isRouter'
               /\ at'[d] # "wait" => answer'[d] = Nothing
               /\ answer'[d] # Nothing => runs'[<<d, handled'[d]>>] = 1
    <3>1. CASE d = c
      BY <1>1, <1>2, <1>3, <3>1, Zenon
    <3>2. CASE d # c
      <4>1. /\ at[d] \in {"wait", "send"} => handled[d] \in 1..MaxLines /\ line[d] \in Line
            /\ at[d] = "wait" => isRouter
            /\ at[d] # "wait" => answer[d] = Nothing
            /\ answer[d] # Nothing => runs[<<d, handled[d]>>] = 1
        BY <1>0, Zenon DEF RunFacts
      <4>2. ASSUME answer[d] # Nothing
            PROVE  runs'[<<d, handled[d]>>] = 1
        <5>1. <<d, handled[d]>> # <<c, handled[c] + 1>>
              /\ <<d, handled[d]>> \in Client \X (1..MaxLines)
          BY <3>2, <4>1, <4>2, Zenon
        <5> QED  BY <4>1, <4>2, <5>1, Zenon DEF RunsLine
      <4> QED  BY <1>1, <1>6, <3>2, <4>1, <4>2, Zenon
    <3> QED  BY <3>1, <3>2, Zenon
  <2>5. \A q, p \in requests : q.from = p.from /\ q.no = p.no => q = p
    BY <1>0, Zenon DEF RunFacts
  <2>6. runs' \in [Client \X (1..MaxLines) -> {0, 1}]
    BY Zenon DEF RunsLine
  <2> QED  BY <1>1, <1>3, <2>2, <2>3, <2>4, <2>5, <2>6, Zenon DEF RunFacts
<1>9. ExecutedOnce'
  <2>1. \A id \in DOMAIN runs' : runs'[id] <= 1
    <3>1. \A id \in DOMAIN runs' : runs'[id] \in {0, 1}
      BY Zenon DEF RunsLine
    <3> QED  BY <3>1
  <2>2. ASSUME NEW d \in Client, at'[d] = "send", line'[d].verb # "QUIT", reply'[d] # Err
        PROVE  runs'[<<d, handled'[d]>>] = 1
    <3>1. CASE d = c
      <4>1. line'[d] = l /\ reply'[d] = r /\ handled'[d] = handled[c] + 1
        BY <1>1, <1>2, <1>3, <3>1, Zenon
      <4> QED  BY <2>2, <3>1, <4>1, Zenon DEF RunsLine
    <3>2. CASE d # c
      <4>1. handled[d] \in 1..MaxLines /\ runs[<<d, handled[d]>>] = 1
        BY <1>0, <1>6, <2>2, <3>2, Zenon DEF RunFacts, ExecutedOnce
      <4>2. <<d, handled[d]>> # <<c, handled[c] + 1>>
            /\ <<d, handled[d]>> \in Client \X (1..MaxLines)
        BY <3>2, <4>1, Zenon
      <4>3. runs'[<<d, handled[d]>>] = 1
        BY <4>1, <4>2, Zenon DEF RunsLine
      <4> QED  BY <1>6, <3>2, <4>3, Zenon
    <3> QED  BY <3>1, <3>2, Zenon
  <2> QED  BY <2>1, <2>2, Zenon DEF ExecutedOnce
<1>10. AnswerFacts'
  <2>1. ASSUME NEW q \in requests
        PROVE  isRouter /\ ~IsLocal(q.line) /\ (Awaited(q)' => q.line = line'[q.from])
    <3>1. isRouter /\ ~IsLocal(q.line) /\ (Awaited(q) => q.line = line[q.from])
      BY <1>0, Zenon DEF AnswerFacts
    <3>2. q.from = c => ~Awaited(q)'
      BY <1>1, <1>7, Zenon DEF Awaited
    <3>3. q.from # c => (Awaited(q)' => Awaited(q)) /\ line'[q.from] = line[q.from]
      BY <1>6, <1>7, Zenon DEF Awaited
    <3> QED  BY <3>1, <3>2, <3>3, Zenon
  <2>2. ASSUME NEW d \in Client
        PROVE  /\ at'[d] = "wait" => Agrees(d, line[d], answer[d])'
               /\ at'[d] = "send" => reply'[d] # Nothing /\ Agrees(d, line[d], reply[d])'
    <3>1. CASE d = c
      <4>1. at'[d] = "send" /\ line'[d] = l /\ reply'[d] = r
        BY <1>1, <1>2, <3>1, Zenon
      <4> QED  BY <3>1, <4>1, Zenon DEF Agrees
    <3>2. CASE d # c
      <4>1. \A m, a : Agrees(d, m, a) => Agrees(d, m, a)'
        BY <3>2, AgreesStays, Zenon DEF OthersForget
      <4>2. PICK m, a, b : m = line[d] /\ a = answer[d] /\ b = reply[d]
        OBVIOUS
      <4>3. /\ at[d] = "wait" => Agrees(d, m, a)
            /\ at[d] = "send" => b # Nothing /\ Agrees(d, m, b)
        BY <1>0, <4>2, Zenon DEF AnswerFacts
      <4>4. /\ at'[d] = "wait" => Agrees(d, m, a)'
            /\ at'[d] = "send" => b # Nothing /\ Agrees(d, m, b)'
        BY <1>6, <3>2, <4>1, <4>3, Zenon
      <4>5. m = line'[d] /\ a = answer'[d] /\ b = reply'[d]
        BY <1>6, <3>2, <4>2, Zenon
      <4> QED  BY <4>4, <4>5, Zenon DEF Agrees
    <3> QED  BY <3>1, <3>2, Zenon
  <2> QED  BY <1>1, <2>1, <2>2, Zenon DEF AnswerFacts, Awaited
<1> QED  BY <1>4, <1>5, <1>8, <1>9, <1>10, Zenon DEF IInv

\* The request that forwards l, the line c has just sent.
ForwardedAs(c, l, q) == q = [from |-> c, no |-> handled[c] + 1, line |-> l]

\* The worker of c waits for the shard it has sent q to.
Waits(c, q) ==
  /\ requests' = requests \cup {q} /\ at' = [at EXCEPT ![c] = "wait"]
  /\ UNCHANGED <<isRouter, workers, acc, queue, sock, closes, reply, answer, data, connected,
                 runs, promised>>

\* The line of c is on its way to a shard.
LEMMA ForwardedKeepsIInv ==
  ASSUME IInv, NEW c \in Client, NEW l \in Line, TakeLine(c, l), isRouter, ~IsLocal(l),
         NEW q0, ForwardedAs(c, l, q0), Waits(c, q0), DataFacts'
  PROVE  IInv'
<1>0. Typed /\ Counted /\ SockFacts /\ RunFacts /\ ExecutedOnce /\ AnswerFacts
  BY Zenon DEF IInv
<1>1. /\ line' \in [Client -> Line \cup {NoLine}] /\ at[c] = "recv" /\ answer[c] = Nothing
      /\ \A d \in Client : line'[d] = IF d = c THEN l ELSE line[d]
  BY Taken, Zenon
<1>2. /\ taken' \in 0..MaxLines
      /\ handled' \in [Client -> 0..MaxLines] /\ \A d \in Client : handled'[d] <= taken'
      /\ handled[c] + 1 \in 1..MaxLines /\ runs[<<c, handled[c] + 1>>] = 0
      /\ \A d \in Client : handled'[d] = IF d = c THEN handled[c] + 1 ELSE handled[d]
  BY Taken, Zenon
<1>3. /\ q0.from = c /\ q0.no = handled[c] + 1 /\ q0.line = l
      /\ q0 \in [from : Client, no : 1..MaxLines, line : Line]
  BY <1>2, Zenon DEF ForwardedAs
<1>4. /\ at' \in [Client -> Place] /\ requests' = requests \cup {q0}
      /\ \A d \in Client : at'[d] = IF d = c THEN "wait" ELSE at[d]
      /\ UNCHANGED <<isRouter, workers, acc, queue, sock, closes, reply, answer, data,
                     connected, runs, promised>>
  BY <1>0, Zenon DEF Waits, Typed, Place
<1>5. Typed'
  BY <1>0, <1>1, <1>3, <1>4, Zenon DEF Typed
<1>6. Counted' /\ SockFacts'
  BY <1>0, <1>1, <1>4, SameSockets, Zenon
<1>7. \A d \in Client : d # c =>
        at'[d] = at[d] /\ handled'[d] = handled[d] /\ line'[d] = line[d]
  BY <1>1, <1>2, <1>4, Zenon
<1>8. \A d \in Client : handled[d] \in 0..MaxLines /\ handled'[d] \in {handled[d], handled[d] + 1}
  BY <1>0, <1>2, Zenon DEF RunFacts
<1>9. \A q \in requests : /\ q.from \in Client /\ q.no \in 1..MaxLines
                          /\ q.no <= handled[q.from] /\ runs[<<q.from, q.no>>] = 0
  BY <1>0, Zenon DEF Typed, RunFacts
<1>10. \A q \in requests : q.no # handled[q.from] + 1 /\ q.no <= handled'[q.from]
  <2> TAKE q \in requests
  <2>1. /\ MaxLines \in Nat /\ q.no \in 1..MaxLines /\ q.no <= handled[q.from]
        /\ handled[q.from] \in 0..MaxLines
        /\ handled'[q.from] \in {handled[q.from], handled[q.from] + 1}
    BY <1>8, <1>9, FrontendAssumption, Zenon
  <2> QED  BY <2>1, OldNumber
<1>11. RunFacts'
  <2>1. ASSUME NEW d \in Client, NEW i \in 1..MaxLines, i > handled'[d]
        PROVE  runs[<<d, i>>] = 0
    <3>1. i > handled[d]
      BY <1>8, <2>1
    <3> QED  BY <1>0, <3>1, Zenon DEF RunFacts
  <2>2. ASSUME NEW q \in requests'
        PROVE  q.no <= handled'[q.from] /\ runs[<<q.from, q.no>>] = 0
    <3>1. CASE q \in requests
      BY <1>9, <1>10, <3>1, Zenon
    <3>2. CASE q = q0
      BY <1>2, <1>3, <3>2
    <3> QED  BY <1>4, <3>1, <3>2, Zenon
  <2>3. \A q, r \in requests : q.from = r.from /\ q.no = r.no => q = r
    BY <1>0, Zenon DEF RunFacts
  <2>4. \A q, r \in requests' : q.from = r.from /\ q.no = r.no => q = r
    BY <1>3, <1>4, <1>10, <2>3
  <2>5. ASSUME NEW d \in Client
        PROVE  /\ at'[d] \in {"wait", "send"} => handled'[d] \in 1..MaxLines /\ line'[d] \in Line
               /\ at'[d] = "wait" => isRouter'
               /\ at'[d] # "wait" => answer'[d] = Nothing
               /\ answer'[d] # Nothing => runs'[<<d, handled'[d]>>] = 1
    <3>1. CASE d = c
      BY <1>1, <1>2, <1>4, <3>1, Zenon
    <3>2. CASE d # c
      <4>1. /\ at[d] \in {"wait", "send"} => handled[d] \in 1..MaxLines /\ line[d] \in Line
            /\ at[d] = "wait" => isRouter
            /\ at[d] # "wait" => answer[d] = Nothing
            /\ answer[d] # Nothing => runs[<<d, handled[d]>>] = 1
        BY <1>0, Zenon DEF RunFacts
      <4> QED  BY <1>4, <1>7, <3>2, <4>1, Zenon
    <3> QED  BY <3>1, <3>2, Zenon
  <2>6. runs \in [Client \X (1..MaxLines) -> {0, 1}]
    BY <1>0, Zenon DEF RunFacts
  <2> QED  BY <1>2, <1>4, <2>1, <2>2, <2>4, <2>5, <2>6, Zenon DEF RunFacts
<1>12. ExecutedOnce'
  <2>1. ASSUME NEW d \in Client, at'[d] = "send"
        PROVE  at[d] = "send" /\ handled'[d] = handled[d] /\ line'[d] = line[d]
    BY <1>4, <1>7, <2>1, Zenon
  <2> QED  BY <1>0, <1>4, <2>1, Zenon DEF ExecutedOnce
<1>13. AnswerFacts'
  <2>1. ASSUME NEW q \in requests'
        PROVE  isRouter /\ ~IsLocal(q.line) /\ (Awaited(q)' => q.line = line'[q.from])
    <3>1. CASE q = q0
      BY <1>1, <1>3, <3>1, Zenon
    <3>2. CASE q \in requests
      <4>1. isRouter /\ ~IsLocal(q.line) /\ (Awaited(q) => q.line = line[q.from])
        BY <1>0, <3>2, Zenon DEF AnswerFacts
      <4>2. q.from = c => ~Awaited(q)'
        BY <1>2, <1>10, <3>2, Zenon DEF Awaited
      <4>3. q.from # c => (Awaited(q)' => Awaited(q)) /\ line'[q.from] = line[q.from]
        BY <1>7, <1>9, <3>2, Zenon DEF Awaited
      <4> QED  BY <4>1, <4>2, <4>3, Zenon
    <3> QED  BY <1>4, <3>1, <3>2, Zenon
  <2>2. ASSUME NEW d \in Client
        PROVE  /\ at'[d] = "wait" => Agrees(d, line[d], answer[d])'
               /\ at'[d] = "send" => reply'[d] # Nothing /\ Agrees(d, line[d], reply[d])'
    <3>1. CASE d = c
      <4>1. at'[d] = "wait" /\ answer'[d] = Nothing
        BY <1>1, <1>4, <3>1, Zenon
      <4> QED  BY <4>1, Zenon DEF Agrees
    <3>2. CASE d # c
      BY <1>0, <1>4, <1>7, <3>2, Zenon DEF AnswerFacts, Agrees
    <3> QED  BY <3>1, <3>2, Zenon
  <2> QED  BY <1>4, <2>1, <2>2, Zenon DEF AnswerFacts, Awaited
<1> QED  BY <1>5, <1>6, <1>11, <1>12, <1>13, Zenon DEF IInv

LEMMA AnswerLocallyKeepsIInv ==
  ASSUME IInv, NEW c \in Client, NEW l \in Line, AnswerLocally(c, l)
  PROVE  IInv'
<1> USE DEF IInv
<1>1. PICK r : r = (IF l.verb = "QUIT" THEN Reply("OK") ELSE Err)
  OBVIOUS
<1>2. /\ TakeLine(c, l) /\ reply' = [reply EXCEPT ![c] = r] /\ at' = [at EXCEPT ![c] = "send"]
      /\ UNCHANGED <<config, acc, queue, sockets, requests, answer, data, connected, runs, promised>>
  BY <1>1, Zenon DEF AnswerLocally, shards
<1>3. r \in Answers \ {Nothing}
  BY <1>1, AnswersTyped, ReplyShape, Zenon
<1>4. Agrees(c, l, r)'
  BY <1>1, Zenon DEF Agrees
<1>5. DataFacts'
  BY <1>2, SameData, Zenon DEF config
<1>6. /\ l.verb # "QUIT" => r = Err
      /\ runs' \in [Client \X (1..MaxLines) -> {0, 1}]
      /\ data' \in [Shard -> [Key -> Value \cup {Absent}]]
  BY <1>1, <1>2, Zenon DEF RunFacts, Typed
<1>7. Sends(c, r) /\ RunsLine(c, l, r) /\ OthersForget(c)
  BY <1>2, <1>6, Zenon DEF Sends, RunsLine, OthersForget
<1> QED  BY <1>2, <1>3, <1>4, <1>5, <1>6, <1>7, AnsweredHere, Zenon

LEMMA ExecuteHereKeepsIInv ==
  ASSUME IInv, NEW c \in Client, NEW l \in Line, ExecuteHere(c, l)
  PROVE  IInv'
<1> USE DEF IInv
<1>1. PICK r \in Outcomes(data[Own], l) :
        /\ execute_line(Own, c, handled[c] + 1, l, c, r)
        /\ reply' = [reply EXCEPT ![c] = r]
  BY Zenon DEF ExecuteHere
<1>2. /\ TakeLine(c, l) /\ ~isRouter /\ at' = [at EXCEPT ![c] = "send"]
      /\ UNCHANGED <<config, acc, queue, sockets, requests, answer, connected>>
      /\ UNCHANGED isRouter
  BY Zenon DEF ExecuteHere, config
<1>3. Own \in Shard /\ HomeOf(Own, l)
  BY <1>2, FrontendAssumption DEF Own, HomeOf, Loc
<1>4. r \in Answers \ {Nothing}
  BY <1>3, OutcomeSays, Zenon
<1>5. handled[c] + 1 \in 1..MaxLines /\ runs[<<c, handled[c] + 1>>] = 0
  BY <1>2, Taken, Zenon
<1>6. /\ runs' \in [Client \X (1..MaxLines) -> {0, 1}]
      /\ \A id \in Client \X (1..MaxLines) :
           runs'[id] = IF id = <<c, handled[c] + 1>> THEN 1 ELSE runs[id]
      /\ data' \in [Shard -> [Key -> Value \cup {Absent}]]
      /\ DataFacts'
      /\ \A d \in Client, k \in Key : d # c => promised'[d][k] \in {promised[d][k], Unknown}
      /\ l.verb \in {"GET", "EXISTS"} => promised' = promised
  BY <1>1, <1>2, <1>3, <1>5, ExecutionKeeps, Zenon
<1>7. Agrees(c, l, r)'
  <2>1. CASE l.verb \in {"GET", "EXISTS"}
    BY <1>3, <1>6, <2>1, ReadAgrees, AgreesStays, Zenon
  <2>2. CASE l.verb \notin {"GET", "EXISTS"}
    BY <2>2, Zenon DEF Agrees
  <2> QED  BY <2>1, <2>2, Zenon
<1>8. runs'[<<c, handled[c] + 1>>] = 1
  BY <1>5, <1>6, Zenon
<1>9. Sends(c, r) /\ RunsLine(c, l, r) /\ OthersForget(c)
  BY <1>1, <1>2, <1>6, <1>8, Zenon DEF Sends, RunsLine, OthersForget
<1> QED  BY <1>2, <1>4, <1>6, <1>7, <1>9, AnsweredHere, Zenon

LEMMA ForwardKeepsIInv ==
  ASSUME IInv, NEW c \in Client, NEW l \in Line, Forward(c, l)
  PROVE  IInv'
<1> USE DEF IInv
<1>1. /\ TakeLine(c, l) /\ isRouter /\ ~IsLocal(l)
      /\ UNCHANGED <<config, acc, queue, sockets, answer, data, connected, runs, promised>>
      /\ UNCHANGED <<isRouter, workers, sock, closes>>
  BY Zenon DEF Forward, config, sockets
<1>2. DataFacts'
  BY <1>1, SameData, Zenon
<1>3. CASE reply' = [reply EXCEPT ![c] = Err] /\ at' = [at EXCEPT ![c] = "send"]
           /\ requests' = requests
  <2>1. Agrees(c, l, Err)' /\ Err \in Answers \ {Nothing}
    BY AnswersTyped, Zenon DEF Agrees
  <2>2. /\ runs' \in [Client \X (1..MaxLines) -> {0, 1}]
        /\ data' \in [Shard -> [Key -> Value \cup {Absent}]]
    BY <1>1, Zenon DEF RunFacts, Typed
  <2>3. Sends(c, Err) /\ RunsLine(c, l, Err) /\ OthersForget(c)
    BY <1>1, <1>3, <2>2, Zenon DEF Sends, RunsLine, OthersForget
  <2> QED  BY <1>1, <1>2, <2>1, <2>2, <2>3, AnsweredHere, Zenon
<1>4. CASE /\ requests' = requests \cup {[from |-> c, no |-> handled[c] + 1, line |-> l]}
           /\ at' = [at EXCEPT ![c] = "wait"] /\ reply' = reply
  <2>1. PICK q0 : q0 = [from |-> c, no |-> handled[c] + 1, line |-> l]
    OBVIOUS
  <2>2. ForwardedAs(c, l, q0) /\ Waits(c, q0)
    BY <1>1, <1>4, <2>1, Zenon DEF ForwardedAs, Waits
  <2> QED  BY <1>1, <1>2, <2>1, <2>2, ForwardedKeepsIInv, Zenon
<1> QED  BY <1>3, <1>4, Zenon DEF Forward

-----------------------------------------------------------------------------
(* A shard executes a forwarded line, in time or too late. *)

LEMMA ShardExecutesKeepsIInv ==
  ASSUME IInv, NEW q \in requests, ShardExecutes(q)
  PROVE  IInv'
<1> USE DEF IInv
<1>1. PICK c \in Client, i \in 1..MaxLines, l \in Line :
        c = q.from /\ i = q.no /\ l = q.line
  BY Zenon DEF Typed
<1>2. PICK w \in BOOLEAN : w = Awaited(q)
  BY Zenon DEF Awaited
<1>3. PICK owner : owner = IF w THEN c ELSE Absent
  OBVIOUS
<1>4. PICK s : s = Home(l)
  OBVIOUS
<1>5. PICK r \in Outcomes(data[s], l) :
        /\ execute_line(s, c, i, l, owner, r)
        /\ answer' = [answer EXCEPT ![c] = IF w THEN r ELSE @]
  BY <1>1, <1>2, <1>3, <1>4, Zenon DEF ShardExecutes
<1>6. /\ requests' = requests \ {q}
      /\ UNCHANGED <<isRouter, workers, acc, queue, sock, closes, at, line, reply, connected,
                     handled, taken>>
  BY Zenon DEF ShardExecutes, config, sockets, worker
<1>7. /\ isRouter /\ ~IsLocal(l) /\ i <= handled[c] /\ runs[<<c, i>>] = 0
      /\ w => at[c] = "wait" /\ handled[c] = i /\ line[c] = l
  BY <1>1, <1>2, Zenon DEF AnswerFacts, RunFacts, Awaited
<1>8. s \in Shard /\ HomeOf(s, l)
  BY <1>4, <1>7, LineShape, FrontendAssumption, Zenon DEF Home, HomeOf, Loc, IsLocal
<1>9. r \in Answers \ {Nothing}
  BY <1>8, OutcomeSays, Zenon
<1>10. /\ runs' \in [Client \X (1..MaxLines) -> {0, 1}]
       /\ \A id \in Client \X (1..MaxLines) : runs'[id] = IF id = <<c, i>> THEN 1 ELSE runs[id]
       /\ data' \in [Shard -> [Key -> Value \cup {Absent}]]
       /\ DataFacts'
       /\ \A d \in Client, k \in Key : d # owner => promised'[d][k] \in {promised[d][k], Unknown}
       /\ l.verb \in {"GET", "EXISTS"} => promised' = promised
  BY <1>5, <1>6, <1>7, <1>8, ExecutionKeeps, Zenon
<1>11. /\ answer' \in [Client -> Answers]
       /\ \A d \in Client : d # c \/ ~w => answer'[d] = answer[d]
       /\ w => answer'[c] = r
  BY <1>5, <1>9, Zenon DEF Typed
<1>12. Typed'
  BY <1>6, <1>10, <1>11, Zenon DEF Typed
<1>13. Counted' /\ SockFacts'
  BY <1>6, SameSockets, Zenon
<1>14. RunFacts'
  <2>1. ASSUME NEW d \in Client, NEW j \in 1..MaxLines, j > handled[d]
        PROVE  runs'[<<d, j>>] = 0
    <3>1. <<d, j>> # <<c, i>>
      BY <1>7, <2>1 DEF RunFacts
    <3> QED  BY <1>10, <2>1, <3>1, Zenon DEF RunFacts
  <2>2. ASSUME NEW p \in requests'
        PROVE  p.no <= handled[p.from] /\ runs'[<<p.from, p.no>>] = 0
    <3>1. /\ p \in requests /\ p # q /\ p.from \in Client /\ p.no \in 1..MaxLines
          /\ p.no <= handled[p.from] /\ runs[<<p.from, p.no>>] = 0
      BY <1>6, <2>2, Zenon DEF RunFacts, Typed
    <3>2. <<p.from, p.no>> # <<c, i>>
      BY <1>1, <3>1, Zenon DEF RunFacts
    <3> QED  BY <1>10, <3>1, <3>2, Zenon
  <2>3. \A p, o \in requests' : p.from = o.from /\ p.no = o.no => p = o
    BY <1>6, Zenon DEF RunFacts
  <2>4. ASSUME NEW d \in Client
        PROVE  /\ at[d] # "wait" => answer'[d] = Nothing
               /\ answer'[d] # Nothing => runs'[<<d, handled[d]>>] = 1
    <3>1. CASE d = c /\ w
      BY <1>7, <1>10, <1>11, <3>1, Zenon
    <3>2. CASE d # c \/ ~w
      <4>1. answer'[d] = answer[d]
        BY <1>11, <3>2, Zenon
      <4>2. answer[d] # Nothing => handled[d] \in 1..MaxLines /\ runs[<<d, handled[d]>>] = 1
        BY Zenon DEF RunFacts
      <4> QED  BY <1>10, <4>1, <4>2, Zenon DEF RunFacts
    <3> QED  BY <3>1, <3>2, Zenon
  <2> QED  BY <1>6, <1>10, <2>1, <2>2, <2>3, <2>4, Zenon DEF RunFacts
<1>15. ExecutedOnce'
  <2>1. \A id \in DOMAIN runs' : runs'[id] <= 1
    <3> TAKE id \in DOMAIN runs'
    <3>1. runs'[id] \in {0, 1}
      BY <1>10, Zenon
    <3> QED  BY <3>1
  <2>2. ASSUME NEW d \in Client, at[d] = "send", runs[<<d, handled[d]>>] = 1
        PROVE  runs'[<<d, handled[d]>>] = 1
    <3>1. handled[d] \in 1..MaxLines
      BY <2>2, Zenon DEF RunFacts
    <3> QED  BY <1>10, <2>2, <3>1, Zenon
  <2> QED  BY <1>6, <2>1, <2>2, Zenon DEF ExecutedOnce
<1>16. AnswerFacts'
  <2>1. \A p \in requests' : isRouter' /\ ~IsLocal(p.line) /\ (Awaited(p)' => p.line = line'[p.from])
    BY <1>6, Zenon DEF AnswerFacts, Awaited
  <2>2. ASSUME NEW d \in Client
        PROVE  /\ at'[d] = "wait" => Agrees(d, line[d], answer[d])'
               /\ at'[d] = "send" => reply'[d] # Nothing /\ Agrees(d, line[d], reply[d])'
    <3>1. CASE d = c /\ w
      <4>1. Agrees(c, l, r)'
        <5>1. CASE l.verb \in {"GET", "EXISTS"}
          BY <1>8, <1>10, <5>1, ReadAgrees, AgreesStays, Zenon
        <5>2. CASE l.verb \notin {"GET", "EXISTS"}
          BY <5>2, Zenon DEF Agrees
        <5> QED  BY <5>1, <5>2, Zenon
      <4>2. at'[d] = "wait" /\ line'[d] = l /\ answer'[d] = r
        BY <1>6, <1>7, <1>11, <3>1, Zenon
      <4> QED  BY <3>1, <4>1, <4>2, Zenon DEF Agrees
    <3>2. CASE d # c \/ ~w
      <4>1. d # owner
        BY <1>3, <3>2, FrontendAssumption, Zenon
      <4>2. \A m, a : Agrees(d, m, a) => Agrees(d, m, a)'
        BY <1>10, <4>1, AgreesStays, Zenon
      <4>3. PICK m, a, b : m = line[d] /\ a = answer[d] /\ b = reply[d]
        OBVIOUS
      <4>4. /\ at'[d] = "wait" => Agrees(d, m, a)'
            /\ at'[d] = "send" => b # Nothing /\ Agrees(d, m, b)'
        BY <1>6, <4>2, <4>3, Zenon DEF AnswerFacts
      <4>5. m = line'[d] /\ a = answer'[d] /\ b = reply'[d]
        BY <1>6, <1>11, <3>2, <4>3, Zenon
      <4> QED  BY <4>4, <4>5, Zenon DEF Agrees
    <3> QED  BY <3>1, <3>2, Zenon
  <2> QED  BY <1>6, <2>1, <2>2, Zenon DEF AnswerFacts, Awaited
<1> QED  BY <1>10, <1>12, <1>13, <1>14, <1>15, <1>16, Zenon
-----------------------------------------------------------------------------
(* The theorems. *)

LEMMA InitIInv == Init => IInv
<1> SUFFICES ASSUME Init PROVE IInv
  OBVIOUS
<1>1. Typed
  <2>1. /\ isRouter \in BOOLEAN /\ workers \in 1..MaxWorkers
    BY Zenon DEF Init
  <2>2. queue = <<>> /\ queue \in Seq(Client) /\ Len(queue) <= MaxQueue
    <3>1. queue = <<>> /\ Len(<<>>) = 0
      BY Zenon DEF Init
    <3> QED  BY <3>1, FrontendAssumption
  <2>3. /\ reply \in [Client -> Answers] /\ answer \in [Client -> Answers]
        /\ line \in [Client -> Line \cup {NoLine}]
    BY AnswersTyped, Zenon DEF Init
  <2> QED  BY <2>1, <2>2, <2>3, Zenon DEF Init, Typed, Place
<1>2. Counted
  <2>1. Serving = {}
    BY Zenon DEF Init, Serving
  <2>2. Cardinality(Serving) = 0
    BY <2>1, FS_EmptySet, Zenon
  <2>3. connected = 0 /\ workers \in Nat
    BY DEF Init
  <2> QED  BY <2>2, <2>3 DEF Counted
<1>3. SockFacts
  <2>1. queue = <<>> /\ acc = NoConn /\ Len(<<>>) = 0
    BY Zenon DEF Init
  <2>2. \A c \in Client : ~Submitting(c) /\ ~Queued(c)
    BY <2>1, RecordsDiffer DEF Submitting, Queued
  <2>3. \A c \in Client : SocketOK(c)
    BY <2>2, Zenon DEF Init, SocketOK
  <2> QED  BY <2>1, <2>3 DEF SockFacts
<1>4. RunFacts /\ ExecutedOnce
  <2>1. 0 \in 0..MaxLines
    BY FrontendAssumption
  <2>2. RunFacts
    BY <2>1 DEF Init, RunFacts
  <2> QED  BY <2>2 DEF Init, ExecutedOnce
<1>5. DataFacts
  BY UnknownIsNoValue, Zenon DEF Init, DataFacts, Promises
<1>6. AnswerFacts
  BY Zenon DEF Init, AnswerFacts
<1> QED  BY <1>1, <1>2, <1>3, <1>4, <1>5, <1>6, Zenon DEF IInv

LEMMA StutterKeepsIInv ==
  ASSUME IInv, UNCHANGED vars
  PROVE  IInv'
<1> USE DEF IInv
<1>1. UNCHANGED <<isRouter, workers, acc, queue, sock, closes, at, line, reply, requests, answer,
                  data, connected, handled, taken, runs, promised>>
  BY Zenon DEF vars, config, sockets, worker, shards, history
<1>2. Typed' /\ Counted' /\ SockFacts'
  BY <1>1, SameSockets, Zenon DEF Typed
<1>3. RunFacts' /\ ExecutedOnce'
  BY <1>1, SameRuns, Zenon
<1>4. DataFacts' /\ AnswerFacts'
  BY <1>1, SameData, SameAnswers, Zenon DEF Typed
<1> QED  BY <1>2, <1>3, <1>4, Zenon

\* The invariant is inductive: every step of the accept loop, of the workers and
\* of the shards keeps it.
THEOREM InductiveInvariant == Spec => []IInv
<1>1. IInv /\ [Next]_vars => IInv'
  <2> SUFFICES ASSUME IInv, [Next]_vars PROVE IInv'
    OBVIOUS
  <2>1. CASE \E c \in Client : Accept(c)
    BY <2>1, AcceptKeepsIInv, Zenon
  <2>2. CASE \E c \in Client : WorkerStep(c)
    BY <2>2, ReadAnswerKeepsIInv, ForwardFailsKeepsIInv, SendReplyKeepsIInv, LeaveKeepsIInv, Zenon,
       CloseConnectionKeepsIInv DEF WorkerStep
  <2>3. CASE \E c \in Client, l \in Line : TakesUp(c, l)
    BY <2>3, AnswerLocallyKeepsIInv, ExecuteHereKeepsIInv, ForwardKeepsIInv, Zenon DEF TakesUp
  <2>4. CASE Submit \/ Release \/ Begin
    BY <2>4, SubmitKeepsIInv, ReleaseKeepsIInv, BeginKeepsIInv, Zenon
  <2>5. CASE \E q \in requests : ShardExecutes(q)
    BY <2>5, ShardExecutesKeepsIInv, Zenon
  <2>6. CASE UNCHANGED vars
    BY <2>6, StutterKeepsIInv, Zenon
  <2> QED  BY <2>1, <2>2, <2>3, <2>4, <2>5, <2>6, Zenon DEF Next
<1> QED  BY <1>1, InitIInv, PTL DEF Spec

\* The types hold in every reachable state, the connected gauge is exact and there
\* are never more connections served than workers.
THEOREM TypeCorrect == Spec => []TypeOK
<1>1. IInv => TypeOK
  <2> SUFFICES ASSUME IInv PROVE TypeOK
    OBVIOUS
  <2>1. acc.conn \in Client \cup {Absent} /\ acc.step \in {"accept", "submit", "release"}
    BY DEF IInv, SockFacts, NoConn
  <2> QED  BY <2>1, Zenon DEF IInv, Typed, Counted, TypeOK
<1> QED  BY <1>1, InductiveInvariant, PTL

\* Every accepted socket has one owner, accept loop, queue or worker, and is closed
\* once.
THEOREM SocketsHaveOneOwner == Spec => []SocketClosedOnce
<1>1. IInv => SocketClosedOnce
  <2> SUFFICES ASSUME IInv, NEW c \in Client
               PROVE  /\ closes[c] <= 1
                      /\ sock[c] = "open" => \/ acc = [conn |-> c, step |-> "submit"]
                                              \/ c \in Range(queue) \/ c \in Serving
    BY Zenon DEF SocketClosedOnce
  <2>1. closes[c] \in {0, 1}
    BY Zenon DEF IInv, SockFacts, SocketOK
  <2>2. sock[c] = "open" => Submitting(c) \/ Queued(c) \/ at[c] # "none"
    BY Zenon DEF IInv, SockFacts, SocketOK
  <2>3. Queued(c) => c \in Range(queue)
    BY DEF IInv, Typed, Queued, Range
  <2>4. at[c] # "none" => c \in Serving
    BY Zenon DEF Serving
  <2> QED  BY <2>1, <2>2, <2>3, <2>4 DEF Submitting
<1> QED  BY <1>1, InductiveInvariant, PTL

\* No line is executed twice, whatever times out on its way, and a result that a
\* client reads comes from an execution.
THEOREM LinesRunOnce == Spec => []ExecutedOnce
<1>1. IInv => ExecutedOnce
  BY Zenon DEF IInv
<1> QED  BY <1>1, InductiveInvariant, PTL

\* GET and EXISTS answer with what their client last wrote with success, on a store
\* and through a router, however forwarded lines are lost, late or refused.
THEOREM ReadsSeeOwnWrites == Spec => []ReadYourWrites
<1>1. IInv => ReadYourWrites
  <2> SUFFICES ASSUME IInv, NEW c \in Client, at[c] = "send"
               PROVE  /\ line[c].verb = "GET" /\ reply[c] # Err
                         => promised[c][line[c].key] \in {Unknown, Known(reply[c].val)}
                      /\ line[c].verb = "EXISTS" /\ reply[c].kind = "1"
                         => promised[c][line[c].key] # Known(Absent)
                      /\ line[c].verb = "EXISTS" /\ reply[c].kind = "0"
                         => promised[c][line[c].key] \in {Unknown, Known(Absent)}
    BY Zenon DEF ReadYourWrites
  <2>1. Agrees(c, line[c], reply[c])
    BY Zenon DEF IInv, AnswerFacts
  <2>2. Err.kind = "ERR" /\ Nothing.kind = "none"
    BY Zenon DEF Err, Nothing, Reply
  <2>3. reply[c] # Nothing
    BY Zenon DEF IInv, AnswerFacts
  <2> QED  BY <2>1, <2>2, <2>3, Zenon DEF Agrees
<1> QED  BY <1>1, InductiveInvariant, PTL

-----------------------------------------------------------------------------
(* A router with its shards is one map. *)

\* A line that is waited for is on its way or has been answered; a worker that has
\* none in hand remembers none.
AskedOK(c) ==
  /\ at[c] = "wait" /\ answer[c] = Nothing
       => [from |-> c, no |-> handled[c], line |-> line[c]] \in requests
  /\ at[c] \notin {"wait", "send"} => line[c] = NoLine /\ reply[c] = Nothing

AskedFacts == \A c \in Client : AskedOK(c)

LEMMA DoingShape ==
  /\ \A l, r : K!Answered(l, r).step = "answered" /\ K!Answered(l, r).line = l
  /\ \A l : K!Asked(l).step = "asked" /\ K!Asked(l).line = l
  BY DEF K!Answered, K!Asked

\* What the map's client c is doing, place by place.
LEMMA DoingIs ==
  ASSUME RunFacts, AskedFacts, NEW c \in Client
  PROVE  /\ at[c] = "send" => Doing[c] = K!Answered(line[c], reply[c])
         /\ at[c] = "wait" /\ answer[c] = Nothing => Doing[c] = K!Asked(line[c])
         /\ at[c] = "wait" /\ answer[c] # Nothing
              => Doing[c] = K!Answered(line[c], answer[c])
         /\ at[c] \notin {"wait", "send"} => Doing[c] = K!Idle
<1>1. /\ Doing[c].line = line[c]
      /\ Doing[c] = [step |-> Doing[c].step, line |-> Doing[c].line, reply |-> Doing[c].reply]
      /\ at[c] = "wait" => Doing[c].reply = answer[c]
      /\ at[c] # "wait" => Doing[c].reply = reply[c]
  BY DEF Doing
<1>2. /\ at[c] = "send" => Doing[c].step = "answered"
      /\ at[c] = "wait" /\ answer[c] = Nothing => Doing[c].step = "asked"
      /\ at[c] = "wait" /\ answer[c] # Nothing => Doing[c].step = "answered"
      /\ at[c] \notin {"wait", "send"} => Doing[c].step = "idle"
  BY DEF Doing
<1>3. at[c] \notin {"wait", "send"} => line[c] = NoLine /\ reply[c] = Nothing
  BY Zenon DEF AskedFacts, AskedOK
<1> QED  BY <1>1, <1>2, <1>3 DEF K!Answered, K!Asked, K!Idle

\* The same after a step.
LEMMA DoingIsNext ==
  ASSUME NEW c \in Client
  PROVE  /\ at'[c] = "send" => Doing'[c] = K!Answered(line'[c], reply'[c])
         /\ at'[c] = "wait" /\ answer'[c] = Nothing => Doing'[c] = K!Asked(line'[c])
         /\ at'[c] = "wait" /\ answer'[c] # Nothing
              => Doing'[c] = K!Answered(line'[c], answer'[c])
         /\ at'[c] \notin {"wait", "send"} /\ line'[c] = NoLine /\ reply'[c] = Nothing
              => Doing'[c] = K!Idle
<1>1. /\ Doing'[c].line = line'[c]
      /\ Doing'[c] = [step |-> Doing'[c].step, line |-> Doing'[c].line, reply |-> Doing'[c].reply]
      /\ at'[c] = "wait" => Doing'[c].reply = answer'[c]
      /\ at'[c] # "wait" => Doing'[c].reply = reply'[c]
  BY DEF Doing
<1>2. /\ at'[c] = "send" => Doing'[c].step = "answered"
      /\ at'[c] = "wait" /\ answer'[c] = Nothing => Doing'[c].step = "asked"
      /\ at'[c] = "wait" /\ answer'[c] # Nothing => Doing'[c].step = "answered"
      /\ at'[c] \notin {"wait", "send"} => Doing'[c].step = "idle"
  BY DEF Doing, Nothing, Reply
<1> QED  BY <1>1, <1>2 DEF K!Answered, K!Asked, K!Idle

\* A step of one connection's worker, or of a shard for it.
OnlyOf(c) ==
  \A e \in Client \ {c} :
    at'[e] = at[e] /\ line'[e] = line[e] /\ reply'[e] = reply[e] /\ answer'[e] = answer[e]

LEMMA DoingBecomes ==
  ASSUME NEW c \in Client, OnlyOf(c)
  PROVE  Doing' = [Doing EXCEPT ![c] = Doing'[c]]
<1>1. \A e \in Client \ {c} : Doing'[e] = Doing[e]
  BY DEF Doing, OnlyOf, Nothing, Reply
<1>2. /\ Doing = [e \in Client |-> Doing[e]]
      /\ Doing' = [e \in Client |-> Doing'[e]]
  BY Zenon DEF Doing
<1> QED  BY <1>1, <1>2

LEMMA SameLate ==
  ASSUME UNCHANGED requests, \A q \in requests : Awaited(q)' <=> Awaited(q)
  PROVE  Late' = Late
  BY Zenon DEF Late

LEMMA SameStore ==
  ASSUME UNCHANGED <<isRouter, data>>
  PROVE  Store' = Store
  BY DEF Store, Own

\* Steps between two lines.
LEMMA BetweenLines ==
  ASSUME AskedFacts, Typed,
         UNCHANGED <<isRouter, line, reply, requests, answer, data, handled>>,
         \A c \in Client : at'[c] # at[c] =>
            {at[c], at'[c]} \subseteq {"none", "recv", "close"}
  PROVE  AskedFacts' /\ UNCHANGED K!service
<1>1. AskedFacts'
  BY Zenon DEF AskedFacts, AskedOK
<1>2. \A q \in requests : Awaited(q)' <=> Awaited(q)
  BY Zenon DEF Awaited, Typed
<1>3. \A c \in Client : Doing'[c] = Doing[c]
  BY DEF Doing, Nothing, Reply
<1>4. Doing' = Doing
  <2>1. /\ Doing = [e \in Client |-> Doing[e]]
        /\ Doing' = [e \in Client |-> Doing'[e]]
    BY Zenon DEF Doing
  <2> QED  BY <1>3, <2>1
<1> QED  BY <1>1, <1>2, <1>4, SameLate, SameStore, Zenon DEF K!service

\* The worker of c leaves its wait, or its place in between, and hears nothing more.
LEMMA OneWorker ==
  ASSUME IInv, AskedFacts, NEW c \in Client, OnlyOf(c), AskedOK(c)',
         requests \subseteq requests', \A e \in Client \ {c} : handled'[e] = handled[e]
  PROVE  AskedFacts'
<1> SUFFICES ASSUME NEW e \in Client \ {c}
             PROVE  AskedOK(e)'
  BY Zenon DEF AskedFacts
<1>1. AskedOK(e)
  BY Zenon DEF AskedFacts
<1> QED  BY <1>1, Zenon DEF AskedOK, OnlyOf

LEMMA ReadAnswerStutters ==
  ASSUME IInv, AskedFacts, NEW c \in Client, ReadAnswer(c)
  PROVE  AskedFacts' /\ UNCHANGED K!service
<1> USE DEF IInv
<1>1. /\ at[c] = "wait" /\ answer[c] # Nothing /\ at'[c] = "send"
      /\ reply'[c] = answer[c] /\ line'[c] = line[c] /\ OnlyOf(c)
      /\ UNCHANGED <<isRouter, data, requests, handled>>
  BY Zenon DEF ReadAnswer, OnlyOf, Typed, config, history
<1>2. AskedFacts'
  BY <1>1, OneWorker, Zenon DEF AskedOK
<1>3. Doing'[c] = Doing[c]
  BY <1>1, DoingIs, DoingIsNext, Zenon
<1>4. Doing' = Doing
  <2>1. Doing' = [Doing EXCEPT ![c] = Doing[c]]
    BY <1>1, <1>3, DoingBecomes, Zenon
  <2>2. Doing = [e \in Client |-> Doing[e]]
    BY Zenon DEF Doing
  <2> QED  BY <2>1, <2>2
<1>5. ASSUME NEW q \in requests
      PROVE  Awaited(q)' <=> Awaited(q)
  <2>1. q.from \in Client /\ runs[<<q.from, q.no>>] = 0
    BY Zenon DEF Typed, RunFacts
  <2>2. runs[<<c, handled[c]>>] = 1
    BY <1>1, Zenon DEF RunFacts
  <2>3. CASE q.from = c
    <3>1. q.no # handled[c]
      BY <2>1, <2>2, <2>3
    <3> QED  BY <1>1, <2>3, <3>1, Zenon DEF Awaited
  <2>4. CASE q.from # c
    BY <1>1, <2>1, <2>4, Zenon DEF Awaited, OnlyOf
  <2> QED  BY <2>3, <2>4, Zenon
<1> QED  BY <1>1, <1>2, <1>4, <1>5, SameLate, SameStore, Zenon DEF K!service

LEMMA SendReplyIsHeard ==
  ASSUME IInv, AskedFacts, NEW c \in Client, SendReply(c)
  PROVE  AskedFacts' /\ K!Hear(c)
<1> USE DEF IInv
<1>1. /\ at[c] = "send" /\ at'[c] \in {"recv", "close"}
      /\ reply'[c] = Nothing /\ line'[c] = NoLine /\ OnlyOf(c)
      /\ UNCHANGED <<isRouter, data, requests, handled>>
  BY Zenon DEF SendReply, OnlyOf, Typed, config, shards
<1>2. AskedFacts'
  BY <1>1, OneWorker, Zenon DEF AskedOK
<1>3. Doing[c].step = "answered"
  <2>1. Doing[c] = K!Answered(line[c], reply[c])
    BY <1>1, DoingIs, Zenon
  <2>2. K!Answered(line[c], reply[c]).step = "answered"
    BY DoingShape
  <2> QED  BY <2>1, <2>2
<1>4. Doing'[c] = K!Idle
  BY <1>1, DoingIsNext, Zenon
<1>5. Doing' = [Doing EXCEPT ![c] = K!Idle]
  BY <1>1, <1>4, DoingBecomes, Zenon
<1>6. \A q \in requests : Awaited(q)' <=> Awaited(q)
  BY <1>1, Zenon DEF Awaited, OnlyOf, Typed
<1> QED  BY <1>1, <1>2, <1>3, <1>5, <1>6, SameLate, SameStore, Zenon DEF K!Hear, K!Becomes

LEMMA ForwardFailsGivesUp ==
  ASSUME IInv, AskedFacts, NEW c \in Client, ForwardFails(c)
  PROVE  AskedFacts' /\ K!GiveUp(c)
<1> USE DEF IInv
<1>1. /\ at[c] = "wait" /\ at'[c] = "send" /\ reply'[c] = Err /\ line'[c] = line[c]
      /\ OnlyOf(c) /\ UNCHANGED <<isRouter, data, handled>>
      /\ requests' \in {requests, {q \in requests : ~(q.from = c /\ q.no = handled[c])}}
  BY Zenon DEF ForwardFails, OnlyOf, Typed, config, history
<1>2. AskedFacts'
  <2> SUFFICES ASSUME NEW e \in Client
               PROVE  AskedOK(e)'
    BY Zenon DEF AskedFacts
  <2>1. CASE e = c
    BY <1>1, <2>1, Zenon DEF AskedOK
  <2>2. CASE e # c
    <3>1. AskedOK(e)
      BY Zenon DEF AskedFacts
    <3>2. ASSUME NEW q \in requests, q.from = e
          PROVE  q \in requests'
      BY <1>1, <2>2, <3>2, Zenon
    <3> QED  BY <1>1, <2>2, <3>1, <3>2, Zenon DEF AskedOK, OnlyOf
  <2> QED  BY <2>1, <2>2, Zenon
<1>3. /\ Doing[c].step \in {"asked", "answered"} /\ Doing[c].line = line[c]
      /\ answer[c] = Nothing => Doing[c].step = "asked"
  <2>1. CASE answer[c] = Nothing
    <3>1. Doing[c] = K!Asked(line[c])
      BY <1>1, <2>1, DoingIs, Zenon
    <3> QED  BY <3>1, DoingShape, Zenon
  <2>2. CASE answer[c] # Nothing
    <3>1. Doing[c] = K!Answered(line[c], answer[c])
      BY <1>1, <2>2, DoingIs, Zenon
    <3>2. /\ K!Answered(line[c], answer[c]).step = "answered"
          /\ K!Answered(line[c], answer[c]).line = line[c]
      BY DoingShape
    <3> QED  BY <2>2, <3>1, <3>2
  <2> QED  BY <2>1, <2>2, Zenon
<1>4. Doing' = [Doing EXCEPT ![c] = K!Answered(Doing[c].line, Err)]
  <2>1. Doing'[c] = K!Answered(line'[c], reply'[c])
    BY <1>1, DoingIsNext, Zenon
  <2>2. Doing'[c] = K!Answered(Doing[c].line, Err)
    BY <1>1, <1>3, <2>1
  <2> QED  BY <1>1, <2>2, DoingBecomes, Zenon
<1>5. ASSUME NEW q \in requests
      PROVE  /\ q.from = c /\ q.no = handled[c] => Awaited(q) /\ ~Awaited(q)'
             /\ ~(q.from = c /\ q.no = handled[c]) => (Awaited(q)' <=> Awaited(q))
  <2>1. q.from \in Client
    BY Zenon DEF Typed
  <2>2. CASE q.from = c
    BY <1>1, <2>2, Zenon DEF Awaited
  <2>3. CASE q.from # c
    BY <1>1, <2>1, <2>3, Zenon DEF Awaited, OnlyOf
  <2> QED  BY <2>2, <2>3, Zenon
<1>6. \/ Late' = Late
      \/ answer[c] = Nothing
           /\ Late' = Late \cup {[from |-> c, no |-> handled[c], line |-> line[c]]}
  <2>1. CASE requests' = {q \in requests : ~(q.from = c /\ q.no = handled[c])}
    BY <1>5, <2>1, Zenon DEF Late
  <2>2. CASE requests' = requests /\ answer[c] # Nothing
    <3>1. runs[<<c, handled[c]>>] = 1
      BY <2>2, Zenon DEF RunFacts
    <3>2. \A q \in requests : ~(q.from = c /\ q.no = handled[c])
      BY <3>1 DEF RunFacts
    <3> QED  BY <1>5, <2>2, <3>2, SameLate, Zenon
  <2>3. CASE requests' = requests /\ answer[c] = Nothing
    <3>1. PICK w : w = [from |-> c, no |-> handled[c], line |-> line[c]]
      OBVIOUS
    <3>2. w \in requests /\ w.from = c /\ w.no = handled[c]
      BY <1>1, <2>3, <3>1, Zenon DEF AskedFacts, AskedOK
    <3>3. \A q \in requests : q.from = c /\ q.no = handled[c] => q = w
      BY <3>2, Zenon DEF RunFacts
    <3>4. Late' = Late \cup {w}
      BY <1>5, <2>3, <3>2, <3>3, Zenon DEF Late
    <3> QED  BY <2>3, <3>1, <3>4, Zenon
  <2> QED  BY <1>1, <2>1, <2>2, <2>3, Zenon
<1>7. Store' = Store
  BY <1>1, SameStore, Zenon
<1> QED  BY <1>1, <1>2, <1>3, <1>4, <1>6, <1>7, Zenon DEF K!GiveUp, K!Becomes

-----------------------------------------------------------------------------
(* A line takes effect. *)

\* What a line answers depends on what the map says of its key, and nothing else.
LEMMA OutcomesAgree ==
  ASSUME NEW l \in Line, NEW m, NEW n, l.key \in Key => m[l.key] = n[l.key]
  PROVE  Outcomes(m, l) = Outcomes(n, l)
<1>1. ASSUME WellFormed(l)
      PROVE  Result(m, l) = Result(n, l)
  <2>1. CASE l.verb = "QUIT"
    BY <2>1 DEF Result
  <2>2. CASE l.verb # "QUIT"
    <3>1. m[l.key] = n[l.key]
      BY <1>1, <2>2, LineShape, Zenon
    <3> QED  BY <3>1 DEF Result
  <2> QED  BY <2>1, <2>2, Zenon
<1> QED  BY <1>1, Zenon DEF Outcomes

LEMMA StoreIs ==
  /\ Store = [k \in Key |-> Store[k]]
  /\ \A k \in Key : Store[k] = data[Loc(k)][k]
  BY DEF Store, Loc

LEMMA TakesEffect ==
  ASSUME IInv, UNCHANGED isRouter, NEW l \in Line, NEW s, HomeOf(s, l),
         NEW r \in Outcomes(data[s], l),
         \/ (r = Err \/ ~IsWrite(l)) /\ UNCHANGED data
         \/ r # Err /\ IsWrite(l) /\ data' = [data EXCEPT ![s][l.key] = l.rest]
  PROVE  K!Effect(l, r)
<1> USE DEF IInv
<1>1. r \in Outcomes(Store, l)
  <2>1. l.key \in Key => Store[l.key] = data[s][l.key]
    BY StoreIs DEF HomeOf
  <2>2. PICK m, n : m = data[s] /\ n = Store
    OBVIOUS
  <2>3. Outcomes(m, l) = Outcomes(n, l)
    BY <2>1, <2>2, OutcomesAgree, Zenon
  <2> QED  BY <2>2, <2>3, Zenon
<1>2. CASE (r = Err \/ ~IsWrite(l)) /\ UNCHANGED data
  <2>1. Store' = Store
    BY <1>2, SameStore, Zenon
  <2> QED  BY <1>1, <1>2, <2>1, Zenon DEF K!Effect
<1>3. CASE r # Err /\ IsWrite(l) /\ data' = [data EXCEPT ![s][l.key] = l.rest]
  <2>1. l.key \in Key /\ s \in Shard /\ s = Loc(l.key)
    BY <1>3, LineShape, Zenon DEF HomeOf
  <2>2. \A t \in Shard, k \in Key :
          data'[t][k] = IF t = s /\ k = l.key THEN l.rest ELSE data[t][k]
    BY <1>3, <2>1, Zenon DEF Typed
  <2>3. \A k \in Key : Loc(k)' = Loc(k) /\ Loc(k) \in Shard
    BY FrontendAssumption DEF Loc, Own
  <2>4. Store' = [k \in Key |-> data'[Loc(k)'][k]]
    BY DEF Store, Loc, Own
  <2>5. \A k \in Key : data'[Loc(k)'][k] = IF k = l.key THEN l.rest ELSE Store[k]
    BY <2>1, <2>2, <2>3, StoreIs
  <2>6. Store' = [k \in Key |-> IF k = l.key THEN l.rest ELSE Store[k]]
    BY <2>4, <2>5
  <2>7. Store' = [Store EXCEPT ![l.key] = l.rest]
    BY <2>1, <2>6, StoreIs
  <2> QED  BY <1>1, <1>3, <2>7, Zenon DEF K!Effect
<1> QED  BY <1>2, <1>3, Zenon

\* The worker of c has read its next line.
LEMMA LineArrives ==
  ASSUME IInv, AskedFacts, NEW c \in Client, NEW l \in Line, TakeLine(c, l), OnlyOf(c)
  PROVE  /\ Doing[c] = K!Idle
         /\ handled' = [handled EXCEPT ![c] = @ + 1]
         /\ \A q \in requests : Awaited(q)' <=> Awaited(q)
<1> USE DEF IInv
<1>1. /\ at[c] = "recv" /\ line'[c] = l
      /\ handled' = [handled EXCEPT ![c] = @ + 1]
      /\ \A d \in Client : handled'[d] = IF d = c THEN handled[c] + 1 ELSE handled[d]
  BY Taken, Zenon DEF TakeLine
<1>2. Doing[c] = K!Idle
  <2>1. at[c] \notin {"wait", "send"}
    BY <1>1
  <2> QED  BY <2>1, DoingIs, Zenon
<1>3. ASSUME NEW q \in requests
      PROVE  Awaited(q)' <=> Awaited(q)
  <2>1. q.from \in Client /\ q.no \in 1..MaxLines /\ q.no <= handled[q.from]
    BY Zenon DEF Typed, RunFacts
  <2>2. CASE q.from = c
    <3>1. handled[c] \in 0..MaxLines /\ MaxLines \in Nat
      BY FrontendAssumption, Zenon DEF RunFacts
    <3>2. q.no # handled[c] + 1
      BY <2>1, <2>2, <3>1, OldNumber
    <3> QED  BY <1>1, <2>2, <3>2 DEF Awaited
  <2>3. CASE q.from # c
    BY <1>1, <2>1, <2>3, Zenon DEF Awaited, OnlyOf
  <2> QED  BY <2>2, <2>3, Zenon
<1> QED  BY <1>1, <1>2, <1>3, Zenon

\* The line is answered without leaving the node.
LEMMA AnsweredAtOnce ==
  ASSUME IInv, AskedFacts, NEW c \in Client, NEW l \in Line, NEW r, TakeLine(c, l),
         OnlyOf(c), at'[c] = "send", reply'[c] = r, UNCHANGED requests
  PROVE  AskedFacts' /\ K!Sends(c) /\ K!Becomes(c, K!Answered(l, r))
<1>1. line'[c] = l /\ \A e \in Client \ {c} : handled'[e] = handled[e]
  BY Taken, Zenon
<1>2. AskedFacts'
  BY <1>1, OneWorker, Zenon DEF AskedOK
<1>3. Doing'[c] = K!Answered(line'[c], reply'[c])
  BY DoingIsNext, Zenon
<1>4. Doing'[c] = K!Answered(l, r)
  BY <1>1, <1>3
<1>5. Doing' = [Doing EXCEPT ![c] = K!Answered(l, r)]
  BY <1>4, DoingBecomes, Zenon
<1> QED  BY <1>2, <1>5, LineArrives, SameLate, Zenon DEF K!Sends, K!Becomes

LEMMA AnswerLocallyRefuses ==
  ASSUME IInv, AskedFacts, NEW c \in Client, NEW l \in Line, AnswerLocally(c, l)
  PROVE  AskedFacts' /\ K!KStep
<1>1. PICK r : r = IF l.verb = "QUIT" THEN Reply("OK") ELSE Err
  OBVIOUS
<1>2. /\ TakeLine(c, l) /\ OnlyOf(c) /\ at'[c] = "send" /\ reply'[c] = r
      /\ UNCHANGED <<isRouter, data, requests>>
  BY <1>1, Zenon DEF AnswerLocally, TakeLine, OnlyOf, IInv, Typed, config, shards
<1>3. AskedFacts' /\ K!Sends(c) /\ K!Becomes(c, K!Answered(l, r))
  BY <1>2, AnsweredAtOnce, Zenon
<1>4. r \in Unexecuted(l)
  BY <1>1, Zenon DEF Unexecuted
<1>5. K!Refuse(c, l, r)
  BY <1>2, <1>3, SameStore, Zenon DEF K!Refuse
<1> QED  BY <1>3, <1>4, <1>5, Zenon DEF K!KStep, K!Takes

LEMMA ExecuteHereExecutes ==
  ASSUME IInv, AskedFacts, NEW c \in Client, NEW l \in Line, ExecuteHere(c, l)
  PROVE  AskedFacts' /\ K!KStep
<1>1. PICK r \in Outcomes(data[Own], l) :
        execute_line(Own, c, handled[c] + 1, l, c, r) /\ reply' = [reply EXCEPT ![c] = r]
  BY Zenon DEF ExecuteHere
<1>2. /\ TakeLine(c, l) /\ OnlyOf(c) /\ at'[c] = "send" /\ reply'[c] = r
      /\ ~isRouter /\ UNCHANGED <<isRouter, requests>>
  BY <1>1, Zenon DEF ExecuteHere, TakeLine, OnlyOf, IInv, Typed, config
<1>3. AskedFacts' /\ K!Sends(c) /\ K!Becomes(c, K!Answered(l, r))
  BY <1>2, AnsweredAtOnce, Zenon
<1>4. HomeOf(Own, l)
  BY <1>2, FrontendAssumption DEF HomeOf, Loc, Own
<1>5. K!Effect(l, r)
  BY <1>1, <1>2, <1>4, TakesEffect, Zenon DEF execute_line
<1>6. r \in Outcomes(Store, l) /\ K!ExecuteAtOnce(c, l, r)
  BY <1>3, <1>5, Zenon DEF K!Effect, K!ExecuteAtOnce
<1> QED  BY <1>3, <1>6, Zenon DEF K!KStep, K!Takes

LEMMA ForwardAsks ==
  ASSUME IInv, AskedFacts, NEW c \in Client, NEW l \in Line, Forward(c, l)
  PROVE  AskedFacts' /\ K!KStep
<1> USE DEF IInv
<1>1. /\ TakeLine(c, l) /\ OnlyOf(c) /\ answer' = answer
      /\ UNCHANGED <<isRouter, data>>
  BY Zenon DEF Forward, TakeLine, OnlyOf, Typed, config
<1>2. /\ line'[c] = l /\ handled'[c] = handled[c] + 1 /\ answer[c] = Nothing
      /\ \A e \in Client \ {c} : handled'[e] = handled[e]
  BY <1>1, Taken, Zenon
<1>3. Store' = Store
  BY <1>1, SameStore, Zenon
<1>4. CASE /\ requests' = requests \cup {[from |-> c, no |-> handled[c] + 1, line |-> l]}
           /\ at' = [at EXCEPT ![c] = "wait"]
  <2>1. PICK w : w = [from |-> c, no |-> handled[c] + 1, line |-> l]
    OBVIOUS
  <2>2. at'[c] = "wait" /\ answer'[c] = Nothing /\ requests' = requests \cup {w}
    BY <1>1, <1>2, <1>4, <2>1, Zenon DEF Typed
  <2>3. AskedOK(c)'
    BY <1>2, <2>1, <2>2 DEF AskedOK
  <2>4. AskedFacts'
    BY <1>1, <1>2, <2>2, <2>3, OneWorker, Zenon
  <2>5. Doing'[c] = K!Asked(line'[c])
    BY <2>2, DoingIsNext, Zenon
  <2>6. Doing' = [Doing EXCEPT ![c] = K!Asked(l)]
    <3>1. Doing'[c] = K!Asked(l)
      BY <1>2, <2>5
    <3> QED  BY <1>1, <3>1, DoingBecomes, Zenon
  <2>7. Late' = Late
    <3>1. w.from = c /\ w.no = handled'[c]
      BY <1>2, <2>1
    <3>2. Awaited(w)'
      BY <2>2, <3>1 DEF Awaited
    <3>3. \A q \in requests : Awaited(q)' <=> Awaited(q)
      BY <1>1, LineArrives, Zenon
    <3> QED  BY <2>2, <3>2, <3>3, Zenon DEF Late
  <2>8. K!Sends(c) /\ K!Ask(c, l)
    BY <1>1, <1>3, <2>6, <2>7, LineArrives, Zenon DEF K!Sends, K!Ask, K!Becomes
  <2> QED  BY <2>4, <2>8, Zenon DEF K!KStep, K!Takes
<1>5. CASE /\ reply' = [reply EXCEPT ![c] = Err] /\ at' = [at EXCEPT ![c] = "send"]
           /\ requests' = requests
  <2>1. PICK r : r = Err
    OBVIOUS
  <2>2. at'[c] = "send" /\ reply'[c] = r
    BY <1>5, <2>1, Zenon DEF Typed
  <2>3. AskedFacts' /\ K!Sends(c) /\ K!Becomes(c, K!Answered(l, r))
    BY <1>1, <1>5, <2>2, AnsweredAtOnce, Zenon
  <2>4. r \in Unexecuted(l) /\ K!Refuse(c, l, r)
    BY <1>3, <2>1, <2>3, Zenon DEF Unexecuted, K!Refuse
  <2> QED  BY <2>3, <2>4, Zenon DEF K!KStep, K!Takes
<1> QED  BY <1>4, <1>5, Zenon DEF Forward

LEMMA ShardExecutesExecutes ==
  ASSUME IInv, AskedFacts, NEW q \in requests, ShardExecutes(q)
  PROVE  AskedFacts' /\ K!KStep
<1> USE DEF IInv
<1>1. PICK c \in Client, l \in Line : c = q.from /\ l = q.line
  BY Zenon DEF Typed
<1>2. PICK s : s = Home(l)
  OBVIOUS
<1>3. PICK r \in Outcomes(data[s], l) :
        /\ execute_line(s, c, q.no, l, IF Awaited(q) THEN c ELSE Absent, r)
        /\ answer' = [answer EXCEPT ![c] = IF Awaited(q) THEN r ELSE @]
  BY <1>1, <1>2, Zenon DEF ShardExecutes
<1>4. requests' = requests \ {q} /\ UNCHANGED <<isRouter, at, line, reply, handled>>
  BY Zenon DEF ShardExecutes, config, worker
<1>5. s \in Shard /\ HomeOf(s, l)
  <2>1. isRouter /\ ~IsLocal(l)
    BY <1>1, Zenon DEF AnswerFacts
  <2>2. l.key \in Key
    BY <2>1, LineShape, Zenon DEF IsLocal
  <2> QED  BY <1>2, <2>1, <2>2, FrontendAssumption DEF HomeOf, Loc, Home
<1>6. K!Effect(l, r)
  BY <1>3, <1>4, <1>5, TakesEffect, Zenon DEF execute_line
<1>7. r \in Outcomes(Store, l)
  BY <1>6, Zenon DEF K!Effect
<1>8. \A p \in requests : Awaited(p)' <=> Awaited(p)
  BY <1>4, Zenon DEF Awaited
<1>9. ASSUME NEW e \in Client, at[e] = "wait", answer[e] = Nothing,
             ~(e = c /\ Awaited(q))
      PROVE  [from |-> e, no |-> handled[e], line |-> line[e]] \in requests'
  <2>1. PICK w : w = [from |-> e, no |-> handled[e], line |-> line[e]]
    OBVIOUS
  <2>2. w \in requests /\ w.from = e /\ w.no = handled[e]
    BY <1>9, <2>1, Zenon DEF AskedFacts, AskedOK
  <2>3. w # q
    BY <1>1, <1>9, <2>2, Zenon DEF Awaited
  <2> QED  BY <1>4, <2>1, <2>2, <2>3, Zenon
<1>10. CASE Awaited(q)
  <2>1. at[c] = "wait" /\ handled[c] = q.no /\ line[c] = l /\ runs[<<c, q.no>>] = 0
    BY <1>1, <1>10, Zenon DEF Awaited, AnswerFacts, RunFacts
  <2>2. answer[c] = Nothing
    BY <2>1 DEF RunFacts
  <2>3. r # Nothing
    BY <1>5, OutcomeSays, Zenon
  <2>4. answer'[c] = r /\ \A e \in Client \ {c} : answer'[e] = answer[e]
    BY <1>3, <1>10, Zenon DEF Typed
  <2>5. OnlyOf(c)
    BY <1>4, <2>4, Zenon DEF OnlyOf
  <2>6. AskedFacts'
    <3> SUFFICES ASSUME NEW e \in Client
                 PROVE  AskedOK(e)'
      BY Zenon DEF AskedFacts
    <3>1. at[e] \notin {"wait", "send"} => line[e] = NoLine /\ reply[e] = Nothing
      BY Zenon DEF AskedFacts, AskedOK
    <3>2. CASE e = c
      BY <1>4, <2>1, <2>3, <2>4, <3>2 DEF AskedOK
    <3>3. CASE e # c
      BY <1>4, <1>9, <2>4, <3>1, <3>3, Zenon DEF AskedOK
    <3> QED  BY <3>2, <3>3, Zenon
  <2>7. Doing[c] = K!Asked(l)
    <3>1. Doing[c] = K!Asked(line[c])
      BY <2>1, <2>2, DoingIs, Zenon
    <3> QED  BY <2>1, <3>1
  <2>8. Doing[c].step = "asked" /\ Doing[c].line = l
    BY <2>7, DoingShape
  <2>9. Doing' = [Doing EXCEPT ![c] = K!Answered(l, r)]
    <3>1. Doing'[c] = K!Answered(line'[c], answer'[c])
      BY <1>4, <2>1, <2>3, <2>4, DoingIsNext
    <3>2. Doing'[c] = K!Answered(l, r)
      BY <1>4, <2>1, <2>4, <3>1
    <3> QED  BY <2>5, <3>2, DoingBecomes, Zenon
  <2>10. Late' = Late
    BY <1>4, <1>8, <1>10, Zenon DEF Late
  <2>11. K!Execute(c, r) /\ r \in Outcomes(Store, Doing[c].line)
    BY <1>4, <1>6, <1>7, <2>8, <2>9, <2>10 DEF K!Execute, K!Becomes
  <2> QED  BY <2>6, <2>8, <2>11, Zenon DEF K!KStep
<1>11. CASE ~Awaited(q)
  <2>1. answer' = answer
    BY <1>3, <1>11, Zenon DEF Typed
  <2>2. AskedFacts'
    BY <1>4, <1>9, <1>11, <2>1, Zenon DEF AskedFacts, AskedOK
  <2>3. Doing' = Doing
    BY <1>4, <2>1, Zenon DEF Doing
  <2>4. q \in Late /\ Late' = Late \ {q}
    BY <1>4, <1>8, <1>11, Zenon DEF Late
  <2>5. r \in Outcomes(Store, q.line) /\ K!ExecuteLate(q, r)
    BY <1>1, <1>4, <1>6, <1>7, <2>3, <2>4, Zenon DEF K!ExecuteLate
  <2> QED  BY <2>2, <2>4, <2>5, Zenon DEF K!KStep
<1> QED  BY <1>10, <1>11, Zenon

LEMMA InitIsAnEmptyMap == Init => AskedFacts /\ K!KInit
<1> SUFFICES ASSUME Init PROVE AskedFacts /\ K!KInit
  OBVIOUS
<1>1. AskedFacts
  BY DEF Init, AskedFacts, AskedOK
<1>2. Store = [k \in Key |-> Absent]
  BY FrontendAssumption DEF Init, Store, Own
<1>3. Doing = [c \in Client |-> K!Idle]
  BY DEF Init, Doing, K!Idle
<1> QED  BY <1>1, <1>2, <1>3, Zenon DEF Init, Late, K!KInit

LEMMA EveryStepIsAServiceStep ==
  ASSUME IInv, AskedFacts, [Next]_vars
  PROVE  AskedFacts' /\ (K!KStep \/ UNCHANGED K!service)
<1> USE DEF IInv
<1>1. CASE (\E c \in Client : Accept(c)) \/ Submit \/ Release \/ UNCHANGED vars
  <2>1. UNCHANGED <<isRouter, at, line, reply, requests, answer, data, handled>>
    BY <1>1, Zenon DEF Accept, Submit, Release, vars, config, worker, shards, history
  <2> QED  BY <2>1, BetweenLines, Zenon
<1>2. CASE Begin
  <2>1. UNCHANGED <<isRouter, line, reply, requests, answer, data, handled>>
    BY <1>2, Zenon DEF Begin, config, shards, history
  <2>2. PICK h \in Client : h = Head(queue) /\ at[h] = "none"
    BY <1>2 DEF Begin, Typed, SockFacts, SocketOK, Queued
  <2>3. \A c \in Client : at'[c] = IF c = h THEN "recv" ELSE at[c]
    BY <1>2, <2>2, Zenon DEF Begin, Typed
  <2>4. \A c \in Client : at'[c] # at[c] =>
          {at[c], at'[c]} \subseteq {"none", "recv", "close"}
    BY <2>2, <2>3, Zenon
  <2> QED  BY <2>1, <2>4, BetweenLines, Zenon
<1>3. CASE \E c \in Client : Leave(c) \/ CloseConnection(c)
  <2>1. UNCHANGED <<isRouter, line, reply, requests, answer, data, handled>>
    BY <1>3, Zenon DEF Leave, CloseConnection, config, shards, history
  <2>2. \A c \in Client : at'[c] # at[c] =>
          {at[c], at'[c]} \subseteq {"none", "recv", "close"}
    BY <1>3, Zenon DEF Leave, CloseConnection, Typed
  <2> QED  BY <2>1, <2>2, BetweenLines, Zenon
<1>4. CASE \E c \in Client : ReadAnswer(c)
  BY <1>4, ReadAnswerStutters, Zenon
<1>5. CASE \E c \in Client : ForwardFails(c) \/ SendReply(c)
  BY <1>5, ForwardFailsGivesUp, SendReplyIsHeard, Zenon DEF K!KStep
<1>6. CASE \E c \in Client, l \in Line : TakesUp(c, l)
  BY <1>6, AnswerLocallyRefuses, ExecuteHereExecutes, ForwardAsks, Zenon DEF TakesUp
<1>7. CASE \E q \in requests : ShardExecutes(q)
  BY <1>7, ShardExecutesExecutes, Zenon
<1> QED  BY <1>1, <1>2, <1>3, <1>4, <1>5, <1>6, <1>7, Zenon DEF Next, WorkerStep

\* Sharding is transparent: to its clients, a router with any number of shards and
\* any hash is the one map of KvService, as a single store is, whatever is lost,
\* times out, or is executed after the router gave up on it.
THEOREM FrontendImplementsKv == Spec => ImplementsKv
<1>1. Spec => []IInv
  BY InductiveInvariant, Zenon
<1>2. Init => AskedFacts /\ K!KInit
  BY InitIsAnEmptyMap, Zenon
<1>3. IInv /\ AskedFacts /\ [Next]_vars => AskedFacts' /\ [K!KNext]_(K!service)
  BY EveryStepIsAServiceStep, Zenon DEF K!KNext
<1> QED
  BY <1>1, <1>2, <1>3, PTL DEF Spec, ImplementsKv, K!KSpec
=============================================================================
