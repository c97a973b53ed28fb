-------------------------- MODULE ProcessesProofs ---------------------------
(***************************************************************************)
(* Theorems about Processes, for any set of command lines, requests,       *)
(* threads and connections, and whichever way accept takes the close.      *)
(*                                                                         *)
(* None of the three safety properties is inductive.  NoUseAfterDestroy    *)
(* needs to know how far the start had come when the destructor began and  *)
(* that a thread that has ended stays so (StartFacts).  StatusIsTrue needs *)
(* what a thread may assume of its connection at each place of its loop:   *)
(* nobody else holds it, and until the command is sent nothing of it was   *)
(* answered or executed (ThreadFacts, ConnFacts).                          *)
(***************************************************************************)
EXTENDS Processes, TLAPS

Holding == {"head", "body", "render", "forward", "wait", "send"}

Fresh(c) == answer[c] = 0 /\ executed[c] = <<>> /\ c \notin requests /\ reply[c] = None

\* What is executed for a request, by the reply to it.
Outcome(c) == IF reply[c] = "refused" THEN <<>> ELSE <<line[c]>>

ThreadFacts ==
  \A t \in Thread :
    /\ at[t] \in Holding => client[t] \in Conn /\ net[client[t]] = "held"
    /\ at[t] \notin Holding => client[t] = None
    /\ at[t] \in {"body", "forward", "wait"} => gateway
    /\ at[t] = "render" => ~gateway
    /\ at[t] \in {"head", "body", "render", "forward"} => Fresh(client[t])
    /\ at[t] = "forward" => line[client[t]] \in Line
    /\ at[t] = "wait" => answer[client[t]] = 0
    /\ \A u \in Thread : client[t] = client[u] /\ client[t] # None => t = u

ConnFacts ==
  \A c \in Conn :
    /\ net[c] \in {None, "backlog"} => Fresh(c)
    /\ net[c] # None => req[c] \in Request
    /\ c \in requests => line[c] \in Line /\ executed[c] = <<>> /\ reply[c] = None
    /\ reply[c] # None => executed[c] = Outcome(c)

Idle(m) == helper[m] \notin {"run", "stopping"}

\* The helpers that run, and the members that are left, at each place of main.
StartFacts ==
  /\ main \notin {"destroy", "join", "exit"} => left = 9
  /\ main = "join" => left > 0
  /\ main \in {"args", "storage"} => Idle("replicator")
  /\ main \in {"args", "storage", "replication", "raft"} => Idle("raft")
  /\ main \in {"args", "storage", "replication", "raft", "metrics"} => Joined
  /\ left < 8 => Joined
  /\ left < 5 => Idle("raft")
  /\ left < 4 => Idle("replicator")

RecoveryFacts ==
  /\ main \in {"replication", "raft", "metrics", "bind", "pool", "serve"} => recovered
  /\ \/ recovered \/ prog # "redon-server"
     \/ Joined /\ Idle("replicator")

EInv == EndpointTypeOK /\ ThreadFacts /\ ConnFacts /\ StatusIsTrue

PTypeOK ==
  /\ prog \in {"redon-server", "redon-web"} /\ flags \subseteq Flag
  /\ main \in {"args", "storage", "replication", "raft", "metrics", "bind", "pool",
               "serve", "destroy", "join", "exit", "abort", "wait"}
  /\ left \in 0..9 /\ recovered \in BOOLEAN
  /\ helper \in [{"replicator", "raft"} -> {None, "run", "stopping", "done"}]

PInv == PTypeOK /\ StartFacts /\ RecoveryFacts

IInv == EInv /\ PInv
-----------------------------------------------------------------------------
(* The endpoint. *)

\* Every path that route() answers itself has one of these statuses.
LEMMA RouteStatus ==
  /\ \A r \in Request \ {"cmd", "long"} : Route[r] \in {200, 204, 400, 404}
  /\ Route["blank"] = 400
  BY DEF Request, Route

\* A step that leaves the endpoint alone keeps its invariant.
LEMMA EndpointStutter ==
  ASSUME EInv, UNCHANGED endpointVars
  PROVE  EInv'
  BY DEF EInv, EndpointTypeOK, ThreadFacts, ConnFacts, Outcome, StatusIsTrue, Fresh, Holding,
         endpointVars, socket, threads, input, server

\* Threads that go from one place without a connection to another.
LEMMA IdleMove ==
  ASSUME EInv, NEW t \in Thread, NEW place \in Place \ Holding,
         at[t] \notin Holding, Goto(t, place),
         UNCHANGED <<gateway, socket, client, net, input, server, answer>>
  PROVE  EInv'
<1>1. at' \in [Thread -> Place] /\ \A u \in Thread : at'[u] = IF u = t THEN place ELSE at[u]
  BY DEF EInv, EndpointTypeOK, Goto
<1>2. EndpointTypeOK'
  BY <1>1 DEF EInv, EndpointTypeOK, socket, input, server
<1>3. ThreadFacts'
  BY <1>1 DEF EInv, ThreadFacts, Fresh, Holding, input, server
<1>4. ConnFacts' /\ StatusIsTrue'
  BY DEF EInv, ConnFacts, Outcome, StatusIsTrue, Fresh, input, server
<1> QED  BY <1>2, <1>3, <1>4 DEF EInv

LEMMA LoopKeepsEInv ==
  ASSUME EInv, NEW t \in Thread, Loop(t)
  PROVE  EInv'
<1>1. CASE CheckRunning(t)
  <2>1. PICK place \in {"done", "accept", "failed"} : Goto(t, place)
    BY <1>1 DEF CheckRunning, EInv, EndpointTypeOK
  <2> QED  BY <1>1, <2>1, IdleMove DEF CheckRunning, Place, Holding
<1>2. CASE AfterFailure(t)
  <2>1. PICK place \in {"done", "check"} : Goto(t, place)
    BY <1>2 DEF AfterFailure
  <2> QED  BY <1>2, <2>1, IdleMove DEF AfterFailure, Place, Holding
<1> QED  BY <1>1, <1>2 DEF Loop

\* accept returns, with connection c or with a failure.
LEMMA AcceptEnds ==
  ASSUME EInv, NEW t \in Thread, NEW place, NEW c, at[t] = "accept",
         LeaveAccept(t, place, c), UNCHANGED <<gateway, socket, input, server, answer>>,
         \/ place = "failed" /\ c = None /\ UNCHANGED client
         \/ place = "head" /\ c \in Conn /\ net[c] = "backlog"
            /\ client' = [client EXCEPT ![t] = c]
  PROVE  EInv'
<1>1. at' \in [Thread -> Place] /\ \A u \in Thread : at'[u] = IF u = t THEN place ELSE at[u]
  BY DEF EInv, EndpointTypeOK, LeaveAccept, Goto, Place
<1>2. /\ client' \in [Thread -> Conn \cup {None}]
      /\ \A u \in Thread : client'[u] = IF u = t THEN c ELSE client[u]
  <2>1. client[t] = None
    BY DEF EInv, ThreadFacts, Holding
  <2>2. client \in [Thread -> Conn \cup {None}]
    BY DEF EInv, EndpointTypeOK
  <2> QED  BY <2>1, <2>2
<1>3. /\ net' \in [Conn -> {None, "backlog", "held", "closed", "reset"}]
      /\ \A d \in Conn : d = c => net'[d] = "held"
      /\ \A d \in Conn : d # c /\ net'[d] # net[d] => net[d] = "backlog" /\ net'[d] = "reset"
  <2>1. PICK gone \in BOOLEAN :
          net' = [d \in Conn |-> CASE d = c -> "held"
                                   [] d # c /\ net[d] = "backlog" /\ gone -> "reset"
                                   [] OTHER -> net[d]]
    BY Zenon DEF LeaveAccept
  <2> QED  BY <2>1 DEF EInv, EndpointTypeOK
<1>4. EndpointTypeOK'
  BY <1>1, <1>2, <1>3 DEF EInv, EndpointTypeOK, socket, input, server
<1>5. ConnFacts'
  BY <1>3, EndpointAssumption DEF EInv, ConnFacts, Outcome, Fresh, input, server, None
<1>8. StatusIsTrue'
  BY DEF EInv, StatusIsTrue, input, server
<1>6. \A u \in Thread : client[u] # None => client[u] # c /\ net[client[u]] = "held"
  BY DEF EInv, ThreadFacts, Holding
<1>7. ThreadFacts'
  <2> SUFFICES ASSUME NEW u \in Thread
               PROVE  /\ at'[u] \in Holding => client'[u] \in Conn /\ net'[client'[u]] = "held"
                      /\ at'[u] \notin Holding => client'[u] = None
                      /\ at'[u] \in {"body", "forward", "wait"} => gateway'
                      /\ at'[u] = "render" => ~gateway'
                      /\ at'[u] \in {"head", "body", "render", "forward"} => Fresh(client[u])'
                      /\ at'[u] = "forward" => line'[client'[u]] \in Line
                      /\ at'[u] = "wait" => answer'[client'[u]] = 0
                      /\ \A v \in Thread :
                           client'[u] = client'[v] /\ client'[u] # None => u = v
    BY DEF ThreadFacts, Fresh
  <2>1. CASE u = t
    <3>1. place = "head" => c \in Conn /\ Fresh(c)'
      BY DEF EInv, ConnFacts, Fresh, server
    <3> QED  BY <1>1, <1>2, <1>3, <1>6, <2>1, <3>1 DEF Fresh, Holding
  <2>2. CASE u # t
    <3>1. at'[u] = at[u] /\ client'[u] = client[u]
      BY <1>1, <1>2, <2>2
    <3>2. at[u] \in Holding => net'[client[u]] = "held"
      BY <1>3, <1>6, EndpointAssumption DEF EInv, ThreadFacts, None
    <3> QED  BY <1>2, <1>6, <2>2, <3>1, <3>2 DEF EInv, ThreadFacts, Fresh, Holding, input, server
  <2> QED  BY <2>1, <2>2
<1> QED  BY <1>4, <1>5, <1>7, <1>8 DEF EInv

LEMMA AcceptKeepsEInv ==
  ASSUME EInv, NEW t \in Thread, AcceptFails(t) \/ \E c \in Conn : Accept(t, c)
  PROVE  EInv'
  BY AcceptEnds DEF AcceptFails, Accept

\* The listener is opened or closed: no connection that is held is concerned.
LEMMA CloseListenerKeepsEInv ==
  ASSUME EInv, CloseListener
  PROVE  EInv'
<1>1. /\ at' \in [Thread -> Place]
      /\ \A t \in Thread : at'[t] # at[t] => at[t] = "accept" /\ at'[t] = "failed"
  <2>1. at' = [t \in Thread |->
                 IF at[t] = "accept" /\ CloseWakesAccept THEN "failed" ELSE at[t]]
    BY DEF CloseListener
  <2> QED  BY <2>1 DEF EInv, EndpointTypeOK, Place
<1>2. /\ net' \in [Conn -> {None, "backlog", "held", "closed", "reset"}]
      /\ \A c \in Conn : net'[c] # net[c] => net[c] = "backlog" /\ net'[c] = "reset"
  <2>1. PICK gone \in BOOLEAN :
          net' = [c \in Conn |-> IF net[c] = "backlog" /\ gone THEN "reset" ELSE net[c]]
    BY Zenon DEF CloseListener
  <2> QED  BY <2>1 DEF EInv, EndpointTypeOK
<1>3. EndpointTypeOK'
  BY <1>1, <1>2 DEF EInv, EndpointTypeOK, CloseListener, input, server
<1>4. ThreadFacts'
  BY <1>1, <1>2 DEF EInv, ThreadFacts, Fresh, Holding, CloseListener, input, server
<1>5. ConnFacts'
  BY <1>2 DEF EInv, ConnFacts, Outcome, Fresh, CloseListener, input, server, None
<1>6. StatusIsTrue'
  BY DEF EInv, StatusIsTrue, CloseListener, input, server
<1> QED  BY <1>3, <1>4, <1>5, <1>6 DEF EInv

LEMMA StartKeepsEInv ==
  ASSUME EInv, Joined, NEW ts \in SUBSET Thread, startMetrics(ts)
  PROVE  EInv'
<1>1. /\ at' \in [Thread -> Place]
      /\ \A t \in Thread : at'[t] \notin Holding /\ at[t] \notin Holding
  BY DEF startMetrics, Joined, Place, Holding, None
<1>2. EndpointTypeOK'
  BY <1>1 DEF EInv, EndpointTypeOK, startMetrics, input, server
<1>3. ThreadFacts'
  BY <1>1 DEF EInv, ThreadFacts, Holding, startMetrics
<1>4. ConnFacts' /\ StatusIsTrue'
  BY DEF EInv, ConnFacts, Outcome, StatusIsTrue, Fresh, startMetrics, input, server
<1> QED  BY <1>2, <1>3, <1>4 DEF EInv

-----------------------------------------------------------------------------
(* What a thread does with its connection. *)

\* The connection of a thread, and that it is the thread's alone.
LEMMA HeldByOne ==
  ASSUME EInv, NEW t \in Thread, at[t] \in Holding
  PROVE  /\ client[t] \in Conn /\ net[client[t]] = "held" /\ client[t] # None
         /\ \A u \in Thread \ {t} : client[u] # client[t]
  BY EndpointAssumption DEF EInv, ThreadFacts, None

LEMMA RespondKeepsEInv ==
  ASSUME EInv, NEW t \in Thread, at[t] \in Holding,
         NEW status \in {200, 204, 400, 404, 413, 502}, Respond(t, status),
         (status = 200 /\ req[client[t]] \in {"cmd", "long"} /\ gateway) => reply[client[t]] # None,
         status \in {204, 400, 404, 413} =>
           executed[client[t]] = <<>> /\ client[t] \notin requests,
         UNCHANGED <<gateway, socket, input, server>>
  PROVE  EInv'
<1>1. at' \in [Thread -> Place] /\ \A u \in Thread : at'[u] = IF u = t THEN "send" ELSE at[u]
  BY DEF EInv, EndpointTypeOK, Respond, Goto, Place
<1>2. /\ client' = client /\ net' = net
      /\ answer' \in [Conn -> {0, 200, 204, 400, 404, 413, 502}]
      /\ answer'[client[t]] = status
      /\ \A c \in Conn : c # client[t] => answer'[c] = answer[c]
  BY HeldByOne DEF EInv, EndpointTypeOK, Respond
<1>3. EndpointTypeOK'
  BY <1>1, <1>2 DEF EInv, EndpointTypeOK, socket, input, server
<1>4. ThreadFacts'
  BY <1>1, <1>2, HeldByOne DEF EInv, ThreadFacts, Fresh, Holding, input, server
<1>5. ConnFacts'
  BY <1>2, HeldByOne DEF EInv, ConnFacts, Outcome, Fresh, None, input, server
<1>6. StatusIsTrue'
  <2>1. \A c \in Conn : reply[c] # None => c \notin requests /\ executed[c] = Outcome(c)
    BY DEF EInv, ConnFacts
  <2> QED  BY <1>2, <2>1 DEF EInv, StatusIsTrue, Outcome, input, server
<1> QED  BY <1>3, <1>4, <1>5, <1>6 DEF EInv

LEMMA CloseKeepsEInv ==
  ASSUME EInv, NEW t \in Thread, at[t] \in Holding, Close(t),
         UNCHANGED <<gateway, socket, input, server, answer>>
  PROVE  EInv'
<1>1. at' \in [Thread -> Place] /\ \A u \in Thread : at'[u] = IF u = t THEN "check" ELSE at[u]
  BY DEF EInv, EndpointTypeOK, Close, Goto, Place
<1>2. /\ client' \in [Thread -> Conn \cup {None}]
      /\ \A u \in Thread : client'[u] = IF u = t THEN None ELSE client[u]
  BY DEF EInv, EndpointTypeOK, Close
<1>3. /\ net' \in [Conn -> {None, "backlog", "held", "closed", "reset"}]
      /\ \A d \in Conn : net'[d] = IF d = client[t] THEN "closed" ELSE net[d]
  BY HeldByOne DEF EInv, EndpointTypeOK, Close
<1>4. EndpointTypeOK'
  BY <1>1, <1>2, <1>3 DEF EInv, EndpointTypeOK, socket, input, server
<1>5. ThreadFacts'
  BY <1>1, <1>2, <1>3, HeldByOne DEF EInv, ThreadFacts, Fresh, Holding, input, server
<1>6. ConnFacts'
  BY <1>3, HeldByOne DEF EInv, ConnFacts, Outcome, Fresh, None, input, server
<1>7. StatusIsTrue'
  BY DEF EInv, StatusIsTrue, input, server
<1> QED  BY <1>4, <1>5, <1>6, <1>7 DEF EInv

\* From one place of handle_connection to the next, with nothing sent yet.
LEMMA ReadOn ==
  ASSUME EInv, NEW t \in Thread, at[t] = "head",
         NEW place \in {"body", "render"}, Goto(t, place),
         gateway <=> place # "render",
         UNCHANGED <<gateway, socket, client, net, input, server, answer>>
  PROVE  EInv'
<1>1. at' \in [Thread -> Place] /\ \A u \in Thread : at'[u] = IF u = t THEN place ELSE at[u]
  BY DEF EInv, EndpointTypeOK, Goto, Place
<1>2. EndpointTypeOK'
  BY <1>1 DEF EInv, EndpointTypeOK, socket, input, server
<1>3. ThreadFacts'
  BY <1>1 DEF EInv, ThreadFacts, Fresh, Holding, input, server
<1>4. ConnFacts' /\ StatusIsTrue'
  BY DEF EInv, ConnFacts, Outcome, StatusIsTrue, Fresh, input, server
<1> QED  BY <1>2, <1>3, <1>4 DEF EInv

\* route() has found a command in what came of the body.
LEMMA LineKeepsEInv ==
  ASSUME EInv, NEW t \in Thread, at[t] = "body", Goto(t, "forward"),
         NEW l \in Line, line' = [line EXCEPT ![client[t]] = l],
         UNCHANGED <<gateway, socket, client, net, req, deaf, server, answer>>
  PROVE  EInv'
<1>1. at' \in [Thread -> Place] /\ \A u \in Thread : at'[u] = IF u = t THEN "forward" ELSE at[u]
  BY DEF EInv, EndpointTypeOK, Goto, Place
<1>2. at[t] \in Holding /\ Fresh(client[t]) /\ gateway
  BY DEF EInv, ThreadFacts, Holding
<1>3. /\ line' \in [Conn -> Line \cup {None}] /\ line'[client[t]] = l
      /\ \A c \in Conn : c # client[t] => line'[c] = line[c]
  BY <1>2, HeldByOne DEF EInv, EndpointTypeOK
<1>4. EndpointTypeOK'
  BY <1>1, <1>3 DEF EInv, EndpointTypeOK, socket, server
<1>5. ThreadFacts'
  BY <1>1, <1>2, <1>3, HeldByOne DEF EInv, ThreadFacts, Fresh, Holding, server
<1>6. ConnFacts'
  BY <1>2, <1>3 DEF EInv, ConnFacts, Outcome, Fresh, server
<1>7. StatusIsTrue'
  BY <1>2, <1>3 DEF EInv, StatusIsTrue, Fresh, server
<1> QED  BY <1>4, <1>5, <1>6, <1>7 DEF EInv

\* The line is on its way to the Redon server.
LEMMA SendKeepsEInv ==
  ASSUME EInv, NEW t \in Thread, at[t] = "forward", requests' = requests \cup {client[t]},
         Goto(t, "wait"),
         UNCHANGED <<gateway, socket, client, net, input, answer, reply, executed>>
  PROVE  EInv'
<1>1. at' \in [Thread -> Place] /\ \A u \in Thread : at'[u] = IF u = t THEN "wait" ELSE at[u]
  BY DEF EInv, EndpointTypeOK, Goto, Place
<1>2. at[t] \in Holding /\ Fresh(client[t]) /\ gateway /\ line[client[t]] \in Line
  BY DEF EInv, ThreadFacts, Holding
<1>3. EndpointTypeOK'
  BY <1>1, <1>2, HeldByOne DEF EInv, EndpointTypeOK, socket, input
<1>4. ThreadFacts'
  <2>1. \A u \in Thread \ {t} : Fresh(client[u]) => Fresh(client[u])'
    BY <1>2, HeldByOne DEF Fresh
  <2>2. \A u \in Thread \ {t} : client[u] # client[t]
    BY <1>2, HeldByOne
  <2>3. answer'[client[t]] = 0
    BY <1>2 DEF Fresh
  <2> QED  BY <1>1, <1>2, <2>1, <2>2, <2>3 DEF EInv, ThreadFacts, Holding, input
<1>5. ConnFacts'
  BY <1>2, HeldByOne DEF EInv, ConnFacts, Outcome, Fresh, None, input
<1>6. StatusIsTrue'
  BY <1>2 DEF EInv, StatusIsTrue, Fresh, input
<1> QED  BY <1>3, <1>4, <1>5, <1>6 DEF EInv

LEMMA HandleKeepsEInv ==
  ASSUME EInv, NEW t \in Thread, Handle(t)
  PROVE  EInv'
<1>1. CASE ReadHead(t)
  <2>1. at[t] = "head" /\ gateway /\ at[t] \in Holding /\ Fresh(client[t])
    BY <1>1 DEF ReadHead, Holding, EInv, ThreadFacts
  <2>2. CASE Close(t) /\ UNCHANGED answer
    BY <1>1, <2>1, <2>2, CloseKeepsEInv DEF ReadHead
  <2>3. CASE Respond(t, 413)
    BY <1>1, <2>1, <2>3, RespondKeepsEInv DEF ReadHead, Fresh, input, server
  <2>4. CASE Goto(t, "body") /\ UNCHANGED <<client, net, answer>>
    BY <1>1, <2>1, <2>4, ReadOn DEF ReadHead
  <2> QED  BY <1>1, <2>2, <2>3, <2>4 DEF ReadHead
<1>2. CASE ReadBody(t)
  <2>1. at[t] = "body" /\ gateway /\ at[t] \in Holding /\ Fresh(client[t])
    BY <1>2 DEF ReadBody, Holding, EInv, ThreadFacts
  <2>2. req[client[t]] \in Request
    BY <2>1, HeldByOne DEF EInv, ConnFacts, Outcome, None
  <2>3. UNCHANGED <<gateway, socket, req, deaf, server>>
    BY <1>2 DEF ReadBody
  <2>4. CASE /\ req[client[t]] \notin {"cmd", "long"}
             /\ Respond(t, Route[req[client[t]]]) /\ UNCHANGED line
    BY <2>1, <2>2, <2>3, <2>4, RouteStatus, RespondKeepsEInv DEF Fresh, input
  <2>5. CASE Respond(t, Route["blank"]) /\ UNCHANGED line
    BY <2>1, <2>3, <2>5, RouteStatus, RespondKeepsEInv DEF Fresh, input
  <2>6. CASE /\ \E l \in Line : line' = [line EXCEPT ![client[t]] = l]
             /\ Goto(t, "forward") /\ UNCHANGED <<client, net, answer>>
    BY <2>1, <2>3, <2>6, LineKeepsEInv
  <2> QED  BY <1>2, <2>4, <2>5, <2>6 DEF ReadBody
<1>3. CASE Forward(t)
  <2>1. at[t] \in Holding
    BY <1>3 DEF Forward, Holding
  <2>2. CASE Respond(t, 502) /\ UNCHANGED server
    BY <1>3, <2>1, <2>2, RespondKeepsEInv DEF Forward, input, server
  <2>3. CASE ~(Respond(t, 502) /\ UNCHANGED server)
    BY <1>3, <2>3, SendKeepsEInv DEF Forward
  <2> QED  BY <2>2, <2>3
<1>4. CASE ReadReply(t)
  <2>1. at[t] \in Holding
    BY <1>4 DEF ReadReply, Holding
  <2> QED  BY <1>4, <2>1, RespondKeepsEInv DEF ReadReply
<1>5. CASE ForwardFails(t)
  BY <1>5, RespondKeepsEInv DEF ForwardFails, Holding, input, server
<1>6. CASE ReadAny(t)
  BY <1>6, ReadOn DEF ReadAny
<1>7. CASE Render(t)
  <2>1. at[t] \in Holding /\ ~gateway
    BY <1>7 DEF Render, Holding, EInv, ThreadFacts
  <2> QED  BY <1>7, <2>1, RespondKeepsEInv DEF Render, input, server
<1>8. CASE SendResponse(t)
  BY <1>8, CloseKeepsEInv DEF SendResponse, Holding
<1> QED  BY <1>1, <1>2, <1>3, <1>4, <1>5, <1>6, <1>7, <1>8 DEF Handle

LEMMA ConnectKeepsEInv ==
  ASSUME EInv, NEW c \in Conn, NEW r \in Request, NEW d \in BOOLEAN, Connect(c, r, d)
  PROVE  EInv'
<1>1. /\ net' \in [Conn -> {None, "backlog", "held", "closed", "reset"}]
      /\ \A e \in Conn : net'[e] = IF e = c THEN "backlog" ELSE net[e]
      /\ req' \in [Conn -> Request \cup {None}]
      /\ \A e \in Conn : req'[e] = IF e = c THEN r ELSE req[e]
  BY DEF EInv, EndpointTypeOK, Connect
<1>2. deaf' \in [Conn -> BOOLEAN]
  BY DEF EInv, EndpointTypeOK, Connect
<1>3. EndpointTypeOK'
  BY <1>1, <1>2 DEF EInv, EndpointTypeOK, Connect, socket, threads, server
<1>4. ThreadFacts'
  BY <1>1 DEF EInv, ThreadFacts, Fresh, Holding, Connect, threads, server, None
<1>5. Fresh(c)
  BY DEF EInv, ConnFacts, Connect
<1>6. ConnFacts'
  BY <1>1, <1>5 DEF EInv, ConnFacts, Outcome, Fresh, Connect, server, None
<1>7. StatusIsTrue'
  BY <1>1, <1>5 DEF EInv, StatusIsTrue, Fresh, Connect, server
<1> QED  BY <1>3, <1>4, <1>6, <1>7 DEF EInv

LEMMA ServerKeepsEInv ==
  ASSUME EInv, NEW c \in Conn, ServerExecutes(c) \/ ServerRefuses(c) \/ ServerDrops(c)
  PROVE  EInv'
<1>1. /\ c \in requests /\ requests' = requests \ {c}
      /\ UNCHANGED <<gateway, listen, running, at, client, net, req, deaf, line, answer>>
  BY DEF ServerExecutes, ServerRefuses, ServerDrops, TakeUp, socket, threads, input
<1>2. executed[c] = <<>> /\ reply[c] = None /\ line[c] \in Line
  BY <1>1 DEF EInv, ConnFacts
<1>3. ASSUME NEW r \in {"result", "refused"}, TakeUp(c, r),
             executed' \in [Conn -> Seq(Line)],
             executed'[c] = IF r = "refused" THEN <<>> ELSE <<line[c]>>,
             \A d \in Conn : d # c => executed'[d] = executed[d]
      PROVE  EInv'
  <2>1. /\ reply' \in [Conn -> {None, "result", "refused"}]
        /\ reply'[c] \in {None, r}
        /\ \A d \in Conn : d # c => reply'[d] = reply[d]
    BY <1>2, <1>3 DEF EInv, EndpointTypeOK, TakeUp
  <2>2. EndpointTypeOK'
    <3>1. EndpointTypeOK /\ requests' \subseteq Conn
      BY <1>1 DEF EInv, EndpointTypeOK
    <3> QED  BY <1>1, <1>3, <2>1, <3>1, Zenon DEF EndpointTypeOK
  <2>3. ThreadFacts'
    BY <1>1, <1>3, <2>1 DEF EInv, ThreadFacts, Fresh, Holding
  <2>4. ConnFacts'
    BY <1>1, <1>3, <2>1 DEF EInv, ConnFacts, Outcome, Fresh, None
  <2>5. StatusIsTrue'
    <3>1. /\ answer[c] \in {204, 400, 404, 413} => c \notin requests
          /\ (gateway /\ answer[c] = 200 /\ req[c] \in {"cmd", "long"}) => c \notin requests
      BY Zenon DEF EInv, StatusIsTrue
    <3>2. executed'[c] \in {<<>>, <<line[c]>>}
      BY <1>3
    <3>3. \A d \in Conn \ {c} :
            /\ executed'[d] = executed[d] /\ reply'[d] = reply[d]
            /\ d \notin requests => d \notin requests'
      BY <1>1, <1>3, <2>1
    <3>4. UNCHANGED <<gateway, req, line, answer>> /\ c \in requests
      BY <1>1
    <3> SUFFICES ASSUME NEW d \in Conn
                 PROVE  /\ executed'[d] \in {<<>>, <<line[d]>>}
                        /\ (gateway /\ answer[d] = 200 /\ req[d] \in {"cmd", "long"}) =>
                             /\ d \notin requests' /\ reply'[d] # None
                             /\ executed'[d] = IF reply'[d] = "refused" THEN <<>> ELSE <<line[d]>>
                        /\ answer[d] \in {204, 400, 404, 413} =>
                             executed'[d] = <<>> /\ d \notin requests'
      BY <3>4 DEF StatusIsTrue
    <3>5. CASE d = c
      BY <3>1, <3>2, <3>4, <3>5
    <3>6. CASE d # c
      BY <3>3, <3>6 DEF EInv, StatusIsTrue
    <3> QED  BY <3>5, <3>6
  <2> QED  BY <2>2, <2>3, <2>4, <2>5 DEF EInv
<1>4. CASE ServerExecutes(c)
  <2>1. /\ executed' \in [Conn -> Seq(Line)] /\ executed'[c] = Append(<<>>, line[c])
        /\ \A d \in Conn : d # c => executed'[d] = executed[d]
    BY <1>2, <1>4 DEF EInv, EndpointTypeOK, ServerExecutes
  <2>2. Append(<<>>, line[c]) = <<line[c]>>
    OBVIOUS
  <2> QED  BY <1>3, <1>4, <2>1, <2>2 DEF ServerExecutes
<1>5. CASE ServerRefuses(c)
  BY <1>2, <1>3, <1>5 DEF ServerRefuses, EInv, EndpointTypeOK
<1>6. CASE ServerDrops(c)
  <2>1. UNCHANGED <<reply, executed>>
    BY <1>6 DEF ServerDrops
  <2> QED
    BY <1>1, <2>1 DEF EInv, EndpointTypeOK, ThreadFacts, ConnFacts, Outcome, StatusIsTrue,
                      Fresh, Holding
<1> QED  BY <1>4, <1>5, <1>6

-----------------------------------------------------------------------------
(* The process. *)

\* Only a start makes a thread of one that has none or has ended.
LEMMA EndedStaysEnded ==
  ASSUME Joined, UNCHANGED at \/ CloseListener
  PROVE  Joined'
  BY DEF Joined, CloseListener, None

LEMMA RunningThread ==
  ASSUME NEW t \in Thread, Loop(t) \/ Handle(t) \/ AcceptFails(t) \/ \E c \in Conn : Accept(t, c)
  PROVE  ~Joined
  BY DEF Joined, None, Loop, CheckRunning, AfterFailure, AcceptFails, Accept, Handle,
         ReadHead, ReadBody, Forward, ReadReply, ForwardFails, ReadAny, Render, SendResponse

\* A step of the endpoint's threads or clients.
LEMMA EndpointStepKeepsPInv ==
  ASSUME PInv, UNCHANGED <<prog, flags, procVars>>, Joined => Joined'
  PROVE  PInv'
  BY DEF PInv, PTypeOK, StartFacts, RecoveryFacts, Idle, procVars

LEMMA MembersInOrder ==
  /\ Len(Members) = 9 /\ Members[8] = "http" /\ Members[5] = "raft"
  /\ Members[4] = "replicator"
  /\ \A i \in {1, 2, 3, 6, 7, 9} : Members[i] \notin {"http", "raft", "replicator"}
  BY DEF Members

\* A step of the main thread that leaves the endpoint and the members alone.
LEMMA StartStepKeepsPInv ==
  ASSUME PInv,
         \/ ParseArgs \/ OpenStorage \/ setup_replication \/ setup_raft \/ Bind \/ StartPool
         \/ Exit \/ JoinWeb
  PROVE  PInv' /\ UNCHANGED endpointVars
<1> USE DEF PInv, PTypeOK, StartFacts, RecoveryFacts, Idle, Joined, endpointVars, threads
<1>1. CASE ParseArgs
  BY <1>1 DEF ParseArgs
<1>2. CASE OpenStorage
  BY <1>2 DEF OpenStorage
<1>3. CASE setup_replication
  BY <1>3 DEF setup_replication, StartsThread
<1>4. CASE setup_raft
  BY <1>4 DEF setup_raft, StartsThread
<1>5. CASE Bind
  BY <1>5 DEF Bind
<1>7. CASE StartPool
  BY <1>7 DEF StartPool
<1>6. CASE Exit \/ JoinWeb
  BY <1>6 DEF Exit, JoinWeb
<1> QED  BY <1>1, <1>2, <1>3, <1>4, <1>5, <1>6, <1>7

LEMMA StartEndpointKeepsIInv ==
  ASSUME IInv, setup_metrics \/ StartWeb
  PROVE  IInv'
<1>1. Joined /\ left = 9
  BY DEF IInv, PInv, StartFacts, setup_metrics, StartWeb
<1>2. EInv'
  <2>1. UNCHANGED endpointVars \/ \E ts \in SUBSET Thread : startMetrics(ts)
    BY DEF setup_metrics, StartWeb, startFails, startGateway
  <2> QED  BY <1>1, <2>1, StartKeepsEInv, EndpointStutter DEF IInv
<1>3. CASE setup_metrics
  <2>1. main' \in {"bind", "abort"} /\ UNCHANGED <<prog, flags, left, helper, recovered>>
    BY <1>3 DEF setup_metrics, StartsThread
  <2>2. main = "metrics"
    BY <1>3 DEF setup_metrics
  <2> QED
    BY <1>1, <1>2, <2>1, <2>2 DEF IInv, PInv, PTypeOK, StartFacts, RecoveryFacts, Idle
<1>4. CASE StartWeb
  <2>1. main' \in {"wait", "exit", "abort"} /\ UNCHANGED <<prog, flags, left, helper, recovered>>
    BY <1>4 DEF StartWeb, StartsThread
  <2>2. main = "args" /\ prog = "redon-web"
    BY <1>4 DEF StartWeb
  <2> QED
    BY <1>1, <1>2, <2>1, <2>2 DEF IInv, PInv, PTypeOK, StartFacts, RecoveryFacts, Idle
<1> QED  BY <1>2, <1>3, <1>4 DEF IInv

\* A member that has no thread, or none any more, is destroyed.
LEMMA MemberGone ==
  ASSUME IInv, left \in 1..9, main \in {"destroy", "join"}, ~HasThreads(Members[left]),
         left' = left - 1, main' = "destroy",
         UNCHANGED <<endpointVars, prog, flags, helper, recovered>>
  PROVE  PInv'
<1>1. /\ left = 8 => Joined
      /\ left = 5 => Idle("raft")
      /\ left = 4 => Idle("replicator")
  BY MembersInOrder DEF IInv, PInv, PTypeOK, HasThreads, Idle
<1>2. Joined' = Joined /\ \A m : Idle(m)' = Idle(m)
  BY DEF Joined, Idle, endpointVars, threads
<1>3. PTypeOK'
  BY DEF IInv, PInv, PTypeOK
<1> QED  BY <1>1, <1>2, <1>3 DEF IInv, PInv, PTypeOK, StartFacts, RecoveryFacts

LEMMA DestroyKeepsIInv ==
  ASSUME IInv, Destroy
  PROVE  IInv'
<1> DEFINE m == Members[left]
<1>1. /\ main = "destroy" /\ left \in 1..9
      /\ UNCHANGED <<prog, flags, recovered>>
  BY DEF IInv, PInv, PTypeOK, Destroy
<1>2. CASE HasThreads(m) /\ m = "http"
  <2>1. CloseListener /\ main' = "join" /\ UNCHANGED <<left, helper>>
    BY <1>2 DEF Destroy
  <2>2. Joined => Joined'
    BY <2>1, EndedStaysEnded
  <2>3. PInv'
    BY <1>1, <2>1, <2>2 DEF IInv, PInv, PTypeOK, StartFacts, RecoveryFacts, Idle
  <2> QED  BY <2>1, <2>3, CloseListenerKeepsEInv DEF IInv
<1>3. CASE HasThreads(m) /\ m # "http"
  <2>1. /\ helper' = [helper EXCEPT ![m] = "stopping"]
        /\ main' = "join" /\ UNCHANGED <<left, endpointVars>>
    BY <1>3 DEF Destroy
  <2>2. m \in {"replicator", "raft"} /\ helper[m] \in {"run", "stopping"}
    BY <1>3 DEF IInv, PInv, PTypeOK, HasThreads
  <2>3. Joined' = Joined
    BY <2>1 DEF Joined, endpointVars, threads
  <2>4. PInv'
    <3>1. PTypeOK'
      BY <1>1, <2>1, <2>2 DEF IInv, PInv, PTypeOK
    <3>2. Idle("replicator")' = Idle("replicator") /\ Idle("raft")' = Idle("raft")
      BY <2>1, <2>2 DEF IInv, PInv, PTypeOK, Idle
    <3> QED  BY <1>1, <2>1, <2>3, <3>1, <3>2 DEF IInv, PInv, StartFacts, RecoveryFacts
  <2> QED  BY <2>1, <2>4, EndpointStutter DEF IInv
<1>4. CASE ~HasThreads(m)
  <2>1. left' = left - 1 /\ UNCHANGED <<main, helper, endpointVars>>
    BY <1>4 DEF Destroy
  <2>2. PInv'
    BY <1>1, <1>4, <2>1, MemberGone
  <2> QED  BY <2>1, <2>2, EndpointStutter DEF IInv
<1> QED  BY <1>2, <1>3, <1>4

LEMMA JoinKeepsIInv ==
  ASSUME IInv, Join
  PROVE  IInv'
<1>1. /\ main = "join" /\ left \in 1..9 /\ main' = "destroy" /\ left' = left - 1
      /\ ~HasThreads(Members[left])
      /\ UNCHANGED <<endpointVars, prog, flags, helper, recovered>>
  BY DEF IInv, PInv, PTypeOK, StartFacts, Join
<1> QED  BY <1>1, MemberGone, EndpointStutter DEF IInv

LEMMA HelperEndsKeepsIInv ==
  ASSUME IInv, NEW m \in {"replicator", "raft"}, HelperEnds(m)
  PROVE  IInv'
<1>1. Joined' = Joined
  BY DEF HelperEnds, Joined, endpointVars, threads
<1>2. PInv'
  BY <1>1 DEF IInv, PInv, PTypeOK, StartFacts, RecoveryFacts, Idle, HelperEnds
<1> QED  BY <1>2, EndpointStutter DEF IInv, HelperEnds

LEMMA StopWebKeepsIInv ==
  ASSUME IInv, StopWeb
  PROVE  IInv'
<1>1. Joined => Joined'
  BY EndedStaysEnded DEF StopWeb
<1>2. PInv'
  BY <1>1 DEF IInv, PInv, PTypeOK, StartFacts, RecoveryFacts, Idle, StopWeb
<1> QED  BY <1>2, CloseListenerKeepsEInv DEF IInv, StopWeb

-----------------------------------------------------------------------------
(* The theorems. *)

LEMMA InitIInv == Init => IInv
<1> SUFFICES ASSUME Init PROVE IInv
  OBVIOUS
<1>1. EInv
  <2>1. gateway \in BOOLEAN
    BY Zenon DEF Init
  <2>2. deaf \in [Conn -> BOOLEAN]
    BY Zenon DEF Init, EndpointInit
  <2>3. executed \in [Conn -> Seq(Line)]
    BY DEF Init, EndpointInit
  <2>4. line \in [Conn -> Line \cup {None}] /\ reply \in [Conn -> {None, "result", "refused"}]
    BY DEF Init, EndpointInit
  <2>5. EndpointTypeOK
    <3>1. running \in BOOLEAN /\ listen \in {None, "open", "closed"} /\ requests \subseteq Conn
      BY DEF Init, EndpointInit
    <3>2. /\ at \in [Thread -> Place] /\ client \in [Thread -> Conn \cup {None}]
          /\ net \in [Conn -> {None, "backlog", "held", "closed", "reset"}]
          /\ req \in [Conn -> Request \cup {None}]
          /\ answer \in [Conn -> {0, 200, 204, 400, 404, 413, 502}]
      BY DEF Init, EndpointInit, Place
    <3> QED  BY <2>1, <2>2, <2>3, <2>4, <3>1, <3>2 DEF EndpointTypeOK
  <2>6. ThreadFacts
    BY DEF Init, EndpointInit, ThreadFacts, Holding, None
  <2>7. ConnFacts /\ StatusIsTrue
    BY DEF Init, EndpointInit, ConnFacts, Outcome, StatusIsTrue, Fresh, None
  <2> QED  BY <2>5, <2>6, <2>7 DEF EInv
<1>2. PTypeOK
  <2>1. flags \subseteq Flag
    BY ProcessAssumption DEF Init, Flag
  <2>2. helper \in [{"replicator", "raft"} -> {None, "run", "stopping", "done"}]
    BY DEF Init
  <2>3. left = 9 /\ main = "args"
    BY MembersInOrder DEF Init
  <2>4. prog \in {"redon-server", "redon-web"} /\ recovered \in BOOLEAN
    BY Zenon DEF Init
  <2> QED  BY <2>1, <2>2, <2>3, <2>4 DEF PTypeOK
<1>3. Joined /\ Idle("replicator") /\ Idle("raft")
  BY DEF Init, EndpointInit, Joined, Idle, None
<1> QED  BY <1>1, <1>2, <1>3, MembersInOrder DEF Init, IInv, PInv, StartFacts, RecoveryFacts

\* The invariant is inductive: every step of the start, of the destructor, of the
\* endpoint and of its environment keeps it.
THEOREM InductiveInvariant == Spec => []IInv
<1>1. IInv /\ [Next]_vars => IInv'
  <2> SUFFICES ASSUME IInv, [Next]_vars PROVE IInv'
    OBVIOUS
  <2>1. CASE MainStep
    <3>1. CASE setup_metrics \/ StartWeb
      BY <3>1, StartEndpointKeepsIInv
    <3>2. CASE Destroy \/ Join
      BY <3>2, DestroyKeepsIInv, JoinKeepsIInv
    <3>3. CASE \/ ParseArgs \/ OpenStorage \/ setup_replication \/ setup_raft \/ Bind
               \/ StartPool \/ Exit \/ JoinWeb
      BY <3>3, StartStepKeepsPInv, EndpointStutter DEF IInv
    <3> QED  BY <2>1, <3>1, <3>2, <3>3 DEF MainStep
  <2>2. CASE StopWeb
    BY <2>2, StopWebKeepsIInv
  <2>3. CASE \E m \in DOMAIN helper : HelperEnds(m)
    BY <2>3, HelperEndsKeepsIInv DEF IInv, PInv, PTypeOK
  <2>4. CASE \E t \in Thread : ThreadStep(t)
    BY <2>4, RunningThread, LoopKeepsEInv, HandleKeepsEInv, EndpointStepKeepsPInv
       DEF ThreadStep, InProcess, IInv
  <2>5. CASE \E t \in Thread : AcceptFails(t) /\ InProcess
    BY <2>5, RunningThread, AcceptKeepsEInv, EndpointStepKeepsPInv DEF InProcess, IInv
  <2>6. CASE \E c \in Conn : AcceptStep(c)
    BY <2>6, RunningThread, AcceptKeepsEInv, EndpointStepKeepsPInv
       DEF AcceptStep, InProcess, IInv
  <2>7. CASE \E c \in Conn, r \in Offered, d \in BOOLEAN : Connect(c, r, d) /\ InProcess
    <3>1. PICK c \in Conn, r \in Request, d \in BOOLEAN : Connect(c, r, d) /\ InProcess
      BY <2>7, ProcessAssumption DEF Offered, Request
    <3>2. Joined => Joined'
      BY <3>1, EndedStaysEnded DEF Connect, threads
    <3> QED  BY <3>1, <3>2, ConnectKeepsEInv, EndpointStepKeepsPInv DEF InProcess, IInv
  <2>8. CASE \E c \in Conn : /\ ServerExecutes(c) \/ ServerRefuses(c) \/ ServerDrops(c)
                            /\ UNCHANGED <<prog, flags, procVars>>
    <3>1. PICK c \in Conn : /\ ServerExecutes(c) \/ ServerRefuses(c) \/ ServerDrops(c)
                           /\ UNCHANGED <<prog, flags, procVars>>
      BY <2>8
    <3>2. Joined => Joined'
      BY <3>1, EndedStaysEnded DEF ServerExecutes, ServerRefuses, ServerDrops, TakeUp, threads
    <3> QED  BY <3>1, <3>2, ServerKeepsEInv, EndpointStepKeepsPInv DEF IInv
  <2>9. CASE UNCHANGED vars
    <3>1. Joined => Joined'
      BY <2>9, EndedStaysEnded DEF vars, endpointVars, threads
    <3> QED  BY <2>9, <3>1, EndpointStutter, EndpointStepKeepsPInv DEF vars, IInv
  <2> QED  BY <2>1, <2>2, <2>3, <2>4, <2>5, <2>6, <2>7, <2>8, <2>9 DEF Next
<1> QED  BY <1>1, InitIInv, PTL DEF Spec

\* The types hold in every reachable state of both programs and their endpoints.
THEOREM TypeCorrect == Spec => []TypeOK
<1>1. IInv => TypeOK
  BY MembersInOrder DEF IInv, EInv, PInv, PTypeOK, TypeOK
<1> QED  BY <1>1, InductiveInvariant, PTL

\* ~Server(), wherever run() was left, destroys no member that a sender, the Raft
\* timer or the metrics endpoint may still use.
THEOREM DestructionIsSafe == Spec => []NoUseAfterDestroy
<1>1. IInv => NoUseAfterDestroy
  <2> SUFFICES ASSUME IInv, NEW m \in DOMAIN Uses, HasThreads(m)
               PROVE  Uses[m] \subseteq Alive
    BY DEF NoUseAfterDestroy
  <2>1. m \in {"replicator", "raft", "http"}
    BY DEF Uses
  <2>2. /\ m = "http" => left >= 8
        /\ m = "raft" => left >= 5
        /\ m = "replicator" => left >= 4
    BY <2>1 DEF IInv, PInv, PTypeOK, StartFacts, HasThreads, Idle
  <2>3. left \in 0..9
    BY DEF IInv, PInv, PTypeOK
  <2>4. \A i \in 1..left : Members[i] \in Alive
    BY DEF Alive
  <2>5. CASE m = "http"
    <3>1. Members[3] \in Alive /\ Members[7] \in Alive /\ Members[8] \in Alive
      BY <2>2, <2>3, <2>4, <2>5
    <3> QED  BY <2>5, <3>1 DEF Uses, Members
  <2>6. CASE m = "raft"
    <3>1. Members[5] \in Alive
      BY <2>2, <2>3, <2>4, <2>6
    <3> QED  BY <2>6, <3>1 DEF Uses, Members
  <2>7. CASE m = "replicator"
    <3>1. Members[3] \in Alive /\ Members[4] \in Alive
      BY <2>2, <2>3, <2>4, <2>7
    <3> QED  BY <2>7, <3>1 DEF Uses, Members
  <2> QED  BY <2>1, <2>5, <2>6, <2>7
<1> QED  BY <1>1, InductiveInvariant, PTL

\* Nobody reads the store of a server that has not recovered it.
THEOREM RecoveryComesFirst == Spec => []RecoveredBeforeUse
<1>1. IInv => RecoveredBeforeUse
  <2> SUFFICES ASSUME IInv, prog = "redon-server", NEW m \in DOMAIN Uses,
                      "store" \in Uses[m], HasThreads(m)
               PROVE  recovered
    BY DEF IInv, PInv, RecoveryFacts, RecoveredBeforeUse
  <2>1. m \in {"replicator", "http"}
    BY DEF Uses
  <2> QED  BY <2>1 DEF IInv, PInv, PTypeOK, RecoveryFacts, HasThreads, Idle
<1> QED  BY <1>1, InductiveInvariant, PTL

\* The status the web gateway answers with is true of the Redon server for the line
\* it read, however many threads and clients there are, whatever part of a body
\* comes, whatever times out and whatever the server refuses.
THEOREM StatusesAreTrue == Spec => []StatusIsTrue
<1>1. IInv => StatusIsTrue
  BY DEF IInv, EInv
<1> QED  BY <1>1, InductiveInvariant, PTL
=============================================================================
