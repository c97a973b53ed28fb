---------------------------- MODULE HttpEndpoint ----------------------------
(***************************************************************************)
(* The two HTTP endpoints: WebGateway of src/src/web.cpp and MetricsHttp   *)
(* of metrics.cpp.  Both accept on one listening socket from threads of    *)
(* their own and are stopped by clearing running_, closing that socket and *)
(* joining the threads; they differ in how many threads there are and in   *)
(* what a thread does with a connection.  The gateway reads a request and  *)
(* answers it or forwards its command to the Redon server; the metrics     *)
(* endpoint answers anything with the counters.                            *)
(*                                                                         *)
(* A request is its kind.  Which of its bytes arrive is left open: the     *)
(* head may be cut off or too long, and of a body that ends early a part   *)
(* of the command is left, or nothing.  What the system call accept does   *)
(* in a thread that is blocked in it while another closes the socket is    *)
(* the constant CloseWakesAccept: on Windows it fails, on Linux it goes on *)
(* waiting and keeps the socket open until a connection arrives.           *)
(***************************************************************************)
EXTENDS Naturals, Sequences

CONSTANTS Thread,            \* the threads of the endpoint
          Conn,              \* the connections that may arrive
          CloseWakesAccept

ASSUME EndpointAssumption == CloseWakesAccept \in BOOLEAN /\ "none" \notin Conn

VARIABLES
  gateway,            \* WebGateway, or else MetricsHttp
  listen, running,    \* listen_ and running_
  at, client,         \* each thread: its place in the loop, its connection
  net, req,           \* each connection: where it is, and its request
  deaf,               \* its client neither reads nor leaves
  line,               \* the command route() found in its body
  requests, reply,    \* commands the Redon server has yet to take up; its replies
  \* History: the status each connection was answered with, and the commands
  \* executed for it.
  answer, executed

socket == <<listen, running>>
threads == <<at, client>>
input == <<req, deaf, line>>
server == <<requests, reply, executed>>
endpointVars == <<gateway, socket, threads, net, input, server, answer>>

None == "none"

\* A "long" command is one past kMaxLineLength of the server.
Request == {"options", "page", "healthz", "favicon", "other", "blank", "cmd", "long"}
Line == {"whole", "cut"}

RouteFails == [options |-> 204, page |-> 200, healthz |-> 200, favicon |-> 204,
               other |-> 404, blank |-> 500]

\* The requests route() answers without the server; any other path is unknown,
\* and a POST whose first line is empty is refused.
Route == [options |-> 204, page |-> 200, healthz |-> 200, favicon |-> 204,
          other |-> 404, blank |-> 400]

Place == {None, "check", "accept", "failed", "head", "body", "render",
          "forward", "wait", "send", "done"}

\* The kernel keeps a listening socket while it is open or a thread is blocked in
\* accept on it.
Listening == listen = "open" \/ \E t \in Thread : at[t] = "accept"

EndpointInit ==
  /\ listen = None /\ running = FALSE
  /\ at = [t \in Thread |-> None] /\ client = [t \in Thread |-> None]
  /\ net = [c \in Conn |-> None] /\ req = [c \in Conn |-> None]
  /\ deaf = [c \in Conn |-> FALSE] /\ line = [c \in Conn |-> None]
  /\ requests = {} /\ reply = [c \in Conn |-> None]
  /\ answer = [c \in Conn |-> 0] /\ executed = [c \in Conn |-> <<>>]

\* start(): socket, bind, listen, then the threads ts.
startMetrics(ts) ==
  /\ listen' = "open" /\ running' = TRUE
  /\ at' = [t \in Thread |-> IF t \in ts THEN "check" ELSE None]
  /\ UNCHANGED <<gateway, client, net, input, server, answer>>

startGateway(ts) == ts # {} /\ startMetrics(ts)

\* start() where the port is taken: the socket is closed again.
startFails == UNCHANGED endpointVars

KeepsListening ==
  /\ running' = FALSE
  /\ UNCHANGED <<gateway, listen, threads, net, input, server, answer>>

\* stop() and the destructor, up to the join: clear running_, close the socket.
\* With the last reference to it the connections nobody accepted are reset.
CloseListener ==
  /\ running' = FALSE
  /\ listen' = IF listen = "open" THEN "closed" ELSE listen
  /\ at' = [t \in Thread |->
              IF at[t] = "accept" /\ CloseWakesAccept THEN "failed" ELSE at[t]]
  /\ net' = [c \in Conn |->
              IF net[c] = "backlog" /\ \A t \in Thread : at'[t] # "accept"
                THEN "reset" ELSE net[c]]
  /\ UNCHANGED <<gateway, client, input, server, answer>>

\* The join that follows may return.
Joined == \A t \in Thread : at[t] \in {None, "done"}
-----------------------------------------------------------------------------
(* The loop: worker_loop() and loop(). *)

Goto(t, place) == at' = [at EXCEPT ![t] = place]

\* The thread leaves the listener: with the last one out of accept, after the
\* close, the socket goes and takes its unaccepted connections along.
LeaveAccept(t, place, c) ==
  /\ Goto(t, place)
  /\ LET gone == listen # "open" /\ \A u \in Thread \ {t} : at[u] # "accept"
     IN  net' = [d \in Conn |-> CASE d = c -> "held"
                                  [] d # c /\ net[d] = "backlog" /\ gone -> "reset"
                                  [] OTHER -> net[d]]

CheckRunning(t) ==
  /\ at[t] = "check"
  /\ Goto(t, CASE ~running -> "done"
               [] running /\ listen = "open" -> "accept"
               [] OTHER -> "failed")
  /\ UNCHANGED <<gateway, socket, client, net, input, server, answer>>

\* accept fails for a reason of its own: a signal, or no descriptor left.
AcceptFails(t) ==
  /\ at[t] = "accept"
  /\ LeaveAccept(t, "failed", None)
  /\ UNCHANGED <<gateway, socket, client, input, server, answer>>

Accept(t, c) ==
  /\ at[t] = "accept" /\ net[c] = "backlog"
  /\ LeaveAccept(t, "head", c)
  /\ client' = [client EXCEPT ![t] = c]
  /\ UNCHANGED <<gateway, socket, input, server, answer>>

LeavesOnFailure(t) ==
  /\ at[t] = "failed"
  /\ Goto(t, "done")
  /\ UNCHANGED <<gateway, socket, client, net, input, server, answer>>

AfterFailure(t) ==
  /\ at[t] = "failed"
  /\ Goto(t, IF running THEN "check" ELSE "done")
  /\ UNCHANGED <<gateway, socket, client, net, input, server, answer>>
-----------------------------------------------------------------------------
(* One connection: handle_connection(), route(), forward_to_redon(), and   *)
(* the body of MetricsHttp::loop().                                        *)

\* The guard of the connection closes it, and the thread returns to its loop.
Close(t) ==
  /\ net' = [net EXCEPT ![client[t]] = "closed"]
  /\ client' = [client EXCEPT ![t] = None]
  /\ Goto(t, "check")

\* A response is ready to be sent.
Respond(t, status) ==
  /\ answer' = [answer EXCEPT ![client[t]] = status]
  /\ Goto(t, "send")
  /\ UNCHANGED <<client, net>>

\* The gateway reads up to the end of the headers: the peer goes or the timeout
\* strikes first, or there are too many bytes, or the head is complete.
ReadHead(t) ==
  /\ at[t] = "head" /\ gateway
  /\ \/ Close(t) /\ UNCHANGED answer
     \/ Respond(t, 413)
     \/ Goto(t, "body") /\ UNCHANGED <<client, net, answer>>
  /\ UNCHANGED <<gateway, socket, input, server>>

\* The rest of the body, or as much of it as came, and what route() makes of the
\* request.  It takes what came for the command: when the peer goes or falls silent
\* in the middle, or there are more than kMaxRequest bytes, that is another one.
ReadBody(t) ==
  /\ at[t] = "body"
  /\ LET c == client[t] IN
     \/ /\ req[c] \notin {"cmd", "long"}
        /\ Respond(t, Route[req[c]])
        /\ UNCHANGED line
     \/ /\ req[c] \in {"cmd", "long"}
        /\ Respond(t, Route["blank"])
        /\ UNCHANGED line
     \/ /\ req[c] \in {"cmd", "long"}
        /\ \E l \in Line : line' = [line EXCEPT ![c] = l]
        /\ Goto(t, "forward")
        /\ UNCHANGED <<client, net, answer>>
  /\ UNCHANGED <<gateway, socket, req, deaf, server>>

\* A connection of its own to the Redon server, and the line sent on it.
Forward(t) ==
  /\ at[t] = "forward"
  /\ \/ Respond(t, 502) /\ UNCHANGED server
     \/ /\ requests' = requests \cup {client[t]}
        /\ Goto(t, "wait")
        /\ UNCHANGED <<client, net, answer, reply, executed>>
  /\ UNCHANGED <<gateway, socket, input>>

ReadReply(t) ==
  /\ at[t] = "wait" /\ reply[client[t]] # None
  /\ Respond(t, 200)
  /\ UNCHANGED <<gateway, socket, input, server>>

RetriesForward(t) ==
  /\ at[t] = "wait"
  /\ Goto(t, "forward")
  /\ UNCHANGED <<gateway, socket, client, net, input, server, answer>>

\* kRedonTimeoutMs passes, or the server closes the connection.
ForwardFails(t) ==
  /\ at[t] = "wait"
  /\ Respond(t, 502)
  /\ UNCHANGED <<gateway, socket, input, server>>

\* MetricsHttp: one recv, whatever it brings, then render_().
ReadAny(t) ==
  /\ at[t] = "head" /\ ~gateway
  /\ Goto(t, "render")
  /\ UNCHANGED <<gateway, socket, client, net, input, server, answer>>

Render(t) ==
  /\ at[t] = "render"
  /\ Respond(t, 200)
  /\ UNCHANGED <<gateway, socket, input, server>>

\* send_all, whether it succeeds or not, and the end of the connection.  It has no
\* timeout, so with a deaf client it may never return.
SendResponse(t) ==
  /\ at[t] = "send"
  /\ Close(t)
  /\ UNCHANGED <<gateway, socket, input, server, answer>>

Blocked(t) == at[t] = "send" /\ deaf[client[t]]

Handle(t) ==
  \/ ReadHead(t) \/ ReadBody(t) \/ Forward(t) \/ ReadReply(t) \/ ForwardFails(t)
  \/ ReadAny(t) \/ Render(t) \/ SendResponse(t)

Loop(t) == CheckRunning(t) \/ AfterFailure(t)
-----------------------------------------------------------------------------
(* The environment: clients of the endpoint, and the Redon server. *)

Connect(c, r, d) ==
  /\ net[c] = None /\ Listening
  /\ net' = [net EXCEPT ![c] = "backlog"]
  /\ req' = [req EXCEPT ![c] = r] /\ deaf' = [deaf EXCEPT ![c] = d]
  /\ UNCHANGED <<gateway, socket, threads, line, server, answer>>

\* The server is done with a forwarded line, also one whose sender has given up.
TakeUp(c, r) ==
  /\ c \in requests
  /\ requests' = requests \ {c}
  /\ reply' = IF \E t \in Thread : client[t] = c /\ at[t] = "wait"
                THEN [reply EXCEPT ![c] = r] ELSE reply
  /\ UNCHANGED <<gateway, socket, threads, net, input, answer>>

\* It executes the line and replies with the result, an error included.
ServerExecutes(c) ==
  /\ TakeUp(c, "result")
  /\ executed' = [executed EXCEPT ![c] = Append(@, line[c])]

\* It replies that the line is too long, and executes nothing.  A line just past
\* the limit may also come through.
ServerRefuses(c) ==
  /\ req[c] = "long"
  /\ TakeUp(c, "refused")
  /\ UNCHANGED executed

\* The server never takes it up: it was overloaded, or it died.
ServerDrops(c) ==
  /\ c \in requests
  /\ requests' = requests \ {c}
  /\ UNCHANGED <<gateway, socket, threads, net, input, answer, reply, executed>>

EndpointTypeOK ==
  /\ gateway \in BOOLEAN /\ running \in BOOLEAN
  /\ listen \in {None, "open", "closed"}
  /\ at \in [Thread -> Place] /\ client \in [Thread -> Conn \cup {None}]
  /\ net \in [Conn -> {None, "backlog", "held", "closed", "reset"}]
  /\ req \in [Conn -> Request \cup {None}]
  /\ deaf \in [Conn -> BOOLEAN] /\ line \in [Conn -> Line \cup {None}]
  /\ requests \subseteq Conn
  /\ reply \in [Conn -> {None, "result", "refused"}]
  /\ answer \in [Conn -> {0, 200, 204, 400, 404, 413, 502}]
  /\ executed \in [Conn -> Seq(Line)]
=============================================================================
