----------------------------- MODULE Processes ------------------------------
(***************************************************************************)
(* The programs redon-server and redon-web as processes: how they start,   *)
(* in what order the parts of a server come up, what a failing start takes *)
(* down again, and the HTTP endpoint of each (HttpEndpoint).               *)
(*                                                                         *)
(* main.cpp reads the flags and rejects combinations of roles; Server::run *)
(* opens the storage, starts the senders, the Raft timer and the metrics   *)
(* endpoint, and only then binds the data port.  Where a step fails, run() *)
(* returns and the destructor of Server destroys its members in reverse    *)
(* order, joining the threads that are running by then.  A sender and the  *)
(* Raft timer end some time after their stop (Replication, RaftElection);  *)
(* here they are threads that use some of the members until they end.      *)
(* The program redon-web stands for any owner of a WebGateway: one may     *)
(* stop it, while redon-web itself waits for it for ever, which is the     *)
(* case in which StopWeb never happens.                                    *)
(***************************************************************************)
EXTENDS HttpEndpoint

CONSTANTS Args,       \* the sets of flags the server may be started with
          Requests    \* the requests clients of its endpoint may send

Flag == {"bad", "replica", "follower", "raft", "shard", "disk", "nowal",
         "metrics", "sameport"}

ASSUME ProcessAssumption == Args \subseteq SUBSET Flag /\ Requests \subseteq Request

VARIABLES
  prog, flags,    \* the program and its command line
  main,           \* the place of its main thread
  left,           \* how many members of Server are not yet destroyed
  helper,         \* the sender of replicator_, the timer of raft_
  recovered       \* the storage holds what an earlier process left

procVars == <<main, left, helper, recovered>>
vars == <<endpointVars, prog, flags, procVars>>

MembersHttpFirst == <<"http", "config", "wal", "store", "replicator", "raft", "router",
                      "metrics", "log_mutex">>

\* The data members of Server, as declared.
Members == <<"config", "wal", "store", "replicator", "raft", "router", "metrics",
             "http", "log_mutex">>

\* The members a thread of each of these uses: the cut of a snapshot reads the
\* store, and the endpoint's render_ reads the counters and the store.
Uses == [replicator |-> {"replicator", "store"},
         raft |-> {"raft"},
         http |-> {"http", "metrics", "store"}]

Alive == {Members[i] : i \in 1..left}

HasThreads(m) ==
  CASE m = "http" -> ~Joined
    [] m \in DOMAIN helper -> helper[m] \in {"run", "stopping"}
    [] OTHER -> FALSE

Init ==
  /\ EndpointInit
  /\ prog \in {"redon-server", "redon-web"}
  /\ flags \in IF prog = "redon-server" THEN Args ELSE {{}, {"bad"}}
  /\ gateway = (prog = "redon-web")
  /\ main = "args" /\ left = Len(Members)
  /\ helper = [m \in {"replicator", "raft"} |-> None]
  /\ recovered = FALSE
-----------------------------------------------------------------------------
(* redon-server: main() and Server::run(). *)

\* Arguments that do not parse, and combinations of roles main() refuses.
Refused(fl) ==
  \/ "bad" \in fl
  \/ {"replica", "follower"} \subseteq fl
  \/ "raft" \in fl /\ fl \cap {"replica", "follower"} # {}
  \/ "shard" \in fl /\ fl \cap {"replica", "follower", "raft"} # {}
  \/ {"disk", "shard"} \subseteq fl
  \/ {"metrics", "sameport"} \subseteq fl

\* Where the sockets library needs initialising (Windows), that may fail too.
ParseArgs ==
  /\ main = "args" /\ prog = "redon-server"
  /\ main' \in {"exit", "storage"} /\ (main' = "storage" => ~Refused(flags))
  /\ UNCHANGED <<endpointVars, prog, flags, left, helper, recovered>>

IgnoresOpenFailure ==
  /\ main = "storage"
  /\ main' = "replication"
  /\ recovered' \in BOOLEAN
  /\ UNCHANGED <<endpointVars, prog, flags, left, helper>>

\* open_disk_backend, or setup_persistence: both read the old records first.
OpenStorage ==
  /\ main = "storage"
  /\ \/ main' = "replication" /\ recovered' = TRUE
     \/ main' = "destroy" /\ ("disk" \in flags \/ "nowal" \notin flags)
        /\ UNCHANGED recovered
  /\ UNCHANGED <<endpointVars, prog, flags, left, helper>>

\* A step of run() that starts a thread: nothing catches the exception of one that
\* cannot be started, and the process ends.
StartsThread(next) == main' \in {next, "abort"}

setup_replication ==
  /\ main = "replication"
  /\ IF "follower" \in flags /\ "replica" \notin flags
       THEN StartsThread("raft") /\ helper' = [helper EXCEPT !["replicator"] = "run"]
       ELSE main' = "raft" /\ UNCHANGED helper
  /\ UNCHANGED <<endpointVars, prog, flags, left, recovered>>

\* setup_raft, and setup_sharding, which starts nothing.
setup_raft ==
  /\ main = "raft"
  /\ IF "raft" \in flags
       THEN StartsThread("metrics") /\ helper' = [helper EXCEPT !["raft"] = "run"]
       ELSE main' = "metrics" /\ UNCHANGED helper
  /\ UNCHANGED <<endpointVars, prog, flags, left, recovered>>

\* A metrics port that cannot be bound is only warned about.
setup_metrics ==
  /\ main = "metrics"
  /\ \/ /\ "metrics" \in flags /\ StartsThread("bind")
        /\ \E t \in Thread : startMetrics({t})
     \/ main' = "bind" /\ startFails
  /\ UNCHANGED <<prog, flags, left, helper, recovered>>

Bind ==
  /\ main = "bind"
  /\ main' \in {"pool", "destroy"}
  /\ UNCHANGED <<endpointVars, prog, flags, left, helper, recovered>>

\* The constructor of ThreadPool: all threads, or none (the exception is caught
\* in run()), or only some, and then destroying the joinable rest ends the process.
StartPool ==
  /\ main = "pool"
  /\ main' \in {"serve", "destroy", "abort"}
  /\ UNCHANGED <<endpointVars, prog, flags, left, helper, recovered>>
-----------------------------------------------------------------------------
(* ~Server(), one member after the other. *)

Destroy ==
  /\ main = "destroy" /\ left > 0 /\ prog = "redon-server"
  /\ LET m == Members[left] IN
     IF HasThreads(m)
       THEN /\ main' = "join" /\ UNCHANGED left
            /\ IF m = "http" THEN CloseListener /\ UNCHANGED helper
                             ELSE /\ helper' = [helper EXCEPT ![m] = "stopping"]
                                  /\ UNCHANGED endpointVars
       ELSE left' = left - 1 /\ UNCHANGED <<main, helper, endpointVars>>
  /\ UNCHANGED <<prog, flags, recovered>>

Join ==
  /\ main = "join" /\ prog = "redon-server" /\ ~HasThreads(Members[left])
  /\ main' = "destroy" /\ left' = left - 1
  /\ UNCHANGED <<endpointVars, prog, flags, helper, recovered>>

Exit ==
  /\ main = "destroy" /\ left = 0
  /\ main' = "exit"
  /\ UNCHANGED <<endpointVars, prog, flags, left, helper, recovered>>

\* The sender and the timer see their stop flag.
HelperEnds(m) ==
  /\ helper[m] = "stopping"
  /\ helper' = [helper EXCEPT ![m] = "done"]
  /\ UNCHANGED <<endpointVars, prog, flags, main, left, recovered>>
-----------------------------------------------------------------------------
(* redon-web, and another owner of a gateway. *)

\* main() of web_main.cpp: arguments, then start(), which may fail, or stop at a
\* thread that cannot be started.
StartWeb ==
  /\ main = "args" /\ prog = "redon-web"
  /\ \/ StartsThread("wait") /\ "bad" \notin flags
        /\ \E ts \in SUBSET Thread : startGateway(ts)
     \/ main' = "exit" /\ startFails
  /\ UNCHANGED <<prog, flags, left, helper, recovered>>

\* An owner other than redon-web, whose wait() never returns, lets stop() run.
StopWeb ==
  /\ main = "wait"
  /\ main' = "join"
  /\ CloseListener
  /\ UNCHANGED <<prog, flags, left, helper, recovered>>

JoinWeb ==
  /\ main = "join" /\ prog = "redon-web" /\ Joined
  /\ main' = "exit"
  /\ UNCHANGED <<endpointVars, prog, flags, left, helper, recovered>>

MainStep ==
  \/ ParseArgs \/ OpenStorage \/ setup_replication \/ setup_raft \/ setup_metrics
  \/ Bind \/ StartPool \/ Destroy \/ Join \/ Exit \/ StartWeb \/ JoinWeb

\* Once the process is gone, none of its threads runs.
InProcess == main \notin {"exit", "abort"} /\ UNCHANGED <<prog, flags, procVars>>
ThreadStep(t) == InProcess /\ (Loop(t) \/ Handle(t))
AcceptStep(c) == InProcess /\ \E t \in Thread : Accept(t, c)

\* The metrics endpoint discards the request: one kind stands for all.
Offered == IF gateway THEN Requests ELSE {"other"}

Next ==
  \/ MainStep
  \/ StopWeb
  \/ \E m \in DOMAIN helper : HelperEnds(m)
  \/ \E t \in Thread : ThreadStep(t)
  \/ \E t \in Thread : AcceptFails(t) /\ InProcess
  \/ \E c \in Conn : AcceptStep(c)
  \/ \E c \in Conn, r \in Offered, d \in BOOLEAN : Connect(c, r, d) /\ InProcess
  \/ \E c \in Conn : /\ ServerExecutes(c) \/ ServerRefuses(c) \/ ServerDrops(c)
                    /\ UNCHANGED <<prog, flags, procVars>>

Spec == Init /\ [][Next]_vars

\* The main thread and the threads of the process are scheduled.  Every recv and
\* every wait for the server has a timeout.  A send has none: it ends when its peer
\* reads or leaves, and nothing is assumed of one that does neither.  accept may
\* fail, but not for ever while connections wait.
Fairness ==
  /\ WF_vars(MainStep)
  /\ \A m \in {"replicator", "raft"} : WF_vars(HelperEnds(m))
  /\ \A t \in Thread : WF_vars(~Blocked(t) /\ ThreadStep(t))
  /\ \A c \in Conn : SF_vars(AcceptStep(c))

FairSpec == Spec /\ Fairness
-----------------------------------------------------------------------------
TypeOK ==
  /\ EndpointTypeOK
  /\ prog \in {"redon-server", "redon-web"} /\ flags \subseteq Flag
  /\ main \in {"args", "storage", "replication", "raft", "metrics", "bind", "pool",
               "serve", "destroy", "join", "exit", "abort", "wait"}
  /\ left \in 0..Len(Members) /\ recovered \in BOOLEAN
  /\ helper \in [{"replicator", "raft"} -> {None, "run", "stopping", "done"}]

(* While a sender, the Raft timer or the metrics endpoint is running, every  *)
(* member of Server it uses exists: run() may return in the middle of a      *)
(* start, and the destructor relies on the order of the declarations in      *)
(* server.h.                                                                 *)
NoUseAfterDestroy ==
  (prog = "redon-server" /\ main \notin {"exit", "abort"}) =>
    \A m \in DOMAIN Uses : HasThreads(m) => Uses[m] \subseteq Alive

(* No thread and no client reads the store before run() has recovered it:    *)
(* a snapshot sent to a follower, or the number of keys, would show a part.  *)
RecoveredBeforeUse ==
  (\/ main = "serve"
   \/ prog = "redon-server" /\ \E m \in DOMAIN Uses : "store" \in Uses[m] /\ HasThreads(m))
    => recovered

(* The status the gateway reports is true of the server.  At most one        *)
(* command is executed for a request: the line route() found in the part of  *)
(* the body that came, which need not be the whole command.  200 means that  *)
(* this line was executed, unless the reply passed on is the server's        *)
(* refusal of a line that is too long, and then nothing was and will be.     *)
(* Every other answer but 502 (timeout or no connection, where the line may  *)
(* be executed all the same) means that nothing was and will be.             *)
StatusIsTrue ==
  \A c \in Conn :
    /\ executed[c] \in {<<>>, <<line[c]>>}
    /\ (gateway /\ answer[c] = 200 /\ req[c] \in {"cmd", "long"}) =>
         /\ c \notin requests /\ reply[c] # None
         /\ executed[c] = IF reply[c] = "refused" THEN <<>> ELSE <<line[c]>>
    /\ answer[c] \in {204, 400, 404, 413} => executed[c] = <<>> /\ c \notin requests

(* A start that fails, and the stop of an endpoint, come to their end: the   *)
(* joins of ~MetricsHttp, ~RaftNode, ~Replicator and WebGateway::stop return,*)
(* unless a thread of the endpoint is held up in ::send by a client that     *)
(* neither reads nor leaves: the endpoints set no send timeout.              *)
FailedStartEnds ==
  main \in {"destroy", "join"} ~> main = "exit" \/ \E t \in Thread : Blocked(t)

\* Every thread of the endpoint is held up in a send.
Jammed == ~Joined /\ \A t \in Thread : at[t] \in {None, "done"} \/ Blocked(t)

(* The connection of a client that reads is answered or closed in the end,   *)
(* whatever the server does, unless the process goes first or clients that   *)
(* neither read nor leave hold up every single thread of the endpoint: one   *)
(* thread that is left serves the others.                                    *)
EveryConnectionEnds ==
  \A c \in Conn :
    net[c] = "backlog" /\ ~deaf[c] ~>
      net[c] \in {"closed", "reset"} \/ main \in {"exit", "abort"} \/ Jammed
=============================================================================
