---------------------------- MODULE LeaderWrites ----------------------------
(***************************************************************************)
(* Client writes in a Raft cluster: execute_line of src/src/command.cpp    *)
(* over the election of RaftElection.  A worker asks is_leader() under the *)
(* node's mutex and acts on the answer after the mutex is released: it     *)
(* writes to the store, or asks leader_id() for the address it redirects   *)
(* the client to.  The election goes on in between.                        *)
(***************************************************************************)
EXTENDS RaftElection

CONSTANTS Client   \* the clients, each with a command in progress or none

VARIABLES
  cmd,             \* each client's command: where it is, at which node
  \* History: the writes applied <<term of the check, node>>, and the leaders
  \* clients were redirected to.
  accepted, redirects

clientVars == <<cmd, accepted, redirects>>
allVars == <<vars, clientVars>>

Idle == [step |-> "idle", node |-> None, term |-> 0]

WritesInit ==
  /\ Init
  /\ cmd = [c \in Client |-> Idle]
  /\ accepted = {} /\ redirects = {}

OrCandidate(n) == role[n] # "Follower"

is_leader(n) == role[n] = "Leader"

\* A SET or DEL reaches node n.  The term is that of the critical section of
\* is_leader(), for the history only.
CheckLeader(c, n) ==
  /\ cmd[c] = Idle
  /\ cmd' = [cmd EXCEPT ![c] = [step |-> IF is_leader(n) THEN "write" ELSE "redirect",
                                node |-> n, term |-> currentTerm[n]]]
  /\ UNCHANGED <<accepted, redirects, vars>>

\* store.set or store.del, whatever the node has become in the meantime.
Write(c) ==
  /\ cmd[c].step = "write"
  /\ accepted' = accepted \cup {<<cmd[c].term, cmd[c].node>>}
  /\ cmd' = [cmd EXCEPT ![c] = Idle]
  /\ UNCHANGED <<redirects, vars>>

CandidateOf(n) == votedFor[n]

leader_id(n) == leaderId[n]

\* ERR NOTLEADER <addr>, or (unknown).
Redirect(c) ==
  /\ cmd[c].step = "redirect"
  /\ redirects' = redirects \cup ({leader_id(cmd[c].node)} \ {None})
  /\ cmd' = [cmd EXCEPT ![c] = Idle]
  /\ UNCHANGED <<accepted, vars>>

ClientStep(c) == (\E n \in Node : CheckLeader(c, n)) \/ Write(c) \/ Redirect(c)

WritesNext ==
  \/ Next /\ UNCHANGED clientVars
  \/ \E c \in Client : ClientStep(c)

WritesSpec == WritesInit /\ [][WritesNext]_allVars

FairWritesSpec == WritesSpec /\ \A n \in Node : WF_vars(Thread(n))
-----------------------------------------------------------------------------
(* The types of the commands in progress and of the history. *)
WritesTypeOK ==
  /\ cmd \in [Client -> [step : {"idle", "write", "redirect"},
                         node : Node \cup {None}, term : Nat]]
  /\ accepted \subseteq Nat \X Node /\ redirects \subseteq Node

(* "In a Raft cluster only the elected leader accepts writes" (command.cpp), *)
(* as far as it holds of a check that is acted on later: a write applied     *)
(* after its node was deposed still counts for the term it was checked in,   *)
(* and no two nodes ever apply writes of the same term.                      *)
OneWriterPerTerm ==
  \A v, w \in accepted : v[1] = w[1] => v[2] = w[2]

(* A client that is refused is sent to a node that has won an election, even *)
(* where the role changes between is_leader() and leader_id().               *)
RedirectsToAWinner ==
  \A n \in redirects : \E e \in elected : e[2] = n
=============================================================================
