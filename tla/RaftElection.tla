---------------------------- MODULE RaftElection ----------------------------
(***************************************************************************)
(* Leader election of a Raft cluster (src/src/raft.cpp, raft.h).           *)
(*                                                                         *)
(* Every node has one timer thread (tick_loop) that runs elections and     *)
(* heartbeat rounds, and worker threads that run the two RPC handlers.     *)
(* Each critical section of the node's mutex is one action; between two of *)
(* them the timer thread is inside a network call with the lock released,  *)
(* which is where the handlers interleave.  Clocks are left out: an        *)
(* election deadline, a heartbeat period or an RPC timeout may expire at   *)
(* any time.                                                               *)
(***************************************************************************)
EXTENDS Naturals, FiniteSets, Functions

CONSTANTS Node,        \* the cluster members (their host:port)
          None,        \* the empty string: no vote, no known leader
          Config,      \* Config[n]: the --raft list node n was started with
          Stoppable,   \* the nodes that may be shut down
          MaxElections,\* bound: elections decided on, over all nodes
          MaxOrphans   \* bound: abandoned requests waiting at a receiver

ASSUME NodeAssumption == IsFiniteSet(Node) /\ None \notin Node

\* Every node is given the whole cluster; its list may repeat entries and may
\* name the node itself.
ASSUME ConfigAssumption ==
  /\ DOMAIN Config = Node
  /\ \A n \in Node : Range(Config[n]) \cup {n} = Node

ASSUME BoundAssumption ==
  /\ Stoppable \subseteq Node
  /\ MaxElections \in Nat
  /\ MaxOrphans \in Nat

VARIABLES
  \* Guarded by the node's mutex.
  role, currentTerm, votedFor, leaderId, running,
  \* The timer thread: its place in the code, the locals of start_election and
  \* send_heartbeats (term, votes, the peers still to be called), and the one
  \* RPC it may be blocked in.
  pc, term, votes, todo, rpc,
  \* Requests whose caller timed out and which the receiver has yet to serve.
  orphans,
  \* History: every vote ever cast <<voter, term, candidate>> and every
  \* election ever won <<term, leader>>.
  voteLog, elected

nodeVars == <<role, currentTerm, votedFor, leaderId>>
threadVars == <<pc, term, votes, todo, rpc>>
vars == <<nodeVars, running, threadVars, orphans, voteLog, elected>>

Role == {"Follower", "Candidate", "Leader"}
Kind == {"vote", "append"}
NoRpc == [peer |-> None, rterm |-> 0, ok |-> FALSE]

-----------------------------------------------------------------------------
(* The constructor's peer list (self and duplicates dropped), and majority(). *)

Peers(n) == Range(Config[n]) \ {n}

Majority(n) == (Cardinality(Peers(n)) + 1) \div 2 + 1

Init ==
  /\ role = [n \in Node |-> "Follower"]
  /\ currentTerm = [n \in Node |-> 0]
  /\ votedFor = [n \in Node |-> None]
  /\ leaderId = [n \in Node |-> None]
  /\ running = [n \in Node |-> TRUE]
  /\ pc = [n \in Node |-> "tick"]
  /\ term = [n \in Node |-> 0]
  /\ votes = [n \in Node |-> 0]
  /\ todo = [n \in Node |-> {}]
  /\ rpc = [n \in Node |-> NoRpc]
  /\ orphans = {}
  /\ voteLog = {}
  /\ elected = {}

-----------------------------------------------------------------------------
(* The timer thread. *)

\* The bound's measure: elections started (a vote of a node for itself each) and
\* decided on but not yet started.
ElectionsDecided == Cardinality({v \in voteLog : v[1] = v[3]})
                      + Cardinality({n \in Node : pc[n] = "elect"})

\* tick_loop: the election deadline of a non-leader has passed.  The decision is
\* taken under the lock and acted on after it is released.
TickElection(n) ==
  /\ pc[n] = "tick" /\ running[n]
  /\ role[n] # "Leader"
  /\ ElectionsDecided < MaxElections
  /\ pc' = [pc EXCEPT ![n] = "elect"]
  /\ UNCHANGED <<nodeVars, running, term, votes, todo, rpc, orphans, voteLog, elected>>

\* tick_loop: the heartbeat period of a leader has passed.
TickHeartbeat(n) ==
  /\ pc[n] = "tick" /\ running[n]
  /\ role[n] = "Leader"
  /\ pc' = [pc EXCEPT ![n] = "beat"]
  /\ UNCHANGED <<nodeVars, running, term, votes, todo, rpc, orphans, voteLog, elected>>

\* stop() clears running_ ; the thread only looks at it in tick_loop.
Stop(n) ==
  /\ n \in Stoppable /\ running[n]
  /\ running' = [running EXCEPT ![n] = FALSE]
  /\ UNCHANGED <<nodeVars, threadVars, orphans, voteLog, elected>>

TickExit(n) ==
  /\ pc[n] = "tick" /\ ~running[n]
  /\ pc' = [pc EXCEPT ![n] = "stopped"]
  /\ UNCHANGED <<nodeVars, running, term, votes, todo, rpc, orphans, voteLog, elected>>

\* start_election or send_heartbeats returns (its locals term and peers are
\* gone), or goes on to its next peer if one is left.
Return(n) ==
  /\ pc' = [pc EXCEPT ![n] = "tick"]
  /\ term' = [term EXCEPT ![n] = 0]
  /\ todo' = [todo EXCEPT ![n] = {}]

Continue(n, left) ==
  \/ left = {} /\ Return(n)
  \/ left # {} /\ todo' = [todo EXCEPT ![n] = left] /\ UNCHANGED <<pc, term>>

\* First critical section of start_election.  Nothing of the decision taken in
\* tick_loop is checked again.
StartElection(n) ==
  /\ pc[n] = "elect"
  /\ role' = [role EXCEPT ![n] = "Candidate"]
  /\ currentTerm' = [currentTerm EXCEPT ![n] = @ + 1]
  /\ votedFor' = [votedFor EXCEPT ![n] = n]
  /\ leaderId' = [leaderId EXCEPT ![n] = None]
  /\ voteLog' = voteLog \cup {<<n, currentTerm[n] + 1, n>>}
  /\ term' = [term EXCEPT ![n] = currentTerm[n] + 1]
  /\ votes' = [votes EXCEPT ![n] = 1]
  /\ todo' = [todo EXCEPT ![n] = Peers(n)]
  /\ pc' = [pc EXCEPT ![n] = IF Peers(n) = {} THEN "tick" ELSE "voting"]
  /\ UNCHANGED <<running, rpc, orphans, elected>>

\* First critical section of send_heartbeats: leave unless still the leader.
SendHeartbeats(n) ==
  /\ pc[n] = "beat"
  /\ \/ /\ role[n] # "Leader"
        /\ Return(n)
     \/ /\ role[n] = "Leader"
        /\ term' = [term EXCEPT ![n] = currentTerm[n]]
        /\ todo' = [todo EXCEPT ![n] = Peers(n)]
        /\ pc' = [pc EXCEPT ![n] = IF Peers(n) = {} THEN "tick" ELSE "beating"]
  /\ UNCHANGED <<nodeVars, running, votes, rpc, orphans, voteLog, elected>>

-----------------------------------------------------------------------------
(* become_follower_locked. *)

KeepsLeaderHint(n, t) ==
  /\ role' = [role EXCEPT ![n] = "Follower"]
  /\ currentTerm' = [currentTerm EXCEPT ![n] = t]
  /\ votedFor' = [votedFor EXCEPT ![n] = None]
  /\ UNCHANGED leaderId

become_follower_locked(n, t) ==
  /\ role' = [role EXCEPT ![n] = "Follower"]
  /\ currentTerm' = [currentTerm EXCEPT ![n] = t]
  /\ votedFor' = [votedFor EXCEPT ![n] = None]
  /\ leaderId' = [leaderId EXCEPT ![n] = None]

\* The reply of a peer to RequestVote, in the loop of start_election.
VoteReplySuperseded(n) == currentTerm[n] # term[n] \/ role[n] # "Candidate"

WinsLate(n) == rpc[n].ok /\ votes[n] + 1 > Majority(n)

Wins(n) == rpc[n].ok /\ votes[n] + 1 >= Majority(n)

VoteReply(n) ==
  /\ pc[n] = "voting" /\ rpc[n] # NoRpc
  /\ rpc' = [rpc EXCEPT ![n] = NoRpc]
  /\ \/ /\ VoteReplySuperseded(n)
        /\ Return(n)
        /\ votes' = [votes EXCEPT ![n] = 0]
        /\ UNCHANGED <<nodeVars, elected>>
     \/ /\ ~VoteReplySuperseded(n)
        /\ rpc[n].rterm > currentTerm[n]
        /\ become_follower_locked(n, rpc[n].rterm)
        /\ Return(n)
        /\ votes' = [votes EXCEPT ![n] = 0]
        /\ UNCHANGED elected
     \/ /\ ~VoteReplySuperseded(n)
        /\ rpc[n].rterm <= currentTerm[n]
        /\ Wins(n)
        /\ role' = [role EXCEPT ![n] = "Leader"]
        /\ leaderId' = [leaderId EXCEPT ![n] = n]
        /\ elected' = elected \cup {<<term[n], n>>}
        /\ pc' = [pc EXCEPT ![n] = "beat"]
        /\ term' = [term EXCEPT ![n] = 0]
        /\ votes' = [votes EXCEPT ![n] = 0]
        /\ todo' = [todo EXCEPT ![n] = {}]
        /\ UNCHANGED <<currentTerm, votedFor>>
     \/ /\ ~VoteReplySuperseded(n)
        /\ rpc[n].rterm <= currentTerm[n]
        /\ ~Wins(n)
        /\ votes' = [votes EXCEPT ![n] = IF rpc[n].ok THEN @ + 1 ELSE @]
        /\ Continue(n, todo[n])
        /\ UNCHANGED <<nodeVars, elected>>
  /\ UNCHANGED <<running, orphans, voteLog>>

\* The reply of a peer to AppendEntries, in the loop of send_heartbeats.
AppendReply(n) ==
  /\ pc[n] = "beating" /\ rpc[n] # NoRpc
  /\ rpc' = [rpc EXCEPT ![n] = NoRpc]
  /\ \/ /\ role[n] # "Leader" \/ currentTerm[n] # term[n]
        /\ Return(n)
        /\ UNCHANGED nodeVars
     \/ /\ role[n] = "Leader" /\ currentTerm[n] = term[n]
        /\ rpc[n].rterm > currentTerm[n]
        /\ become_follower_locked(n, rpc[n].rterm)
        /\ Return(n)
     \/ /\ role[n] = "Leader" /\ currentTerm[n] = term[n]
        /\ rpc[n].rterm <= currentTerm[n]
        /\ Continue(n, todo[n])
        /\ UNCHANGED nodeVars
  /\ UNCHANGED <<running, votes, orphans, voteLog, elected>>

-----------------------------------------------------------------------------
(* The RPC handlers, run by a worker thread of the receiver m. *)

\* current_term_ once the handler has seen term t: the term of its reply.
TermAfter(m, t) == IF t > currentTerm[m] THEN t ELSE currentTerm[m]

GrantedAgain(m, t, c) == t >= currentTerm[m]

\* A vote is granted for the current term, once (a newer term clears the vote).
Granted(m, t, c) ==
  \/ t > currentTerm[m]
  \/ t = currentTerm[m] /\ votedFor[m] \in {None, c}

handle_request_vote(m, t, c) ==
  /\ role' = [role EXCEPT ![m] = IF t > currentTerm[m] THEN "Follower" ELSE @]
  /\ leaderId' = [leaderId EXCEPT ![m] = IF t > currentTerm[m] THEN None ELSE @]
  /\ currentTerm' = [currentTerm EXCEPT ![m] = TermAfter(m, t)]
  /\ votedFor' = [votedFor EXCEPT ![m] = IF Granted(m, t, c) THEN c ELSE @]
  /\ voteLog' = IF Granted(m, t, c) THEN voteLog \cup {<<m, t, c>>} ELSE voteLog

FollowsAnyTerm(m, t, ldr) ==
  /\ currentTerm' = [currentTerm EXCEPT ![m] = t]
  /\ votedFor' = [votedFor EXCEPT ![m] = IF t > currentTerm[m] THEN None ELSE @]
  /\ role' = [role EXCEPT ![m] = "Follower"]
  /\ leaderId' = [leaderId EXCEPT ![m] = ldr]
  /\ UNCHANGED voteLog

SwapsTermAndLeader(m, t, ldr) ==
  /\ t >= currentTerm[m]
  /\ leaderId' = [leaderId EXCEPT ![m] = t]
  /\ UNCHANGED <<role, currentTerm, votedFor, voteLog>>

handle_append_entries(m, t, ldr) ==
  /\ \/ /\ t >= currentTerm[m]
        /\ currentTerm' = [currentTerm EXCEPT ![m] = t]
        /\ votedFor' = [votedFor EXCEPT ![m] = IF t > currentTerm[m] THEN None ELSE @]
        /\ role' = [role EXCEPT ![m] = "Follower"]
        /\ leaderId' = [leaderId EXCEPT ![m] = ldr]
     \/ /\ t < currentTerm[m]
        /\ UNCHANGED nodeVars
  /\ UNCHANGED voteLog

Handle(r) ==
  \/ r.kind = "vote" /\ handle_request_vote(r.to, r.term, r.from)
  \/ r.kind = "append" /\ handle_append_entries(r.to, r.term, r.from)

Accepted(r) ==
  \/ r.kind = "vote" /\ Granted(r.to, r.term, r.from)
  \/ r.kind = "append" /\ r.term >= currentTerm[r.to]

Request(n, p) == [kind |-> IF pc[n] = "voting" THEN "vote" ELSE "append",
                  from |-> n, to |-> p, term |-> term[n]]

Calling(n, p) ==
  /\ pc[n] \in {"voting", "beating"} /\ rpc[n] = NoRpc
  /\ p \in todo[n]

\* The next peer is called (send_request_vote, send_append_entries) and serves
\* the request; the caller is then blocked in rpc() until the reply is read.
\* Sending touches nothing another thread can see, so it is one step with the
\* handler's critical section.
CallPeer(n, p) ==
  /\ Calling(n, p)
  /\ Handle(Request(n, p))
  /\ rpc' = [rpc EXCEPT ![n] = [peer |-> p, rterm |-> TermAfter(p, term[n]),
                                ok |-> Accepted(Request(n, p))]]
  /\ todo' = [todo EXCEPT ![n] = @ \ {p}]
  /\ UNCHANGED <<running, pc, term, votes, orphans, elected>>

\* rpc() fails before the peer has served the request: no connection, or a
\* timeout.  In the latter case the request may still be waiting at the peer,
\* to be served after the caller has moved on.
CallFails(n, p) ==
  /\ Calling(n, p)
  /\ \/ UNCHANGED orphans
     \/ /\ Cardinality(orphans) < MaxOrphans
        /\ orphans' = orphans \cup {Request(n, p)}
  /\ Continue(n, todo[n] \ {p})
  /\ UNCHANGED <<nodeVars, running, votes, rpc, voteLog, elected>>

RetriesLostReply(n) ==
  /\ rpc[n] # NoRpc
  /\ rpc' = [rpc EXCEPT ![n] = NoRpc]
  /\ Continue(n, todo[n] \cup {rpc[n].peer})
  /\ UNCHANGED <<nodeVars, running, votes, orphans, voteLog, elected>>

\* rpc() fails after the peer has served the request: the reply is lost or late.
ReplyLost(n) ==
  /\ rpc[n] # NoRpc
  /\ rpc' = [rpc EXCEPT ![n] = NoRpc]
  /\ Continue(n, todo[n])
  /\ UNCHANGED <<nodeVars, running, votes, orphans, voteLog, elected>>

\* A worker gets to a request whose caller has given up: the reply is lost.
ServeOrphan(r) ==
  /\ r \in orphans
  /\ Handle(r)
  /\ orphans' = orphans \ {r}
  /\ UNCHANGED <<running, threadVars, elected>>

-----------------------------------------------------------------------------
Thread(n) ==
  \/ TickElection(n) \/ TickHeartbeat(n) \/ TickExit(n)
  \/ StartElection(n) \/ SendHeartbeats(n)
  \/ \E p \in Node : CallPeer(n, p) \/ CallFails(n, p)
  \/ ReplyLost(n) \/ VoteReply(n) \/ AppendReply(n)

Next ==
  \/ \E n \in Node : Thread(n) \/ Stop(n)
  \/ \E r \in orphans : ServeOrphan(r)

Spec == Init /\ [][Next]_vars

\* A timer thread keeps being scheduled, and every RPC it makes ends: in a reply
\* or, after rpc_timeout_ms, in a failure.
FairSpec == Spec /\ \A n \in Node : WF_vars(Thread(n))

-----------------------------------------------------------------------------
(* Properties. *)

Rpc == [peer : Node \cup {None}, rterm : Nat, ok : BOOLEAN]
RequestType == [kind : Kind, from : Node, to : Node, term : Nat]

\* The types of raft.h's members, of the timer thread's locals and of the
\* requests in flight.
TypeOK ==
  /\ role \in [Node -> Role]
  /\ currentTerm \in [Node -> Nat]
  /\ votedFor \in [Node -> Node \cup {None}]
  /\ leaderId \in [Node -> Node \cup {None}]
  /\ running \in [Node -> BOOLEAN]
  /\ pc \in [Node -> {"tick", "elect", "voting", "beat", "beating", "stopped"}]
  /\ term \in [Node -> Nat]
  /\ votes \in [Node -> Nat]
  /\ todo \in [Node -> SUBSET Node]
  /\ rpc \in [Node -> Rpc]
  /\ orphans \subseteq RequestType
  /\ voteLog \subseteq Node \X Nat \X Node
  /\ elected \subseteq Nat \X Node

\* "at most one Leader per term" (raft.h): over the whole execution no term is
\* ever won by two nodes, whatever becomes of stale decisions, lost replies and
\* requests that are served after their caller gave up.
ElectionSafety ==
  \A e, f \in elected : e[1] = f[1] => e[2] = f[2]

\* "A peer grants its vote at most once per term" (raft.h), the candidate's vote
\* for itself included.
OneVotePerTerm ==
  \A v, w \in voteLog : v[1] = w[1] /\ v[2] = w[2] => v[3] = w[3]

\* The leader a node reports (ROLE, ERR NOTLEADER <addr>) together with its term
\* did win the election of that very term: handlers and timer thread never pair
\* the leader of one term with another term.
ReportedLeaderWonItsTerm ==
  \A n \in Node : leaderId[n] # None => <<currentTerm[n], leaderId[n]>> \in elected

\* A candidate that has collected a majority is the leader by the time its round
\* of start_election is over (raft.h: "A Candidate that collects a MAJORITY
\* (quorum) becomes the Leader").
QuorumCandidateLeads ==
  \A n \in Node :
    pc[n] = "tick" /\ role[n] = "Candidate" => votes[n] < Majority(n)

\* A leader gives up leadership only by moving to a newer term: no request of its
\* own term can depose it, although handle_append_entries turns any receiver of
\* the current term into a follower.
LeaderDeposedOnlyByNewerTerm ==
  [][\A n \in Node : role[n] = "Leader" /\ role'[n] # "Leader"
                       => currentTerm'[n] > currentTerm[n]]_vars

\* A node's term never decreases: become_follower_locked is given terms that were
\* read from a reply before the lock was taken.
TermNeverDecreases ==
  [][\A n \in Node : currentTerm'[n] >= currentTerm[n]]_vars

\* stop() returns: whatever round the timer thread is in when running_ is cleared,
\* and whoever answers it, the thread gets back to tick_loop and exits.
StopCompletes ==
  \A n \in Node : ~running[n] ~> pc[n] = "stopped"

-----------------------------------------------------------------------------
(* What the election implements. *)

Majorities == {Q \in SUBSET Node : 2 * Cardinality(Q) > Cardinality(Node)}

V == INSTANCE Voting WITH terms <- currentTerm, ballots <- voteLog, winners <- elected

\* Requests, replies, retries, stale decisions and late heartbeats add nothing to
\* standing, voting once and winning with a majority: each critical section of
\* raft.cpp is one such step or none, and no node is ever moved back, voted for
\* without standing, or put into a term nobody stood in.
ImplementsVoting == V!VSpec
=============================================================================
