------------------------- MODULE RaftElectionProofs -------------------------
(***************************************************************************)
(* Proofs about RaftElection for every finite cluster, every bound on the  *)
(* number of elections and of late requests, and every set of nodes that   *)
(* may be stopped.                                                         *)
(***************************************************************************)
EXTENDS RaftElection, FiniteSetTheorems, TLAPS

Voters(t, c) == {v \in Node : <<v, t, c>> \in voteLog}

\* The peers whose answer to the running election has been dealt with, and which
\* did vote for n.
Counted(n) == {v \in Node \ (todo[n] \cup {rpc[n].peer}) : <<v, term[n], n>> \in voteLog}

\* A cast vote is of the voter's past, and is the one it remembers if it was cast
\* in its present term.
VotesRemembered ==
  \A v \in voteLog :
    /\ v[2] <= currentTerm[v[1]]
    /\ v[2] = currentTerm[v[1]] => votedFor[v[1]] = v[3]

\* Each won election was won with the votes of a majority.
ElectedByMajority ==
  \A e \in elected : 2 * Cardinality(Voters(e[1], e[2])) > Cardinality(Node)

LeadersWereElected ==
  \A n \in Node : role[n] = "Leader" => <<currentTerm[n], n>> \in elected

NodeTypeOK ==
  /\ role \in [Node -> Role]
  /\ currentTerm \in [Node -> Nat]
  /\ votedFor \in [Node -> Node \cup {None}]
  /\ leaderId \in [Node -> Node \cup {None}]
  /\ voteLog \subseteq Node \X Nat \X Node

\* The part of the invariant that the mutex-guarded state carries.
VoteFacts ==
  /\ NodeTypeOK
  /\ OneVotePerTerm
  /\ VotesRemembered
  /\ ElectedByMajority
  /\ LeadersWereElected
  /\ ReportedLeaderWonItsTerm

\* What the timer thread knows while it holds no lock.
RoundOK(n) ==
  /\ n \notin todo[n]
  /\ rpc[n] # NoRpc => rpc[n].peer \in Node \ (todo[n] \cup {n})
  /\ rpc[n] # NoRpc => pc[n] \in {"voting", "beating"}
  /\ pc[n] = "elect" => role[n] # "Leader"
  /\ pc[n] = "beating" => <<term[n], n>> \in elected
  /\ pc[n] = "voting" =>
       /\ votes[n] <= Cardinality(Counted(n))
       /\ rpc[n].ok => <<rpc[n].peer, term[n], n>> \in voteLog

RoundsOK == \A n \in Node : RoundOK(n)

\* A heartbeat that is served late was sent by the winner of its term.
OrphansOK ==
  \A r \in orphans :
    /\ r.from # r.to
    /\ r.kind = "append" => <<r.term, r.from>> \in elected

IInv == TypeOK /\ VoteFacts /\ RoundsOK /\ OrphansOK

-----------------------------------------------------------------------------
(* The cluster. *)

\* The constructor leaves every node with the rest of the cluster as its peers.
LEMMA PeersAreTheOthers ==
  ASSUME NEW n \in Node
  PROVE  Peers(n) = Node \ {n}
BY ConfigAssumption, Zenon DEF Peers

\* majority() counts the node itself: it is more than half of the cluster.
LEMMA MajorityIsMoreThanHalf ==
  ASSUME NEW n \in Node, NEW k \in Nat, k >= Majority(n)
  PROVE  2 * k > Cardinality(Node)
<1>1. /\ Cardinality(Node) \in Nat
      /\ Cardinality(Node \ {n}) = Cardinality(Node) - 1
  BY NodeAssumption, FS_RemoveElement, FS_CardinalityType, Zenon
<1>2. Cardinality(Peers(n)) + 1 = Cardinality(Node)
  BY <1>1, PeersAreTheOthers
<1>3. Majority(n) = Cardinality(Node) \div 2 + 1
  BY <1>2, Zenon DEF Majority
<1> QED
  BY <1>1, <1>3

\* Sets of voters are finite, and grow with the record of votes.
LEMMA SubsetsOfNode ==
  ASSUME NEW S \in SUBSET Node, NEW T \in SUBSET S
  PROVE  /\ IsFiniteSet(S)
         /\ Cardinality(S) \in Nat
         /\ Cardinality(T) \in Nat
         /\ Cardinality(T) <= Cardinality(S)
<1>1. IsFiniteSet(S)
  BY NodeAssumption, FS_Subset, Zenon
<1>2. IsFiniteSet(T) /\ Cardinality(T) <= Cardinality(S)
  BY <1>1, FS_Subset, Zenon
<1> QED
  BY <1>1, <1>2, FS_CardinalityType, Zenon

\* Two majorities share a voter, and it voted once: one leader per term.
LEMMA MajoritiesGiveElectionSafety ==
  ASSUME TypeOK, OneVotePerTerm, ElectedByMajority
  PROVE  ElectionSafety
<1> SUFFICES ASSUME NEW e \in elected, NEW f \in elected, e[1] = f[1]
             PROVE  e[2] = f[2]
  BY Zenon DEF ElectionSafety
<1> DEFINE S == Voters(e[1], e[2])
           T == Voters(f[1], f[2])
<1>1. /\ S \subseteq Node /\ T \subseteq Node
      /\ 2 * Cardinality(S) > Cardinality(Node)
      /\ 2 * Cardinality(T) > Cardinality(Node)
  BY Zenon DEF ElectedByMajority, Voters
<1>2. /\ Cardinality(S) \in Nat /\ Cardinality(T) \in Nat
      /\ Cardinality(Node) \in Nat
  BY <1>1, SubsetsOfNode, Zenon
<1>3. Cardinality(S) + Cardinality(T) > Cardinality(Node)
  <2> HIDE DEF S, T
  <2> QED BY <1>1, <1>2
<1>4. S \cap T # {}
  <2> HIDE DEF S, T
  <2> QED BY <1>1, <1>3, NodeAssumption, FS_MajoritiesIntersect, Zenon
<1>5. PICK v \in Node : <<v, e[1], e[2]>> \in voteLog /\ <<v, f[1], f[2]>> \in voteLog
  BY <1>4, Zenon DEF Voters
<1> QED
  BY <1>5, Zenon DEF OneVotePerTerm

-----------------------------------------------------------------------------
(* The handlers. *)

\* More votes never undo a majority.
LEMMA MajorityIsKept ==
  ASSUME ElectedByMajority, voteLog \subseteq voteLog', elected' = elected
  PROVE  ElectedByMajority'
<1> SUFFICES ASSUME NEW e \in elected
             PROVE  2 * Cardinality(Voters(e[1], e[2])') > Cardinality(Node)
  BY Zenon DEF ElectedByMajority
<1> DEFINE S == Voters(e[1], e[2])
           T == Voters(e[1], e[2])'
<1>1. S \in SUBSET T /\ T \in SUBSET Node
  BY Zenon DEF Voters
<1>2. 2 * Cardinality(S) > Cardinality(Node)
  BY Zenon DEF ElectedByMajority
<1>3. Cardinality(Node) \in Nat
  BY SubsetsOfNode, Zenon
<1> HIDE DEF S, T
<1>4. /\ Cardinality(S) \in Nat /\ Cardinality(T) \in Nat
      /\ Cardinality(S) <= Cardinality(T)
  BY <1>1, SubsetsOfNode, Zenon
<1>5. 2 * Cardinality(T) > Cardinality(Node)
  BY <1>2, <1>3, <1>4
<1> QED
  BY <1>5, Zenon DEF T

\* handle_request_vote: votes are only added, none twice in a term, and no node
\* becomes a leader.
LEMMA RequestVoteKeepsVoteFacts ==
  ASSUME NEW m \in Node, NEW t \in Nat, NEW c \in Node,
         VoteFacts, handle_request_vote(m, t, c), elected' = elected
  PROVE  /\ VoteFacts'
         /\ voteLog \subseteq voteLog'
         /\ \A n \in Node : role'[n] = "Leader" => role[n] = "Leader"
         /\ Granted(m, t, c) => <<m, t, c>> \in voteLog'
<1> USE DEF VoteFacts
<1>1. NodeTypeOK'
  BY DEF handle_request_vote, TermAfter, Granted, NodeTypeOK, Role
<1>2. voteLog \subseteq voteLog' /\ (Granted(m, t, c) => <<m, t, c>> \in voteLog')
  BY Zenon DEF handle_request_vote
<1>3. \A n \in Node : role'[n] = "Leader" => role[n] = "Leader"
  BY Zenon DEF handle_request_vote, NodeTypeOK
<1>4. OneVotePerTerm'
  <2>1. ASSUME Granted(m, t, c), NEW v \in voteLog, v[1] = m, v[2] = t
        PROVE  v[3] = c
    BY <2>1, NodeAssumption DEF Granted, VotesRemembered, NodeTypeOK
  <2> QED
    BY <2>1 DEF handle_request_vote, OneVotePerTerm, NodeTypeOK
<1>5. VotesRemembered'
  <2> SUFFICES ASSUME NEW v \in voteLog'
               PROVE  /\ v[2] <= currentTerm'[v[1]]
                      /\ v[2] = currentTerm'[v[1]] => votedFor'[v[1]] = v[3]
    BY Zenon DEF VotesRemembered
  <2>1. CASE v \in voteLog
    BY <2>1, NodeAssumption
       DEF handle_request_vote, TermAfter, Granted, VotesRemembered, NodeTypeOK
  <2>2. CASE v = <<m, t, c>> /\ Granted(m, t, c)
    BY <2>2 DEF handle_request_vote, TermAfter, Granted, NodeTypeOK
  <2> QED
    BY <2>1, <2>2, Zenon DEF handle_request_vote
<1>6. ElectedByMajority'
  BY <1>2, MajorityIsKept, Zenon
<1>7. LeadersWereElected'
  BY Zenon DEF handle_request_vote, TermAfter, LeadersWereElected, NodeTypeOK
<1>8. ReportedLeaderWonItsTerm'
  BY Zenon DEF handle_request_vote, TermAfter, ReportedLeaderWonItsTerm, NodeTypeOK
<1> QED
  BY <1>1, <1>2, <1>3, <1>4, <1>5, <1>6, <1>7, <1>8, Zenon

\* handle_append_entries: the winner of term t is followed; no vote changes.
LEMMA AppendEntriesKeepsVoteFacts ==
  ASSUME NEW m \in Node, NEW t \in Nat, NEW c \in Node, <<t, c>> \in elected,
         VoteFacts, handle_append_entries(m, t, c), elected' = elected
  PROVE  /\ VoteFacts'
         /\ voteLog \subseteq voteLog'
         /\ \A n \in Node : role'[n] = "Leader" => role[n] = "Leader"
<1> USE DEF VoteFacts
<1>1. NodeTypeOK'
  BY DEF handle_append_entries, nodeVars, NodeTypeOK, Role
<1>2. voteLog' = voteLog
  BY Zenon DEF handle_append_entries
<1>3. \A n \in Node : role'[n] = "Leader" => role[n] = "Leader"
  BY Zenon DEF handle_append_entries, nodeVars, NodeTypeOK
<1>4. OneVotePerTerm'
  BY <1>2, Zenon DEF OneVotePerTerm
<1>5. VotesRemembered'
  BY <1>2 DEF handle_append_entries, nodeVars, VotesRemembered, NodeTypeOK
<1>6. ElectedByMajority'
  BY <1>2, MajorityIsKept, Zenon
<1>7. LeadersWereElected'
  BY Zenon DEF handle_append_entries, nodeVars, LeadersWereElected, NodeTypeOK
<1>8. ReportedLeaderWonItsTerm'
  BY Zenon DEF handle_append_entries, nodeVars, ReportedLeaderWonItsTerm, NodeTypeOK
<1> QED
  BY <1>1, <1>2, <1>3, <1>4, <1>5, <1>6, <1>7, <1>8, Zenon

-----------------------------------------------------------------------------
(* The timer thread. *)

\* A step that adds votes and winners, and makes no leader of n, leaves what n's
\* thread knows alone.
LEMMA RoundIsKept ==
  ASSUME NEW n \in Node, TypeOK, RoundOK(n),
         voteLog \subseteq voteLog', elected \subseteq elected',
         role'[n] = "Leader" => role[n] = "Leader",
         pc'[n] = pc[n], term'[n] = term[n], votes'[n] = votes[n],
         todo'[n] = todo[n], rpc'[n] = rpc[n]
  PROVE  RoundOK(n)'
<1> DEFINE S == Counted(n)
           T == Counted(n)'
<1>1. S \in SUBSET T /\ T \in SUBSET Node
  BY Zenon DEF Counted
<1>2. votes[n] \in Nat
  BY Zenon DEF TypeOK
<1>3. pc[n] = "voting" => votes[n] <= Cardinality(S)
  BY Zenon DEF RoundOK
<1> HIDE DEF S, T
<1>4. pc[n] = "voting" => votes[n] <= Cardinality(T)
  BY <1>1, <1>2, <1>3, SubsetsOfNode
<1>5. pc'[n] = "voting" => votes'[n] <= Cardinality(Counted(n)')
  BY <1>4, Zenon DEF T
<1> QED
  BY <1>5, Zenon DEF RoundOK

LEMMA InitIInv ==
  ASSUME Init
  PROVE  IInv
<1>1. TypeOK
  BY Zenon DEF Init, TypeOK, Role, Rpc, NoRpc
<1>2. VoteFacts
  BY Zenon DEF Init, VoteFacts, NodeTypeOK, Role, OneVotePerTerm, VotesRemembered,
         ElectedByMajority, LeadersWereElected, ReportedLeaderWonItsTerm
<1>3. RoundsOK /\ OrphansOK
  BY Zenon DEF Init, RoundsOK, RoundOK, OrphansOK
<1> QED
  BY <1>1, <1>2, <1>3, Zenon DEF IInv

\* The mutex-guarded state and the history are untouched.
LEMMA UnchangedVoteFacts ==
  ASSUME VoteFacts, UNCHANGED <<nodeVars, voteLog, elected>>
  PROVE  VoteFacts'
BY Zenon DEF VoteFacts, nodeVars, NodeTypeOK, OneVotePerTerm, VotesRemembered,
       ElectedByMajority, Voters, LeadersWereElected, ReportedLeaderWonItsTerm

LEMMA TickKeepsIInv ==
  ASSUME IInv, NEW n \in Node,
         TickElection(n) \/ TickHeartbeat(n) \/ TickExit(n) \/ Stop(n)
  PROVE  IInv'
<1> USE DEF IInv, TickElection, TickHeartbeat, TickExit, Stop
<1>1. TypeOK'
  BY Zenon DEF TypeOK, nodeVars, threadVars
<1>2. VoteFacts'
  BY UnchangedVoteFacts, Zenon
<1>3. RoundsOK'
  <2> SUFFICES ASSUME NEW m \in Node PROVE RoundOK(m)'
    BY Zenon DEF RoundsOK
  <2>1. RoundOK(m)
    BY Zenon DEF RoundsOK
  <2>0. UNCHANGED <<role, term, votes, todo, rpc, voteLog, elected>>
    BY Zenon DEF nodeVars, threadVars
  <2>2. CASE pc'[m] = pc[m]
    BY <2>0, <2>1, <2>2, RoundIsKept, Zenon
  <2>3. CASE m = n /\ pc[n] = "tick"
    <3>1. rpc'[m] = NoRpc /\ m \notin todo'[m]
      BY <2>0, <2>1, <2>3, Zenon DEF RoundOK
    <3>2. pc'[m] \in {"tick", "beat", "stopped"} \/ (pc'[m] = "elect" /\ role'[m] # "Leader")
      BY <2>0, <2>3, Zenon DEF TypeOK, threadVars
    <3> QED
      BY <3>1, <3>2, Zenon DEF RoundOK
  <2> QED
    BY <2>2, <2>3, Zenon DEF TypeOK, threadVars
<1>4. OrphansOK'
  BY Zenon DEF OrphansOK
<1> QED
  BY <1>1, <1>2, <1>3, <1>4, Zenon

\* start_election: a fresh term, in which n has not voted yet, and one vote.
LEMMA StartElectionKeepsIInv ==
  ASSUME IInv, NEW n \in Node, StartElection(n)
  PROVE  IInv'
<1> USE DEF IInv, StartElection
<1>1. TypeOK'
  BY PeersAreTheOthers DEF TypeOK, Role
<1>2. rpc[n] = NoRpc
  BY Zenon DEF RoundsOK, RoundOK
<1>3. VoteFacts'
  <2>1. NodeTypeOK'
    BY <1>1, Zenon DEF TypeOK, NodeTypeOK
  <2>2. OneVotePerTerm'
    <3>1. \A v \in voteLog : ~(v[1] = n /\ v[2] = currentTerm[n] + 1)
      BY DEF VoteFacts, NodeTypeOK, VotesRemembered
    <3> QED
      BY <3>1 DEF VoteFacts, OneVotePerTerm
  <2>3. VotesRemembered'
    BY DEF VoteFacts, NodeTypeOK, VotesRemembered
  <2>4. ElectedByMajority'
    BY MajorityIsKept, Zenon DEF VoteFacts
  <2>5. LeadersWereElected' /\ ReportedLeaderWonItsTerm'
    BY Zenon DEF VoteFacts, NodeTypeOK, LeadersWereElected, ReportedLeaderWonItsTerm
  <2> QED
    BY <2>1, <2>2, <2>3, <2>4, <2>5, Zenon DEF VoteFacts
<1>4. RoundsOK'
  <2> SUFFICES ASSUME NEW m \in Node PROVE RoundOK(m)'
    BY Zenon DEF RoundsOK
  <2>1. RoundOK(m)
    BY Zenon DEF RoundsOK
  <2>2. CASE m # n
    BY <2>1, <2>2, RoundIsKept, Zenon DEF TypeOK
  <2>3. CASE m = n
    <3>1. {n} \in SUBSET (Counted(n)') /\ Counted(n)' \in SUBSET Node
      BY <1>2, PeersAreTheOthers, NodeAssumption DEF Counted, TypeOK, NoRpc
    <3>2. 1 <= Cardinality(Counted(n)')
      BY <3>1, SubsetsOfNode, FS_Singleton, Zenon
    <3>3. /\ todo'[n] = Node \ {n} /\ rpc'[n] = NoRpc
          /\ votes'[n] = 1 /\ pc'[n] \in {"tick", "voting"}
      BY <1>2, PeersAreTheOthers, Zenon DEF TypeOK
    <3> QED
      BY <2>3, <3>2, <3>3 DEF RoundOK, NoRpc
  <2> QED
    BY <2>2, <2>3, Zenon
<1>5. OrphansOK'
  BY Zenon DEF OrphansOK
<1> QED
  BY <1>1, <1>3, <1>4, <1>5, Zenon

\* send_heartbeats: the round goes out in a term that n has won.
LEMMA SendHeartbeatsKeepsIInv ==
  ASSUME IInv, NEW n \in Node, SendHeartbeats(n)
  PROVE  IInv'
<1> USE DEF IInv, SendHeartbeats, Return
<1>1. TypeOK'
  BY PeersAreTheOthers DEF TypeOK, nodeVars
<1>2. VoteFacts'
  BY UnchangedVoteFacts, Zenon
<1>3. rpc[n] = NoRpc
  BY Zenon DEF RoundsOK, RoundOK
<1>4. RoundsOK'
  <2> SUFFICES ASSUME NEW m \in Node PROVE RoundOK(m)'
    BY Zenon DEF RoundsOK
  <2>1. RoundOK(m)
    BY Zenon DEF RoundsOK
  <2>2. CASE m # n
    BY <2>1, <2>2, RoundIsKept, Zenon DEF TypeOK, nodeVars
  <2>3. CASE m = n
    <3>1. /\ n \notin todo'[n] /\ rpc'[n] = NoRpc
          /\ \/ pc'[n] = "tick"
             \/ pc'[n] = "beating" /\ <<term'[n], n>> \in elected
      BY SMTT(30), <1>3, PeersAreTheOthers DEF TypeOK, VoteFacts, LeadersWereElected
    <3> QED
      BY <2>3, <3>1, Zenon DEF RoundOK
  <2> QED
    BY <2>2, <2>3, Zenon
<1>5. OrphansOK'
  BY Zenon DEF OrphansOK
<1> QED
  BY <1>1, <1>2, <1>4, <1>5, Zenon

\* Serving a request, whichever its kind, keeps the vote facts.
LEMMA HandleKeepsVoteFacts ==
  ASSUME VoteFacts, NEW r \in RequestType, Handle(r), elected' = elected,
         r.kind = "append" => <<r.term, r.from>> \in elected
  PROVE  /\ VoteFacts'
         /\ voteLog \subseteq voteLog'
         /\ \A n \in Node : role'[n] = "Leader" => role[n] = "Leader"
         /\ r.kind = "vote" /\ Accepted(r) => <<r.to, r.term, r.from>> \in voteLog'
<1>1. r.from \in Node /\ r.to \in Node /\ r.term \in Nat
  BY Zenon DEF RequestType
<1>2. CASE r.kind = "vote" /\ handle_request_vote(r.to, r.term, r.from)
  BY <1>1, <1>2, RequestVoteKeepsVoteFacts, Zenon DEF Accepted
<1>3. CASE r.kind = "append" /\ handle_append_entries(r.to, r.term, r.from)
  BY <1>1, <1>3, AppendEntriesKeepsVoteFacts, Zenon
<1> QED
  BY <1>2, <1>3, Zenon DEF Handle

\* The vote in an answer that has just come in is one more than those counted.
LEMMA OneMoreVote ==
  ASSUME TypeOK, NEW n \in Node, RoundOK(n),
         pc[n] = "voting", rpc[n] # NoRpc, rpc[n].ok
  PROVE  /\ Counted(n) \cup {rpc[n].peer} \subseteq Voters(term[n], n) \ todo[n]
         /\ votes[n] + 1 <= Cardinality(Counted(n) \cup {rpc[n].peer})
<1>1. /\ rpc[n].peer \in Node \ todo[n]
      /\ <<rpc[n].peer, term[n], n>> \in voteLog
      /\ votes[n] <= Cardinality(Counted(n))
  BY Zenon DEF RoundOK
<1>2. Counted(n) \in SUBSET Node /\ rpc[n].peer \notin Counted(n)
  BY Zenon DEF Counted
<1>3. IsFiniteSet(Counted(n)) /\ Cardinality(Counted(n)) \in Nat
  BY <1>2, SubsetsOfNode, Zenon
<1>4. Cardinality(Counted(n) \cup {rpc[n].peer}) = Cardinality(Counted(n)) + 1
  BY <1>2, <1>3, FS_AddElement, Zenon
<1>5. votes[n] \in Nat
  BY Zenon DEF TypeOK
<1>6. Counted(n) \cup {rpc[n].peer} \subseteq Voters(term[n], n) \ todo[n]
  BY <1>1, Zenon DEF Counted, Voters
<1> QED
  BY <1>1, <1>3, <1>4, <1>5, <1>6

\* Going on to the next peer, or back to tick_loop, keeps what n's thread knows:
\* a smaller todo only adds to the answers that have been dealt with, and so does
\* a vote that is counted.
LEMMA ContinueKeepsRound ==
  ASSUME TypeOK, NEW n \in Node, RoundOK(n), NEW left \in SUBSET todo[n],
         Continue(n, left), rpc' = [rpc EXCEPT ![n] = NoRpc],
         UNCHANGED <<role, voteLog, elected>>,
         \/ votes'[n] = votes[n]
         \/ /\ votes'[n] = votes[n] + 1
            /\ pc[n] = "voting" /\ rpc[n] # NoRpc /\ rpc[n].ok
  PROVE  RoundOK(n)'
<1>1. rpc'[n] = NoRpc /\ n \notin todo'[n]
  BY Zenon DEF TypeOK, Continue, Return, RoundOK
<1>2. CASE left = {} /\ Return(n)
  <2>1. pc'[n] = "tick"
    BY <1>2, Zenon DEF Return, TypeOK
  <2> QED
    BY <1>1, <2>1, Zenon DEF RoundOK
<1>3. CASE /\ todo' = [todo EXCEPT ![n] = left]
           /\ UNCHANGED <<pc, term>>
  <2> DEFINE S == Counted(n) \cup (IF votes'[n] = votes[n] THEN {} ELSE {rpc[n].peer})
             T == Counted(n)'
  <2>0. votes[n] \in Nat
    BY Zenon DEF TypeOK
  <2>1. S \in SUBSET T /\ T \in SUBSET Node
    <3>1. Counted(n) \subseteq T
      BY <1>1, <1>3, NodeAssumption, Zenon DEF Counted, TypeOK, NoRpc
    <3>2. votes'[n] # votes[n] => rpc[n].peer \in T
      <4> SUFFICES ASSUME votes'[n] # votes[n] PROVE rpc[n].peer \in T
        OBVIOUS
      <4>1. rpc[n].peer \in Voters(term[n], n) \ todo[n]
        BY OneMoreVote, Zenon
      <4> QED
        BY <1>1, <1>3, <4>1, NodeAssumption, Zenon DEF Voters, Counted, TypeOK, NoRpc
    <3> QED
      BY SMTT(30), <3>1, <3>2 DEF Counted
  <2>2. pc[n] = "voting" => votes'[n] <= Cardinality(S)
    <3>1. CASE votes'[n] = votes[n]
      BY <3>1, Zenon DEF RoundOK
    <3>2. CASE votes'[n] # votes[n]
      BY <3>2, OneMoreVote, Zenon
    <3> QED
      BY <3>1, <3>2, Zenon
  <2> HIDE DEF S, T
  <2>3. pc[n] = "voting" => votes'[n] <= Cardinality(T)
    BY <2>0, <2>1, <2>2, SubsetsOfNode
  <2>4. pc'[n] = "voting" => votes'[n] <= Cardinality(Counted(n)')
    BY <1>3, <2>3, Zenon DEF T
  <2> QED
    BY <1>1, <1>3, <2>4 DEF RoundOK, NoRpc
<1> QED
  BY <1>2, <1>3, Zenon DEF Continue

LEMMA CallPeerKeepsIInv ==
  ASSUME IInv, NEW n \in Node, NEW p \in Node, CallPeer(n, p)
  PROVE  IInv'
<1> USE DEF IInv
<1> DEFINE r == Request(n, p)
<1>1. /\ r \in RequestType
      /\ r.from = n /\ r.to = p /\ r.term = term[n]
      /\ r.kind = IF pc[n] = "voting" THEN "vote" ELSE "append"
  BY Zenon DEF Request, RequestType, Kind, TypeOK
<1>2. /\ pc[n] \in {"voting", "beating"} /\ rpc[n] = NoRpc /\ p \in todo[n]
      /\ Handle(r) /\ elected' = elected
      /\ rpc' = [rpc EXCEPT ![n] = [peer |-> p, rterm |-> TermAfter(p, term[n]),
                                    ok |-> Accepted(r)]]
      /\ todo' = [todo EXCEPT ![n] = @ \ {p}]
      /\ UNCHANGED <<running, pc, term, votes, orphans, elected>>
  BY Zenon DEF CallPeer, Calling
<1>3. RoundOK(n)
  BY SMTT(30) DEF RoundsOK
<1>4. r.kind = "append" => <<r.term, r.from>> \in elected
  BY <1>1, <1>2, <1>3, Zenon DEF RoundOK
<1> HIDE DEF r
<1>5. /\ VoteFacts'
      /\ voteLog \subseteq voteLog'
      /\ \A m \in Node : role'[m] = "Leader" => role[m] = "Leader"
      /\ r.kind = "vote" /\ Accepted(r) => <<r.to, r.term, r.from>> \in voteLog'
  BY SMTT(30), <1>1, <1>2, <1>4, HandleKeepsVoteFacts
<1>6. TypeOK'
  <2>1. TermAfter(p, term[n]) \in Nat
    BY SMTT(30) DEF TermAfter, TypeOK
  <2>2. Accepted(r) \in BOOLEAN
    BY Zenon DEF Accepted
  <2>3. rpc' \in [Node -> Rpc]
    BY <1>2, <2>1, <2>2, Zenon DEF TypeOK, Rpc
  <2> QED
    BY <1>2, <1>5, <2>3, Zenon DEF TypeOK, VoteFacts, NodeTypeOK
<1>7. RoundsOK'
  <2> SUFFICES ASSUME NEW m \in Node PROVE RoundOK(m)'
    BY Zenon DEF RoundsOK
  <2>1. RoundOK(m)
    BY Zenon DEF RoundsOK
  <2>2. CASE m # n
    BY SMTT(30), <1>2, <1>5, <2>1, <2>2, RoundIsKept DEF TypeOK
  <2>3. CASE m = n
    <3>1. /\ todo'[n] = todo[n] \ {p} /\ rpc'[n].peer = p
          /\ rpc'[n].ok = Accepted(r)
      BY SMTT(30), <1>2 DEF TypeOK
    <3> DEFINE S == Counted(n)
               T == Counted(n)'
    <3>2. S \in SUBSET T /\ T \in SUBSET Node
      BY <1>2, <1>5, <3>1, Zenon DEF Counted, NoRpc
    <3>3. votes[n] \in Nat /\ (pc[n] = "voting" => votes[n] <= Cardinality(S))
      BY <1>3, Zenon DEF RoundOK, TypeOK
    <3> HIDE DEF S, T
    <3>4. pc[n] = "voting" => votes[n] <= Cardinality(T)
      BY <3>2, <3>3, SubsetsOfNode
    <3>5. pc'[n] = "voting" => votes'[n] <= Cardinality(Counted(n)')
      BY SMTT(30), <1>2, <3>4 DEF T
    <3>6. pc'[n] = "voting" /\ rpc'[n].ok => <<rpc'[n].peer, term'[n], n>> \in voteLog'
      BY SMTT(30), <1>1, <1>2, <1>5, <3>1
    <3>7. n # p
      BY <1>2, <1>3, Zenon DEF RoundOK
    <3> QED
      BY <1>2, <1>3, <2>3, <3>1, <3>5, <3>6, <3>7, Zenon DEF RoundOK
  <2> QED
    BY <2>2, <2>3, Zenon
<1>8. OrphansOK'
  BY <1>2, Zenon DEF OrphansOK
<1> QED
  BY <1>5, <1>6, <1>7, <1>8, Zenon

\* A call that fails, before or after it was served, only moves n's thread on.
LEMMA CallFailsKeepsIInv ==
  ASSUME IInv, NEW n \in Node, (\E p \in Node : CallFails(n, p)) \/ ReplyLost(n)
  PROVE  IInv'
<1> USE DEF IInv
<1>1. PICK left \in SUBSET todo[n] :
        /\ Continue(n, left)
        /\ rpc' = [rpc EXCEPT ![n] = NoRpc]
        /\ UNCHANGED <<nodeVars, running, votes, voteLog, elected>>
  <2>1. ASSUME NEW p \in Node, CallFails(n, p)
        PROVE  rpc' = [rpc EXCEPT ![n] = NoRpc]
    BY <2>1, Zenon DEF CallFails, Calling, TypeOK
  <2> QED
    BY <2>1, Zenon DEF CallFails, ReplyLost
<1>2. \A r \in orphans' \ orphans :
        /\ r \in RequestType
        /\ r.from # r.to
        /\ r.kind = "append" => <<r.term, r.from>> \in elected
  <2> SUFFICES ASSUME NEW p \in Node, CallFails(n, p), orphans' = orphans \cup {Request(n, p)}
               PROVE  /\ Request(n, p) \in RequestType
                      /\ Request(n, p).from # Request(n, p).to
                      /\ Request(n, p).kind = "append"
                           => <<Request(n, p).term, Request(n, p).from>> \in elected
    BY Zenon DEF CallFails, ReplyLost
  <2>1. pc[n] \in {"voting", "beating"} /\ n # p
    BY Zenon DEF CallFails, Calling, RoundsOK, RoundOK
  <2> QED
    BY <2>1, Zenon DEF Request, RequestType, Kind, TypeOK, RoundsOK, RoundOK
<1>3. TypeOK'
  <2>1. orphans' \subseteq RequestType
    BY ZenonT(40), <1>2 DEF TypeOK
  <2>2. rpc' \in [Node -> Rpc]
    BY <1>1, Zenon DEF TypeOK, Rpc, NoRpc
  <2>3. /\ pc' \in [Node -> {"tick", "elect", "voting", "beat", "beating", "stopped"}]
        /\ term' \in [Node -> Nat]
        /\ todo' \in [Node -> SUBSET Node]
    BY <1>1 DEF TypeOK, Continue, Return
  <2> QED
    BY <1>1, <2>1, <2>2, <2>3, Zenon DEF TypeOK, nodeVars
<1>4. VoteFacts'
  BY <1>1, UnchangedVoteFacts, Zenon
<1>5. RoundsOK'
  <2> SUFFICES ASSUME NEW m \in Node PROVE RoundOK(m)'
    BY Zenon DEF RoundsOK
  <2>1. RoundOK(m)
    BY SMTT(30) DEF RoundsOK
  <2>2. UNCHANGED <<role, votes, voteLog, elected>>
    BY <1>1, Zenon DEF nodeVars
  <2>3. CASE m = n
    BY <1>1, <2>1, <2>2, <2>3, ContinueKeepsRound, Zenon
  <2>4. CASE m # n
    BY <1>1, <2>1, <2>2, <2>4, RoundIsKept, Zenon DEF Continue, Return, TypeOK
  <2> QED
    BY SMTT(30), <2>3, <2>4
<1>6. OrphansOK'
  BY <1>1, <1>2, Zenon DEF OrphansOK
<1> QED
  BY <1>3, <1>4, <1>5, <1>6, Zenon

LEMMA ServeOrphanKeepsIInv ==
  ASSUME IInv, NEW r \in orphans, ServeOrphan(r)
  PROVE  IInv'
<1> USE DEF IInv, ServeOrphan
<1>1. r \in RequestType /\ (r.kind = "append" => <<r.term, r.from>> \in elected)
  BY Zenon DEF TypeOK, OrphansOK
<1>2. /\ VoteFacts'
      /\ voteLog \subseteq voteLog'
      /\ \A m \in Node : role'[m] = "Leader" => role[m] = "Leader"
  BY <1>1, HandleKeepsVoteFacts, Zenon
<1>3. TypeOK'
  BY <1>2, Zenon DEF TypeOK, threadVars, VoteFacts, NodeTypeOK
<1>4. RoundsOK'
  BY <1>2, RoundIsKept, Zenon DEF RoundsOK, threadVars
<1>5. OrphansOK'
  BY Zenon DEF OrphansOK
<1> QED
  BY <1>2, <1>3, <1>4, <1>5, Zenon

\* Stepping down for a newer term keeps the vote facts: no vote of that term yet.
LEMMA BecomeFollowerKeepsVoteFacts ==
  ASSUME VoteFacts, NEW n \in Node, NEW t \in Nat, t > currentTerm[n],
         become_follower_locked(n, t), UNCHANGED <<voteLog, elected>>
  PROVE  VoteFacts' /\ \A m \in Node : role'[m] = "Leader" => role[m] = "Leader"
<1> USE DEF VoteFacts, become_follower_locked
<1>1. NodeTypeOK' /\ OneVotePerTerm'
  BY Zenon DEF NodeTypeOK, Role, OneVotePerTerm
<1>2. VotesRemembered'
  BY DEF NodeTypeOK, VotesRemembered
<1>3. ElectedByMajority'
  BY MajorityIsKept, Zenon
<1>4. LeadersWereElected' /\ ReportedLeaderWonItsTerm'
  BY Zenon DEF NodeTypeOK, LeadersWereElected, ReportedLeaderWonItsTerm
<1> QED
  BY <1>1, <1>2, <1>3, <1>4, Zenon DEF NodeTypeOK

\* The types of the thread's variables after a reply has been dealt with.
LEMMA ReplyKeepsThreadTypes ==
  ASSUME TypeOK, NEW n \in Node, rpc' = [rpc EXCEPT ![n] = NoRpc],
         Return(n) \/ Continue(n, todo[n])
  PROVE  /\ rpc' \in [Node -> Rpc]
         /\ pc' \in [Node -> {"tick", "elect", "voting", "beat", "beating", "stopped"}]
         /\ term' \in [Node -> Nat]
         /\ todo' \in [Node -> SUBSET Node]
         /\ \A m \in Node \ {n} : /\ rpc'[m] = rpc[m] /\ pc'[m] = pc[m]
                                  /\ term'[m] = term[m] /\ todo'[m] = todo[m]
<1>1. rpc' \in [Node -> Rpc] /\ \A m \in Node \ {n} : rpc'[m] = rpc[m]
  BY Zenon DEF TypeOK, Rpc, NoRpc
<1>2. CASE Return(n)
  BY <1>1, <1>2, Zenon DEF TypeOK, Return
<1>3. CASE todo' = [todo EXCEPT ![n] = todo[n]] /\ UNCHANGED <<pc, term>>
  BY <1>1, <1>3, Zenon DEF TypeOK
<1> QED
  BY <1>2, <1>3, Zenon DEF Continue

\* A reply after which the round is over.
LEMMA ReturnKeepsRounds ==
  ASSUME TypeOK, RoundsOK, NEW n \in Node, Return(n),
         rpc' = [rpc EXCEPT ![n] = NoRpc],
         votes' = [votes EXCEPT ![n] = 0] \/ votes' = votes,
         UNCHANGED <<voteLog, elected>>,
         \A m \in Node : role'[m] = "Leader" => role[m] = "Leader"
  PROVE  RoundsOK'
<1> SUFFICES ASSUME NEW m \in Node PROVE RoundOK(m)'
  BY Zenon DEF RoundsOK
<1>1. RoundOK(m)
  BY Zenon DEF RoundsOK
<1>2. CASE m = n
  BY SMTT(30), <1>2 DEF Return, TypeOK, RoundOK
<1>3. CASE m # n
  <2>1. /\ pc'[m] = pc[m] /\ term'[m] = term[m]
        /\ todo'[m] = todo[m] /\ rpc'[m] = rpc[m]
    <3>1. Return(n) \/ Continue(n, todo[n])
      OBVIOUS
    <3> QED
      BY <1>3, <3>1, ReplyKeepsThreadTypes, Zenon
  <2>2. votes'[m] = votes[m]
    BY <1>3, Zenon DEF TypeOK
  <2>3. voteLog \subseteq voteLog' /\ elected \subseteq elected'
    OBVIOUS
  <2>4. role'[m] = "Leader" => role[m] = "Leader"
    OBVIOUS
  <2> QED
    BY SMTT(30), <1>1, <2>1, <2>2, <2>3, <2>4, RoundIsKept
<1> QED
  BY <1>2, <1>3, Zenon

\* A reply after which the round goes on, perhaps with one more vote.
LEMMA ContinueKeepsRounds ==
  ASSUME TypeOK, RoundsOK, NEW n \in Node, Continue(n, todo[n]),
         rpc' = [rpc EXCEPT ![n] = NoRpc], UNCHANGED <<role, voteLog, elected>>,
         \/ votes' = votes
         \/ /\ votes' = [votes EXCEPT ![n] = @ + 1]
            /\ pc[n] = "voting" /\ rpc[n] # NoRpc /\ rpc[n].ok
  PROVE  RoundsOK'
<1> SUFFICES ASSUME NEW m \in Node PROVE RoundOK(m)'
  BY Zenon DEF RoundsOK
<1>1. RoundOK(m) /\ RoundOK(n)
  BY SMTT(30) DEF RoundsOK
<1>2. CASE m = n
  <2>1. \/ votes'[n] = votes[n]
        \/ /\ votes'[n] = votes[n] + 1
           /\ pc[n] = "voting" /\ rpc[n] # NoRpc /\ rpc[n].ok
    BY Zenon DEF TypeOK
  <2> QED
    BY ZenonT(40), <1>1, <1>2, <2>1, ContinueKeepsRound
<1>3. CASE m # n
  <2>1. /\ pc'[m] = pc[m] /\ term'[m] = term[m]
        /\ todo'[m] = todo[m] /\ rpc'[m] = rpc[m]
    <3>1. Return(n) \/ Continue(n, todo[n])
      OBVIOUS
    <3> QED
      BY <1>3, <3>1, ReplyKeepsThreadTypes, Zenon
  <2>2. votes'[m] = votes[m]
    BY <1>3, Zenon DEF TypeOK
  <2>3. voteLog \subseteq voteLog' /\ elected \subseteq elected'
    OBVIOUS
  <2>4. role'[m] = "Leader" => role[m] = "Leader"
    OBVIOUS
  <2> QED
    BY <1>1, <2>1, <2>2, <2>3, <2>4, RoundIsKept, Zenon
<1> QED
  BY <1>2, <1>3, Zenon

LEMMA AppendReplyKeepsIInv ==
  ASSUME IInv, NEW n \in Node, AppendReply(n)
  PROVE  IInv'
<1> USE DEF IInv, AppendReply
<1>1. OrphansOK' /\ UNCHANGED <<running, votes, orphans, voteLog, elected>>
  BY Zenon DEF OrphansOK
<1>2. CASE Return(n) /\ UNCHANGED nodeVars
  <2>1. VoteFacts'
    BY SMTT(30), <1>1, <1>2, UnchangedVoteFacts
  <2>2. RoundsOK'
    BY <1>1, <1>2, ReturnKeepsRounds, Zenon DEF nodeVars
  <2>3. TypeOK'
    BY <1>1, <1>2, ReplyKeepsThreadTypes, Zenon DEF TypeOK, nodeVars
  <2> QED
    BY SMTT(30), <1>1, <2>1, <2>2, <2>3
<1>3. CASE Return(n) /\ rpc[n].rterm > currentTerm[n] /\ become_follower_locked(n, rpc[n].rterm)
  <2>1. rpc[n].rterm \in Nat
    BY SMTT(30) DEF TypeOK, Rpc
  <2>2. VoteFacts' /\ \A m \in Node : role'[m] = "Leader" => role[m] = "Leader"
    BY SMTT(30), <1>1, <1>3, <2>1, BecomeFollowerKeepsVoteFacts
  <2>3. RoundsOK'
    BY ZenonT(40), <1>1, <1>3, <2>2, ReturnKeepsRounds
  <2>4. TypeOK'
    BY <1>1, <1>3, <2>2, ReplyKeepsThreadTypes, Zenon DEF TypeOK, VoteFacts, NodeTypeOK
  <2> QED
    BY <1>1, <2>2, <2>3, <2>4, Zenon
<1>4. CASE Continue(n, todo[n]) /\ UNCHANGED nodeVars
  <2>1. VoteFacts'
    BY <1>1, <1>4, UnchangedVoteFacts, Zenon
  <2>2. RoundsOK'
    BY <1>1, <1>4, ContinueKeepsRounds, Zenon DEF nodeVars
  <2>3. TypeOK'
    BY <1>1, <1>4, ReplyKeepsThreadTypes, Zenon DEF TypeOK, nodeVars
  <2> QED
    BY <1>1, <2>1, <2>2, <2>3, Zenon
<1> QED
  BY SMTT(30), <1>2, <1>3, <1>4

\* A candidate wins with the votes of a majority, in the term it stands in.
LEMMA WinKeepsVoteFacts ==
  ASSUME IInv, NEW n \in Node, pc[n] = "voting", rpc[n] # NoRpc, rpc[n].ok,
         currentTerm[n] = term[n], votes[n] + 1 >= Majority(n),
         role' = [role EXCEPT ![n] = "Leader"],
         leaderId' = [leaderId EXCEPT ![n] = n],
         elected' = elected \cup {<<term[n], n>>},
         UNCHANGED <<currentTerm, votedFor, voteLog>>
  PROVE  VoteFacts'
<1> USE DEF IInv, VoteFacts
<1>1. NodeTypeOK' /\ OneVotePerTerm' /\ VotesRemembered'
  BY Zenon DEF NodeTypeOK, Role, OneVotePerTerm, VotesRemembered
<1>2. LeadersWereElected' /\ ReportedLeaderWonItsTerm'
  BY Zenon DEF NodeTypeOK, LeadersWereElected, ReportedLeaderWonItsTerm
<1>3. 2 * Cardinality(Voters(term[n], n)) > Cardinality(Node)
  <2> DEFINE S == Counted(n) \cup {rpc[n].peer}
             T == Voters(term[n], n)
  <2>1. RoundOK(n) /\ votes[n] + 1 \in Nat
    BY SMTT(30) DEF RoundsOK, TypeOK
  <2>2. S \in SUBSET T /\ T \in SUBSET Node /\ votes[n] + 1 <= Cardinality(S)
    BY <2>1, OneMoreVote, Zenon DEF Voters
  <2>3. 2 * (votes[n] + 1) > Cardinality(Node)
    BY <2>1, MajorityIsMoreThanHalf, Zenon
  <2>4. Cardinality(Node) \in Nat
    BY SubsetsOfNode, Zenon
  <2> HIDE DEF S, T
  <2>5. Cardinality(S) \in Nat /\ Cardinality(T) \in Nat /\ Cardinality(S) <= Cardinality(T)
    BY SMTT(30), <2>2, SubsetsOfNode
  <2>6. 2 * Cardinality(T) > Cardinality(Node)
    BY SMTT(30), <2>1, <2>2, <2>3, <2>4, <2>5
  <2> QED
    BY <2>6, Zenon DEF T
<1>4. ElectedByMajority'
  <2> SUFFICES ASSUME NEW e \in elected'
               PROVE  2 * Cardinality(Voters(e[1], e[2])') > Cardinality(Node)
    BY Zenon DEF ElectedByMajority
  <2>1. Voters(e[1], e[2])' = Voters(e[1], e[2])
    BY Zenon DEF Voters
  <2>2. CASE e \in elected
    BY <2>1, <2>2, Zenon DEF ElectedByMajority
  <2>3. CASE e = <<term[n], n>>
    BY SMTT(30), <1>3, <2>1, <2>3
  <2> QED
    BY <2>2, <2>3, Zenon
<1> QED
  BY <1>1, <1>2, <1>4, Zenon

LEMMA VoteReplyKeepsIInv ==
  ASSUME IInv, NEW n \in Node, VoteReply(n)
  PROVE  IInv'
<1> USE DEF IInv
<1>1. /\ pc[n] = "voting" /\ rpc[n] # NoRpc /\ rpc' = [rpc EXCEPT ![n] = NoRpc]
      /\ UNCHANGED <<running, orphans, voteLog>>
  BY Zenon DEF VoteReply
<1>2. CASE Return(n) /\ votes' = [votes EXCEPT ![n] = 0] /\ UNCHANGED <<nodeVars, elected>>
  <2>1. VoteFacts'
    BY <1>1, <1>2, UnchangedVoteFacts, Zenon
  <2>2. RoundsOK'
    BY <1>1, <1>2, ReturnKeepsRounds, Zenon DEF nodeVars
  <2>3. TypeOK'
    BY <1>1, <1>2, ReplyKeepsThreadTypes, Zenon DEF TypeOK, nodeVars
  <2> QED
    BY <1>1, <1>2, <2>1, <2>2, <2>3, Zenon DEF OrphansOK
<1>3. CASE /\ rpc[n].rterm > currentTerm[n]
           /\ become_follower_locked(n, rpc[n].rterm)
           /\ Return(n) /\ votes' = [votes EXCEPT ![n] = 0] /\ UNCHANGED elected
  <2>1. rpc[n].rterm \in Nat
    BY SMTT(30) DEF TypeOK, Rpc
  <2>2. VoteFacts' /\ \A m \in Node : role'[m] = "Leader" => role[m] = "Leader"
    BY SMTT(30), <1>1, <1>3, <2>1, BecomeFollowerKeepsVoteFacts
  <2>3. RoundsOK'
    BY <1>1, <1>3, <2>2, ReturnKeepsRounds, Zenon
  <2>4. TypeOK'
    BY <1>1, <1>3, <2>2, ReplyKeepsThreadTypes, Zenon DEF TypeOK, VoteFacts, NodeTypeOK
  <2> QED
    BY <1>1, <1>3, <2>2, <2>3, <2>4, Zenon DEF OrphansOK
<1>4. CASE /\ rpc[n].ok /\ votes[n] + 1 >= Majority(n) /\ currentTerm[n] = term[n]
           /\ role' = [role EXCEPT ![n] = "Leader"]
           /\ leaderId' = [leaderId EXCEPT ![n] = n]
           /\ elected' = elected \cup {<<term[n], n>>}
           /\ pc' = [pc EXCEPT ![n] = "beat"]
           /\ term' = [term EXCEPT ![n] = 0]
           /\ votes' = [votes EXCEPT ![n] = 0]
           /\ todo' = [todo EXCEPT ![n] = {}]
           /\ UNCHANGED <<currentTerm, votedFor>>
  <2>1. VoteFacts'
    BY <1>1, <1>4, WinKeepsVoteFacts, Zenon
  <2>2. RoundsOK'
    <3> SUFFICES ASSUME NEW m \in Node PROVE RoundOK(m)'
      BY Zenon DEF RoundsOK
    <3>1. CASE m = n
      BY <1>1, <1>4, <3>1, Zenon DEF RoundOK, TypeOK
    <3>2. CASE m # n
      BY SMTT(30), <1>1, <1>4, <3>2, RoundIsKept DEF RoundsOK, TypeOK
    <3> QED
      BY <3>1, <3>2, Zenon
  <2>3. TypeOK'
    <3>1. rpc' \in [Node -> Rpc]
      BY <1>1, Zenon DEF TypeOK, Rpc, NoRpc
    <3>2. elected' \subseteq Nat \X Node
      BY SMTT(30), <1>4 DEF TypeOK
    <3> QED
      BY SMTT(30), <1>1, <1>4, <2>1, <3>1, <3>2 DEF TypeOK, VoteFacts, NodeTypeOK
  <2> QED
    BY <1>1, <1>4, <2>1, <2>2, <2>3, Zenon DEF OrphansOK
<1>5. CASE /\ votes' = [votes EXCEPT ![n] = IF rpc[n].ok THEN @ + 1 ELSE @]
           /\ Continue(n, todo[n]) /\ UNCHANGED <<nodeVars, elected>>
  <2>1. VoteFacts'
    BY <1>1, <1>5, UnchangedVoteFacts, Zenon
  <2>2. RoundsOK'
    <3>1. CASE rpc[n].ok
      BY <1>1, <1>5, <3>1, ContinueKeepsRounds, Zenon DEF nodeVars
    <3>2. CASE ~rpc[n].ok
      <4>1. votes' = votes
        BY <1>5, <3>2, Zenon DEF TypeOK
      <4> QED
        BY <1>1, <1>5, <4>1, ContinueKeepsRounds, Zenon DEF nodeVars
    <3> QED
      BY SMTT(30), <3>1, <3>2
  <2>3. TypeOK'
    <3>1. votes' \in [Node -> Nat]
      BY <1>5 DEF TypeOK
    <3> QED
      BY <1>1, <1>5, <3>1, ReplyKeepsThreadTypes, Zenon DEF TypeOK, nodeVars
  <2> QED
    BY <1>1, <1>5, <2>1, <2>2, <2>3, Zenon DEF OrphansOK
<1> QED
  BY ZenonT(40), <1>2, <1>3, <1>4, <1>5 DEF VoteReply, VoteReplySuperseded, Wins

-----------------------------------------------------------------------------
(* The theorems. *)

LEMMA UnchangedKeepsIInv ==
  ASSUME IInv, UNCHANGED vars
  PROVE  IInv'
<1> USE DEF IInv, vars, threadVars
<1>1. TypeOK' /\ OrphansOK'
  BY Zenon DEF TypeOK, nodeVars, OrphansOK
<1>2. VoteFacts'
  BY UnchangedVoteFacts, Zenon
<1>3. RoundsOK'
  BY RoundIsKept, Zenon DEF RoundsOK, nodeVars
<1> QED
  BY <1>1, <1>2, <1>3, Zenon

\* The inductive invariant: what ties votes, winners, the state under the mutex
\* and the locals of the timer threads together in every reachable state.
THEOREM InductiveInvariant == Spec => []IInv
<1>1. Init => IInv
  BY InitIInv, Zenon
<1>2. IInv /\ [Next]_vars => IInv'
  <2> SUFFICES ASSUME IInv, [Next]_vars PROVE IInv'
    OBVIOUS
  <2>1. ASSUME NEW n \in Node, Thread(n) \/ Stop(n) PROVE IInv'
    BY <2>1, TickKeepsIInv, StartElectionKeepsIInv, SendHeartbeatsKeepsIInv,
       CallPeerKeepsIInv, CallFailsKeepsIInv, VoteReplyKeepsIInv, AppendReplyKeepsIInv, Zenon
       DEF Thread
  <2>2. ASSUME NEW r \in orphans, ServeOrphan(r) PROVE IInv'
    BY <2>2, ServeOrphanKeepsIInv, Zenon
  <2>3. CASE UNCHANGED vars
    BY <2>3, UnchangedKeepsIInv, Zenon
  <2> QED
    BY <2>1, <2>2, <2>3, Zenon DEF Next
<1> QED
  BY <1>1, <1>2, PTL DEF Spec

\* Every variable of the election keeps its type.
THEOREM TypeCorrect == Spec => []TypeOK
<1>1. IInv => TypeOK
  BY Zenon DEF IInv
<1> QED
  BY <1>1, InductiveInvariant, PTL

\* At most one leader per term, ever, in a cluster of any size.
THEOREM AtMostOneLeaderPerTerm == Spec => []ElectionSafety
<1>1. IInv => ElectionSafety
  BY MajoritiesGiveElectionSafety, Zenon DEF IInv, VoteFacts
<1> QED
  BY <1>1, InductiveInvariant, PTL

\* No node votes for two candidates in one term.
THEOREM VotesOnce == Spec => []OneVotePerTerm
<1>1. IInv => OneVotePerTerm
  BY Zenon DEF IInv, VoteFacts
<1> QED
  BY <1>1, InductiveInvariant, PTL

\* The leader a node names won the term the node is in.
THEOREM ReportsTheWinner == Spec => []ReportedLeaderWonItsTerm
<1>1. IInv => ReportedLeaderWonItsTerm
  BY SMTT(30) DEF IInv, VoteFacts
<1> QED
  BY <1>1, InductiveInvariant, PTL

\* What a step may do to the term and the leadership of node n.
TermStep(n) ==
  /\ currentTerm'[n] >= currentTerm[n]
  /\ role[n] = "Leader" /\ role'[n] # "Leader" => currentTerm'[n] > currentTerm[n]

\* A handler deposes a leader only for a newer term: a heartbeat of the leader's
\* own term would come from a second winner of that term.
LEMMA HandleTermStep ==
  ASSUME VoteFacts, ElectionSafety, NEW r \in RequestType, Handle(r), r.from # r.to,
         r.kind = "append" => <<r.term, r.from>> \in elected,
         NEW n \in Node
  PROVE  TermStep(n)
<1>1. r.from \in Node /\ r.to \in Node /\ r.term \in Nat
  BY SMTT(30) DEF RequestType
<1>2. CASE r.kind = "vote" /\ handle_request_vote(r.to, r.term, r.from)
  BY SMTT(30), <1>1, <1>2
     DEF TermStep, handle_request_vote, TermAfter, VoteFacts, NodeTypeOK
<1>3. CASE r.kind = "append" /\ handle_append_entries(r.to, r.term, r.from)
  <2>1. role[r.to] = "Leader" => r.term # currentTerm[r.to]
    BY ZenonT(40), <1>1, <1>3 DEF VoteFacts, LeadersWereElected, ElectionSafety
  <2> QED
    BY SMTT(30), <1>1, <1>3, <2>1
       DEF TermStep, handle_append_entries, nodeVars, VoteFacts, NodeTypeOK
<1> QED
  BY <1>2, <1>3, Zenon DEF Handle

LEMMA EveryStepIsATermStep ==
  ASSUME IInv, [Next]_vars, NEW m \in Node
  PROVE  TermStep(m)
<1> USE DEF IInv
<1>1. ElectionSafety
  BY MajoritiesGiveElectionSafety, Zenon DEF VoteFacts
<1>2. CASE UNCHANGED nodeVars
  BY <1>2 DEF TermStep, nodeVars, TypeOK
<1>3. ASSUME NEW n \in Node, StartElection(n) PROVE TermStep(m)
  BY <1>3 DEF StartElection, TermStep, TypeOK
<1>4. ASSUME NEW n \in Node, NEW p \in Node, CallPeer(n, p) PROVE TermStep(m)
  <2> DEFINE r == Request(n, p)
  <2>1. /\ r \in RequestType
        /\ r.from = n /\ r.to = p /\ r.term = term[n]
        /\ r.kind = "append" => pc[n] = "beating"
    BY SMTT(30), <1>4 DEF CallPeer, Calling, Request, RequestType, Kind, TypeOK
  <2>2. r.kind = "append" => <<r.term, r.from>> \in elected
    BY <2>1, Zenon DEF RoundsOK, RoundOK
  <2>3. Handle(r) /\ n # p
    BY <1>4, Zenon DEF CallPeer, Calling, RoundsOK, RoundOK
  <2> HIDE DEF r
  <2> QED
    BY SMTT(30), <1>1, <2>1, <2>2, <2>3, HandleTermStep
<1>5. ASSUME NEW r \in orphans, ServeOrphan(r) PROVE TermStep(m)
  BY <1>1, <1>5, HandleTermStep, Zenon DEF ServeOrphan, OrphansOK, TypeOK
<1>6. ASSUME NEW n \in Node, NEW t \in Nat, t > currentTerm[n], become_follower_locked(n, t)
      PROVE  TermStep(m)
  BY <1>6 DEF become_follower_locked, TermStep, TypeOK
<1>7. ASSUME NEW n \in Node, VoteReply(n) \/ AppendReply(n) PROVE TermStep(m)
  <2>1. rpc[n].rterm \in Nat
    BY SMTT(30) DEF TypeOK, Rpc
  <2>2. CASE rpc[n].rterm > currentTerm[n] /\ become_follower_locked(n, rpc[n].rterm)
    BY <1>6, <2>1, <2>2, Zenon
  <2>3. CASE role' = [role EXCEPT ![n] = "Leader"] /\ UNCHANGED currentTerm
    BY SMTT(30), <2>3 DEF TermStep, TypeOK
  <2> QED
    BY <1>2, <1>7, <2>2, <2>3, Zenon DEF VoteReply, AppendReply
<1>8. ASSUME NEW n \in Node,
             \/ TickElection(n) \/ TickHeartbeat(n) \/ TickExit(n) \/ Stop(n)
             \/ SendHeartbeats(n) \/ ReplyLost(n) \/ \E p \in Node : CallFails(n, p)
      PROVE  TermStep(m)
  BY <1>2, <1>8, Zenon DEF TickElection, TickHeartbeat, TickExit, Stop, SendHeartbeats,
                    ReplyLost, CallFails
<1>9. CASE UNCHANGED vars
  BY <1>2, <1>9, Zenon DEF vars
<1> QED
  BY <1>3, <1>4, <1>5, <1>7, <1>8, <1>9, Zenon DEF Next, Thread

\* No node's term ever goes back.
THEOREM TermsOnlyGrow == Spec => TermNeverDecreases
<1>1. IInv /\ [Next]_vars => [\A n \in Node : currentTerm'[n] >= currentTerm[n]]_vars
  BY EveryStepIsATermStep, Zenon DEF TermStep
<1> QED
  BY <1>1, InductiveInvariant, PTL DEF Spec, TermNeverDecreases

\* A leader is deposed by a newer term only.
THEOREM LeadersKeepTheirTerm == Spec => LeaderDeposedOnlyByNewerTerm
<1>1. IInv /\ [Next]_vars =>
        [\A n \in Node : role[n] = "Leader" /\ role'[n] # "Leader"
                           => currentTerm'[n] > currentTerm[n]]_vars
  BY EveryStepIsATermStep, Zenon DEF TermStep
<1> QED
  BY <1>1, InductiveInvariant, PTL DEF Spec, LeaderDeposedOnlyByNewerTerm
-----------------------------------------------------------------------------
(* A majority is never left unclaimed. *)

BelowMajority == \A n \in Node : votes[n] < Majority(n)

\* A candidate that reaches a majority leads before start_election() returns,
\* provided the cluster has a second node: the count is compared with the
\* majority only in the loop over the peers.
THEOREM MajorityIsClaimed ==
  ASSUME Cardinality(Node) >= 2
  PROVE  Spec => []QuorumCandidateLeads
<1>1. ASSUME NEW n \in Node
      PROVE  Majority(n) \in Nat /\ Majority(n) >= 2
  <2>1. /\ Cardinality(Node) \in Nat
        /\ Cardinality(Node \ {n}) = Cardinality(Node) - 1
    BY NodeAssumption, FS_RemoveElement, FS_CardinalityType, Zenon
  <2>2. Cardinality(Peers(n)) + 1 = Cardinality(Node)
    BY <2>1, PeersAreTheOthers
  <2> QED
    BY <2>1, <2>2 DEF Majority
<1>2. Init => BelowMajority
  BY <1>1 DEF Init, BelowMajority
<1>3. IInv /\ BelowMajority /\ [Next]_vars => BelowMajority'
  <2> SUFFICES ASSUME IInv, BelowMajority, [Next]_vars, NEW m \in Node
               PROVE  votes'[m] < Majority(m)
    BY Zenon DEF BelowMajority, Majority, Peers
  <2> USE DEF BelowMajority
  <2>1. votes \in [Node -> Nat]
    BY Zenon DEF IInv, TypeOK
  <2>2. CASE UNCHANGED votes
    BY <2>2, Zenon
  <2>3. ASSUME NEW n \in Node, StartElection(n) PROVE votes'[m] < Majority(m)
    BY <1>1, <2>1, <2>3 DEF StartElection
  <2>4. ASSUME NEW n \in Node, VoteReply(n) PROVE votes'[m] < Majority(m)
    <3>1. CASE votes' = [votes EXCEPT ![n] = 0]
      BY <1>1, <2>1, <3>1
    <3>2. CASE ~Wins(n) /\ votes' = [votes EXCEPT ![n] = IF rpc[n].ok THEN @ + 1 ELSE @]
      BY <1>1, <2>1, <3>2 DEF Wins
    <3> QED
      BY <2>4, <3>1, <3>2, Zenon DEF VoteReply
  <2>5. ASSUME NEW n \in Node,
               \/ TickElection(n) \/ TickHeartbeat(n) \/ TickExit(n) \/ Stop(n)
               \/ SendHeartbeats(n) \/ ReplyLost(n) \/ AppendReply(n)
               \/ \E p \in Node : CallFails(n, p) \/ CallPeer(n, p)
        PROVE  UNCHANGED votes
    BY <2>5, Zenon DEF TickElection, TickHeartbeat, TickExit, Stop, threadVars, SendHeartbeats,
                ReplyLost, AppendReply, CallFails, CallPeer
  <2>6. ASSUME NEW r \in orphans, ServeOrphan(r) PROVE UNCHANGED votes
    BY <2>6, Zenon DEF ServeOrphan, threadVars
  <2>7. CASE UNCHANGED vars
    BY <2>2, <2>7, Zenon DEF vars, threadVars
  <2> QED
    BY <2>2, <2>3, <2>4, <2>5, <2>6, <2>7, Zenon DEF Next, Thread
<1>4. BelowMajority => QuorumCandidateLeads
  BY Zenon DEF BelowMajority, QuorumCandidateLeads
<1> QED
  BY <1>2, <1>3, <1>4, InductiveInvariant, PTL DEF Spec

-----------------------------------------------------------------------------
(* The election implements Voting. *)

Stood(c, t) == <<c, t, c>> \in voteLog

Opened(t) == t = 0 \/ \E c \in Node : Stood(c, t)

\* In every term a node is in or was answered with, some node stood; a node that
\* asks for votes in a term, or has won it, stood in it itself.
StandingOK ==
  /\ \A n \in Node : Opened(currentTerm[n])
  /\ \A n \in Node : Opened(rpc[n].rterm)
  /\ \A n \in Node : pc[n] = "voting" => Stood(n, term[n])
  /\ \A r \in orphans : r.kind = "vote" => Stood(r.from, r.term)
  /\ \A e \in elected : Stood(e[2], e[1])

LEMMA StoodForGood ==
  ASSUME voteLog \subseteq voteLog'
  PROVE  /\ \A c, t : Stood(c, t) => Stood(c, t)'
         /\ \A t : Opened(t) => Opened(t)'
  BY Zenon DEF Stood, Opened

LEMMA StandingIsACandidacy ==
  ASSUME NEW c, NEW t, Stood(c, t)
  PROVE  \E b \in V!Candidacies : b[2] = t /\ b[3] = c
<1> DEFINE b == <<c, t, c>>
<1>1. b \in voteLog /\ b[1] = c /\ b[2] = t /\ b[3] = c
  BY DEF Stood
<1> QED
  BY <1>1, Zenon DEF V!Candidacies

\* handle_request_vote: a vote for the one who stands, unless it was given before
\* or is refused.
LEMMA RequestVoteIsAVote ==
  ASSUME VoteFacts, NEW m \in Node, NEW t \in Nat, NEW c \in Node,
         handle_request_vote(m, t, c), elected' = elected, Stood(c, t)
  PROVE  V!VStep \/ UNCHANGED V!votingVars
<1>1. currentTerm \in [Node -> Nat] /\ voteLog \subseteq Node \X Nat \X Node
  BY Zenon DEF VoteFacts, NodeTypeOK
<1>2. CASE Granted(m, t, c) /\ <<m, t, c>> \notin voteLog
  <2>1. t >= currentTerm[m]
    BY <1>1, <1>2 DEF Granted
  <2>2. currentTerm' = [currentTerm EXCEPT ![m] = t] /\ voteLog' = voteLog \cup {<<m, t, c>>}
    <3>1. TermAfter(m, t) = t
      BY <1>1, <2>1 DEF TermAfter
    <3> QED
      BY <1>2, <3>1, Zenon DEF handle_request_vote
  <2>3. ASSUME NEW d \in voteLog, d[1] = m PROVE d[2] < t
    <3>1. d[2] <= currentTerm[m] /\ (d[2] = currentTerm[m] => votedFor[m] = d[3])
      BY <2>3, Zenon DEF VoteFacts, VotesRemembered
    <3>2. d[2] \in Nat /\ d[3] \in Node /\ d = <<d[1], d[2], d[3]>>
      BY <1>1
    <3>3. ASSUME d[2] = currentTerm[m], t = currentTerm[m] PROVE FALSE
      <4>1. votedFor[m] = d[3] /\ votedFor[m] \in {None, c}
        BY <1>1, <1>2, <3>1, <3>3 DEF Granted
      <4>2. d[3] = c
        BY <4>1, <3>2, NodeAssumption, Zenon
      <4> QED
        BY <1>2, <2>3, <3>2, <3>3, <4>2, Zenon
    <3> QED
      BY <1>1, <2>1, <3>1, <3>2, <3>3
  <2>4. PICK b \in V!Candidacies : b[2] = t /\ b[3] = c
    BY StandingIsACandidacy, Zenon
  <2>5. V!VotesFor(m, b)
    BY <2>1, <2>2, <2>3, <2>4, Zenon DEF V!VotesFor
  <2> QED
    BY <2>5, Zenon DEF V!VStep
<1>3. CASE ~Granted(m, t, c) \/ <<m, t, c>> \in voteLog
  <2>1. <<m, t, c>> \in voteLog => t <= currentTerm[m]
    BY DEF VoteFacts, VotesRemembered
  <2>2. TermAfter(m, t) = currentTerm[m]
    BY <1>1, <1>3, <2>1 DEF TermAfter, Granted
  <2>3. currentTerm' = currentTerm
    BY <1>1, <2>2, Zenon DEF handle_request_vote
  <2>4. voteLog' = voteLog
    BY <1>3, Zenon DEF handle_request_vote
  <2> QED
    BY <2>3, <2>4, Zenon DEF V!votingVars
<1> QED
  BY <1>2, <1>3, Zenon

\* handle_append_entries: at most a newer term is learned.
LEMMA AppendEntriesIsAMove ==
  ASSUME VoteFacts, NEW m \in Node, NEW t \in Nat, NEW l \in Node,
         handle_append_entries(m, t, l), elected' = elected, Stood(l, t)
  PROVE  V!VStep \/ UNCHANGED V!votingVars
<1>1. currentTerm \in [Node -> Nat] /\ voteLog' = voteLog
  BY Zenon DEF VoteFacts, NodeTypeOK, handle_append_entries
<1>2. CASE t > currentTerm[m]
  <2>1. currentTerm' = [currentTerm EXCEPT ![m] = t]
    BY <1>1, <1>2 DEF handle_append_entries
  <2>2. PICK b \in V!Candidacies : b[2] = t
    BY StandingIsACandidacy, Zenon
  <2>3. V!MovesTo(m, b[2])
    BY <1>1, <1>2, <2>1, <2>2, Zenon DEF V!MovesTo
  <2> QED
    BY <2>2, <2>3, Zenon DEF V!VStep
<1>3. CASE ~(t > currentTerm[m])
  <2>1. currentTerm' = currentTerm
    BY <1>1, <1>3 DEF handle_append_entries, nodeVars
  <2> QED
    BY <1>1, <2>1, Zenon DEF V!votingVars
<1> QED
  BY <1>2, <1>3, Zenon

\* Both handlers leave the receiver in a term somebody stood in.
LEMMA HandleIsAVotingStep ==
  ASSUME VoteFacts, NEW r \in RequestType, Handle(r), elected' = elected,
         Stood(r.from, r.term), \A n \in Node : Opened(currentTerm[n])
  PROVE  /\ V!VStep \/ UNCHANGED V!votingVars
         /\ voteLog \subseteq voteLog'
         /\ \A n \in Node : Opened(currentTerm'[n])
         /\ Opened(TermAfter(r.to, r.term))
<1>1. r.from \in Node /\ r.to \in Node /\ r.term \in Nat
  BY Zenon DEF RequestType
<1>2. currentTerm \in [Node -> Nat] /\ Opened(r.term)
  BY <1>1, Zenon DEF VoteFacts, NodeTypeOK, Opened
<1>3. Opened(TermAfter(r.to, r.term))
  BY <1>1, <1>2, Zenon DEF TermAfter
<1>4. CASE r.kind = "vote" /\ handle_request_vote(r.to, r.term, r.from)
  <2>1. \A n \in Node : Opened(currentTerm'[n])
    BY <1>1, <1>2, <1>3, <1>4, Zenon DEF handle_request_vote
  <2>2. voteLog \subseteq voteLog'
    BY <1>4, Zenon DEF handle_request_vote
  <2> QED
    BY <1>1, <1>3, <1>4, <2>1, <2>2, RequestVoteIsAVote, Zenon
<1>5. CASE r.kind = "append" /\ handle_append_entries(r.to, r.term, r.from)
  <2>1. \A n \in Node : Opened(currentTerm'[n])
    BY <1>1, <1>2, <1>5, Zenon DEF handle_append_entries, nodeVars
  <2>2. voteLog \subseteq voteLog'
    BY <1>5, Zenon DEF handle_append_entries
  <2> QED
    BY <1>1, <1>3, <1>5, <2>1, <2>2, AppendEntriesIsAMove, Zenon
<1> QED
  BY <1>4, <1>5, Zenon DEF Handle

\* A step that brings no node, answer or request into a term nobody stood in
\* before keeps StandingOK.
LEMMA StandingIsKept ==
  ASSUME StandingOK, voteLog \subseteq voteLog',
         \A n \in Node : Opened(currentTerm'[n]),
         \A n \in Node : Opened(rpc'[n].rterm),
         \A n \in Node : pc'[n] = "voting" => Stood(n, term'[n]),
         \A r \in orphans' : r \in orphans \/ (r.kind = "vote" => Stood(r.from, r.term)),
         \A e \in elected' : e \in elected \/ Stood(e[2], e[1])
  PROVE  StandingOK'
<1>1. \A n \in Node : currentTerm'[n] = 0 \/ \E c \in Node : <<c, currentTerm'[n], c>> \in voteLog'
  BY Zenon DEF Opened, Stood
<1>2. \A n \in Node : rpc'[n].rterm = 0 \/ \E c \in Node : <<c, rpc'[n].rterm, c>> \in voteLog'
  BY Zenon DEF Opened, Stood
<1>3. \A n \in Node : pc'[n] = "voting" => <<n, term'[n], n>> \in voteLog'
  BY Zenon DEF Stood
<1>4. \A r \in orphans' : r.kind = "vote" => <<r.from, r.term, r.from>> \in voteLog'
  BY Zenon DEF StandingOK, Stood
<1>5. \A e \in elected' : <<e[2], e[1], e[2]>> \in voteLog'
  BY Zenon DEF StandingOK, Stood
<1> QED
  BY <1>1, <1>2, <1>3, <1>4, <1>5, Zenon DEF StandingOK, Opened, Stood

\* A thread that goes on with the same round, or leaves it, asks for no vote it
\* did not ask for before.
LEMMA RoundAsksNothingNew ==
  ASSUME TypeOK, StandingOK, NEW n \in Node,
         \/ Return(n)
         \/ \E left : Continue(n, left)
  PROVE  \A m \in Node : pc'[m] = "voting" => Stood(m, term'[m])
<1> SUFFICES ASSUME NEW m \in Node, pc'[m] = "voting" PROVE Stood(m, term'[m])
  BY Zenon
<1>1. pc \in [Node -> {"tick", "elect", "voting", "beat", "beating", "stopped"}]
      /\ term \in [Node -> Nat]
  BY Zenon DEF TypeOK
<1>2. pc'[m] = pc[m] /\ term'[m] = term[m]
  BY <1>1 DEF Return, Continue
<1> QED
  BY <1>2, Zenon DEF StandingOK

LEMMA StartElectionStands ==
  ASSUME IInv, StandingOK, NEW n \in Node, StartElection(n)
  PROVE  StandingOK' /\ V!VStep
<1>1. /\ currentTerm \in [Node -> Nat] /\ term \in [Node -> Nat]
      /\ pc \in [Node -> {"tick", "elect", "voting", "beat", "beating", "stopped"}]
  BY Zenon DEF IInv, TypeOK
<1>2. /\ currentTerm' = [currentTerm EXCEPT ![n] = @ + 1]
      /\ voteLog' = voteLog \cup {<<n, currentTerm[n] + 1, n>>}
      /\ term' = [term EXCEPT ![n] = currentTerm[n] + 1]
      /\ pc' = [pc EXCEPT ![n] = IF Peers(n) = {} THEN "tick" ELSE "voting"]
      /\ rpc' = rpc /\ orphans' = orphans /\ elected' = elected
  BY Zenon DEF StartElection
<1>3. V!Stands(n)
  BY <1>2, Zenon DEF V!Stands
<1>4. \A m \in Node : currentTerm'[m] = 0 \/ \E c \in Node : <<c, currentTerm'[m], c>> \in voteLog'
  <2> SUFFICES ASSUME NEW m \in Node, currentTerm'[m] # 0
               PROVE  \E c \in Node : <<c, currentTerm'[m], c>> \in voteLog'
    BY Zenon
  <2>1. CASE m = n
    BY <1>1, <1>2, <2>1, Zenon
  <2>2. CASE m # n
    <3>1. currentTerm'[m] = currentTerm[m]
      BY <1>1, <1>2, <2>2, Zenon
    <3>2. PICK c \in Node : <<c, currentTerm[m], c>> \in voteLog
      BY <3>1, Zenon DEF StandingOK, Opened, Stood
    <3> QED
      BY <1>2, <3>1, <3>2
  <2> QED
    BY <2>1, <2>2, Zenon
<1>5. \A m \in Node : rpc'[m].rterm = 0 \/ \E c \in Node : <<c, rpc'[m].rterm, c>> \in voteLog'
  BY <1>2, Zenon DEF StandingOK, Opened, Stood
<1>6. \A m \in Node : pc'[m] = "voting" => <<m, term'[m], m>> \in voteLog'
  BY <1>1, <1>2, Zenon DEF StandingOK, Stood
<1>7. /\ \A r \in orphans' : r.kind = "vote" => <<r.from, r.term, r.from>> \in voteLog'
      /\ \A e \in elected' : <<e[2], e[1], e[2]>> \in voteLog'
  BY <1>2, Zenon DEF StandingOK, Stood
<1> QED
  BY <1>3, <1>4, <1>5, <1>6, <1>7, Zenon DEF V!VStep, StandingOK, Opened, Stood

\* A request is made by a node that stood in its term.
LEMMA RequestersStood ==
  ASSUME IInv, StandingOK, NEW n \in Node, NEW p \in Node, Calling(n, p)
  PROVE  /\ Request(n, p) \in RequestType
         /\ Stood(Request(n, p).from, Request(n, p).term)
         /\ Request(n, p).to = p /\ Request(n, p).term = term[n]
<1>1. /\ Request(n, p) \in RequestType
      /\ Request(n, p).from = n /\ Request(n, p).to = p /\ Request(n, p).term = term[n]
  BY Zenon DEF Request, RequestType, Kind, IInv, TypeOK
<1>2. CASE pc[n] = "voting"
  BY <1>1, <1>2, Zenon DEF StandingOK
<1>3. CASE pc[n] = "beating"
  <2>1. <<term[n], n>> \in elected
    BY <1>3, Zenon DEF IInv, RoundsOK, RoundOK
  <2>2. Stood(<<term[n], n>>[2], <<term[n], n>>[1])
    BY <2>1, Zenon DEF StandingOK
  <2>3. Stood(n, term[n])
    BY <2>2
  <2> QED
    BY <1>1, <2>3, Zenon
<1> QED
  BY <1>1, <1>2, <1>3, Zenon DEF Calling

LEMMA CallPeerIsAVotingStep ==
  ASSUME IInv, StandingOK, NEW n \in Node, NEW p \in Node, CallPeer(n, p)
  PROVE  StandingOK' /\ (V!VStep \/ UNCHANGED V!votingVars)
<1>1. /\ Calling(n, p) /\ Handle(Request(n, p))
      /\ rpc' = [rpc EXCEPT ![n] = [peer |-> p, rterm |-> TermAfter(p, term[n]),
                                    ok |-> Accepted(Request(n, p))]]
      /\ pc' = pc /\ term' = term /\ orphans' = orphans /\ elected' = elected
  BY Zenon DEF CallPeer
<1>2. /\ Request(n, p) \in RequestType
      /\ Stood(Request(n, p).from, Request(n, p).term)
      /\ Request(n, p).to = p /\ Request(n, p).term = term[n]
  BY <1>1, RequestersStood, Zenon
<1>3. /\ V!VStep \/ UNCHANGED V!votingVars
      /\ voteLog \subseteq voteLog'
      /\ \A m \in Node : Opened(currentTerm'[m])
      /\ Opened(TermAfter(p, term[n]))
  BY <1>1, <1>2, HandleIsAVotingStep, Zenon DEF IInv, StandingOK
<1>4. ASSUME NEW m \in Node PROVE Opened(rpc'[m].rterm)
  <2>1. rpc \in [Node -> Rpc]
    BY Zenon DEF IInv, TypeOK
  <2>2. CASE m = n
    <3>1. rpc'[m].rterm = TermAfter(p, term[n])
      BY <1>1, <2>1, <2>2
    <3> QED
      BY <1>3, <3>1, Zenon
  <2>3. CASE m # n
    BY <1>1, <2>1, <2>3, Zenon DEF StandingOK
  <2> QED
    BY <2>2, <2>3, Zenon
<1>5. \A m \in Node : pc'[m] = "voting" => Stood(m, term'[m])
  BY <1>1, Zenon DEF StandingOK
<1>6. StandingOK'
  BY <1>1, <1>3, <1>4, <1>5, StandingIsKept, Zenon
<1> QED
  BY <1>3, <1>6, Zenon

LEMMA CallFailsIsNoVotingStep ==
  ASSUME IInv, StandingOK, NEW n \in Node, NEW p \in Node, CallFails(n, p)
  PROVE  StandingOK' /\ UNCHANGED V!votingVars
<1>1. /\ Calling(n, p)
      /\ orphans' = orphans \/ orphans' = orphans \cup {Request(n, p)}
      /\ Continue(n, todo[n] \ {p})
      /\ currentTerm' = currentTerm /\ rpc' = rpc /\ voteLog' = voteLog /\ elected' = elected
  BY Zenon DEF CallFails, nodeVars
<1>2. Stood(Request(n, p).from, Request(n, p).term)
  BY <1>1, RequestersStood, Zenon
<1>3. \A r \in orphans' : r \in orphans \/ (r.kind = "vote" => Stood(r.from, r.term))
  BY <1>1, <1>2, Zenon
<1>4. \A m \in Node : pc'[m] = "voting" => Stood(m, term'[m])
  BY <1>1, RoundAsksNothingNew, Zenon DEF IInv
<1>5. (\A m \in Node : Opened(currentTerm'[m])) /\ \A m \in Node : Opened(rpc'[m].rterm)
  BY <1>1, Zenon DEF StandingOK
<1> QED
  BY <1>1, <1>3, <1>4, <1>5, StandingIsKept, Zenon DEF V!votingVars

LEMMA ServeOrphanIsAVotingStep ==
  ASSUME IInv, StandingOK, NEW r \in orphans, ServeOrphan(r)
  PROVE  StandingOK' /\ (V!VStep \/ UNCHANGED V!votingVars)
<1>1. /\ Handle(r) /\ orphans' = orphans \ {r}
      /\ pc' = pc /\ term' = term /\ rpc' = rpc /\ elected' = elected
  BY Zenon DEF ServeOrphan, threadVars
<1>2. r \in RequestType
  BY Zenon DEF IInv, TypeOK
<1>3. Stood(r.from, r.term)
  <2>1. CASE r.kind = "vote"
    BY <2>1, Zenon DEF StandingOK
  <2>2. CASE r.kind = "append"
    <3>1. <<r.term, r.from>> \in elected
      BY <2>2, Zenon DEF IInv, OrphansOK
    <3>2. Stood(<<r.term, r.from>>[2], <<r.term, r.from>>[1])
      BY <3>1, Zenon DEF StandingOK
    <3> QED
      BY <3>2
  <2> QED
    BY <1>2, <2>1, <2>2 DEF RequestType, Kind
<1>4. /\ V!VStep \/ UNCHANGED V!votingVars
      /\ voteLog \subseteq voteLog'
      /\ \A m \in Node : Opened(currentTerm'[m])
  BY <1>1, <1>2, <1>3, HandleIsAVotingStep, Zenon DEF IInv, StandingOK
<1>5. /\ \A m \in Node : Opened(rpc'[m].rterm)
      /\ \A m \in Node : pc'[m] = "voting" => Stood(m, term'[m])
      /\ \A q \in orphans' : q \in orphans
  BY <1>1, Zenon DEF StandingOK
<1>6. StandingOK'
  BY <1>1, <1>4, <1>5, StandingIsKept, Zenon
<1> QED
  BY <1>4, <1>6, Zenon

\* After a reply was read or lost, the node is in its own term or in the one of
\* the reply; nothing else about standing changes.
LEMMA ReplyKeepsStanding ==
  ASSUME IInv, StandingOK, NEW n \in Node, rpc' = [rpc EXCEPT ![n] = NoRpc],
         \A m \in Node : Opened(currentTerm'[m]),
         \A m \in Node : pc'[m] = "voting" => Stood(m, term'[m]),
         UNCHANGED <<orphans, voteLog>>,
         \A e \in elected' : e \in elected \/ Stood(e[2], e[1])
  PROVE  StandingOK'
<1>1. ASSUME NEW m \in Node PROVE Opened(rpc'[m].rterm)
  <2>1. rpc \in [Node -> Rpc]
    BY Zenon DEF IInv, TypeOK
  <2>2. CASE m = n
    <3>1. rpc'[m].rterm = 0
      BY <2>1, <2>2 DEF NoRpc
    <3> QED
      BY <3>1, Zenon DEF Opened
  <2>3. CASE m # n
    BY <2>1, <2>3, Zenon DEF StandingOK
  <2> QED
    BY <2>2, <2>3, Zenon
<1> QED
  BY <1>1, StandingIsKept, Zenon

\* A reply that carries a newer term moves the node to it.
LEMMA BecomeFollowerMoves ==
  ASSUME IInv, StandingOK, NEW n \in Node, rpc[n].rterm > currentTerm[n],
         become_follower_locked(n, rpc[n].rterm), UNCHANGED <<voteLog, elected>>
  PROVE  V!VStep /\ \A m \in Node : Opened(currentTerm'[m])
<1>1. currentTerm \in [Node -> Nat] /\ rpc[n].rterm \in Nat
  BY SMTT(30) DEF IInv, TypeOK, Rpc
<1>2. currentTerm' = [currentTerm EXCEPT ![n] = rpc[n].rterm]
  BY Zenon DEF become_follower_locked
<1>3. Opened(rpc[n].rterm)
  BY Zenon DEF StandingOK
<1>4. rpc[n].rterm # 0
  BY <1>1
<1>5. PICK c \in Node : Stood(c, rpc[n].rterm)
  BY <1>3, <1>4, Zenon DEF Opened
<1>6. PICK b \in V!Candidacies : b[2] = rpc[n].rterm
  BY <1>5, StandingIsACandidacy, Zenon
<1>7. V!MovesTo(n, b[2])
  BY <1>2, <1>6, Zenon DEF V!MovesTo
<1>8. \A m \in Node : Opened(currentTerm'[m])
  BY <1>1, <1>2, <1>3, Zenon DEF StandingOK
<1> QED
  BY <1>6, <1>7, <1>8, Zenon DEF V!VStep

LEMMA AppendReplyIsAVotingStep ==
  ASSUME IInv, StandingOK, NEW n \in Node, AppendReply(n)
  PROVE  StandingOK' /\ (V!VStep \/ UNCHANGED V!votingVars)
<1>1. /\ rpc' = [rpc EXCEPT ![n] = NoRpc] /\ UNCHANGED <<orphans, voteLog, elected>>
      /\ Return(n) \/ Continue(n, todo[n])
      /\ \/ UNCHANGED currentTerm
         \/ rpc[n].rterm > currentTerm[n] /\ become_follower_locked(n, rpc[n].rterm)
  BY Zenon DEF AppendReply, nodeVars
<1>2. \A m \in Node : pc'[m] = "voting" => Stood(m, term'[m])
  BY <1>1, RoundAsksNothingNew, Zenon DEF IInv
<1>3. /\ V!VStep \/ UNCHANGED V!votingVars
      /\ \A m \in Node : Opened(currentTerm'[m])
  BY <1>1, BecomeFollowerMoves, Zenon DEF StandingOK, V!votingVars
<1> QED
  BY <1>1, <1>2, <1>3, ReplyKeepsStanding, Zenon

LEMMA VoteReplyIsAVotingStep ==
  ASSUME IInv, StandingOK, NEW n \in Node, VoteReply(n)
  PROVE  StandingOK' /\ (V!VStep \/ UNCHANGED V!votingVars)
<1>1. /\ pc[n] = "voting" /\ rpc' = [rpc EXCEPT ![n] = NoRpc]
      /\ UNCHANGED <<orphans, voteLog>>
  BY Zenon DEF VoteReply
<1>2. CASE UNCHANGED <<currentTerm, elected>> /\ (Return(n) \/ Continue(n, todo[n]))
  <2>1. \A m \in Node : pc'[m] = "voting" => Stood(m, term'[m])
    BY <1>2, RoundAsksNothingNew, Zenon DEF IInv
  <2> QED
    BY <1>1, <1>2, <2>1, ReplyKeepsStanding, Zenon DEF StandingOK, V!votingVars
<1>3. CASE /\ rpc[n].rterm > currentTerm[n] /\ become_follower_locked(n, rpc[n].rterm)
           /\ Return(n) /\ UNCHANGED elected
  <2>1. \A m \in Node : pc'[m] = "voting" => Stood(m, term'[m])
    BY <1>3, RoundAsksNothingNew, Zenon DEF IInv
  <2>2. V!VStep /\ \A m \in Node : Opened(currentTerm'[m])
    BY <1>1, <1>3, BecomeFollowerMoves, Zenon
  <2> QED
    BY <1>1, <1>3, <2>1, <2>2, ReplyKeepsStanding, Zenon
<1>4. CASE /\ currentTerm[n] = term[n] /\ UNCHANGED currentTerm
           /\ elected' = elected \cup {<<term[n], n>>}
           /\ pc' = [pc EXCEPT ![n] = "beat"]
           /\ term' = [term EXCEPT ![n] = 0]
  <2>1. Stood(n, term[n])
    BY <1>1, Zenon DEF StandingOK
  <2>2. \A e \in elected' : e \in elected \/ Stood(e[2], e[1])
    BY <1>4, <2>1
  <2>3. ASSUME NEW m \in Node, pc'[m] = "voting" PROVE Stood(m, term'[m])
    <3>1. /\ pc \in [Node -> {"tick", "elect", "voting", "beat", "beating", "stopped"}]
          /\ term \in [Node -> Nat]
      BY Zenon DEF IInv, TypeOK
    <3>2. pc'[m] = pc[m] /\ term'[m] = term[m]
      BY <1>4, <2>3, <3>1
    <3> QED
      BY <2>3, <3>2, Zenon DEF StandingOK
  <2>4. StandingOK'
    BY <1>1, <1>4, <2>2, <2>3, ReplyKeepsStanding, Zenon DEF StandingOK
  <2>5. \E Q \in Majorities : \A v \in Q : <<v, currentTerm[n], n>> \in voteLog
    <3>1. <<term[n], n>> \in elected' /\ ElectedByMajority'
      BY <1>4, VoteReplyKeepsIInv, Zenon DEF IInv, VoteFacts
    <3>2. PICK e \in elected' : e = <<term[n], n>>
      BY <3>1, Zenon
    <3>3. e[1] = currentTerm[n] /\ e[2] = n
      BY <1>4, <3>2
    <3> DEFINE Q == {v \in Node : <<v, e[1], e[2]>> \in voteLog'}
    <3>4. 2 * Cardinality(Q) > Cardinality(Node)
      BY <3>1, Zenon DEF ElectedByMajority, Voters
    <3>5. Q \in Majorities
      BY <3>4, Zenon DEF Majorities
    <3> QED
      BY <1>1, <3>3, <3>5, Zenon
  <2>6. elected' = elected \cup {<<currentTerm[n], n>>}
    BY <1>4, Zenon
  <2>7. V!WinsTerm(n)
    BY <1>1, <1>4, <2>5, <2>6, Zenon DEF V!WinsTerm
  <2> QED
    BY <2>4, <2>7, Zenon DEF V!VStep
<1> QED
  BY <1>1, <1>2, <1>3, <1>4, Zenon DEF VoteReply, VoteReplySuperseded, nodeVars

\* The steps that touch neither terms, votes nor answers.
LEMMA QuietStepKeepsStanding ==
  ASSUME IInv, StandingOK, NEW n \in Node,
         \/ TickElection(n) \/ TickHeartbeat(n) \/ TickExit(n) \/ Stop(n)
         \/ SendHeartbeats(n) \/ ReplyLost(n)
  PROVE  StandingOK' /\ UNCHANGED V!votingVars
<1>1. /\ pc \in [Node -> {"tick", "elect", "voting", "beat", "beating", "stopped"}]
      /\ term \in [Node -> Nat]
  BY Zenon DEF IInv, TypeOK
<1>2. UNCHANGED <<currentTerm, orphans, voteLog, elected>>
  BY Zenon DEF TickElection, TickHeartbeat, TickExit, Stop, SendHeartbeats, ReplyLost, nodeVars
<1>3. UNCHANGED V!votingVars
  BY <1>2, Zenon DEF V!votingVars
<1>4. CASE ReplyLost(n)
  <2>1. rpc' = [rpc EXCEPT ![n] = NoRpc] /\ Continue(n, todo[n])
    BY <1>4, Zenon DEF ReplyLost
  <2>2. \A m \in Node : pc'[m] = "voting" => Stood(m, term'[m])
    BY <2>1, RoundAsksNothingNew, Zenon DEF IInv
  <2>3. \A m \in Node : Opened(currentTerm'[m])
    BY <1>2, Zenon DEF StandingOK
  <2> QED
    BY <1>2, <1>3, <2>1, <2>2, <2>3, ReplyKeepsStanding, Zenon
<1>5. ASSUME rpc' = rpc, \A m \in Node : pc'[m] = "voting" => Stood(m, term'[m])
      PROVE  StandingOK'
  <2>1. (\A m \in Node : Opened(currentTerm'[m])) /\ \A m \in Node : Opened(rpc'[m].rterm)
    BY <1>2, <1>5, Zenon DEF StandingOK
  <2> QED
    BY <1>2, <1>5, <2>1, StandingIsKept, Zenon
<1>6. CASE TickElection(n) \/ TickHeartbeat(n) \/ TickExit(n) \/ Stop(n)
  <2>1. /\ rpc' = rpc /\ term' = term
        /\ \/ pc' = pc
           \/ pc' = [pc EXCEPT ![n] = "elect"]
           \/ pc' = [pc EXCEPT ![n] = "beat"]
           \/ pc' = [pc EXCEPT ![n] = "stopped"]
    BY <1>6, Zenon DEF TickElection, TickHeartbeat, TickExit, Stop, threadVars
  <2>2. ASSUME NEW m \in Node, pc'[m] = "voting" PROVE Stood(m, term'[m])
    <3>1. pc[m] = "voting"
      BY <1>1, <2>1, <2>2
    <3> QED
      BY <2>1, <3>1, Zenon DEF StandingOK
  <2> QED
    BY <1>3, <1>5, <2>1, <2>2, Zenon
<1>7. CASE SendHeartbeats(n)
  <2>1. /\ rpc' = rpc
        /\ \A m \in Node \ {n} : term'[m] = term[m] /\ pc'[m] = pc[m]
        /\ pc'[n] \in {"tick", "beating"}
    BY <1>1, <1>7, Zenon DEF SendHeartbeats, Return
  <2>2. ASSUME NEW m \in Node, pc'[m] = "voting" PROVE Stood(m, term'[m])
    <3>1. m # n
      BY <2>1, <2>2
    <3> QED
      BY <2>1, <2>2, <3>1, Zenon DEF StandingOK
  <2> QED
    BY <1>3, <1>5, <2>1, <2>2, Zenon
<1> QED
  BY <1>4, <1>6, <1>7, Zenon

LEMMA EveryStepIsAVotingStep ==
  IInv /\ StandingOK /\ [Next]_vars => StandingOK' /\ [V!VNext]_(V!votingVars)
<1> SUFFICES ASSUME IInv, StandingOK, [Next]_vars
             PROVE  StandingOK' /\ (V!VStep \/ UNCHANGED V!votingVars)
  BY Zenon DEF V!VNext
<1>1. ASSUME NEW n \in Node, Thread(n) \/ Stop(n)
      PROVE  StandingOK' /\ (V!VStep \/ UNCHANGED V!votingVars)
  BY <1>1, QuietStepKeepsStanding, StartElectionStands, CallPeerIsAVotingStep,
     CallFailsIsNoVotingStep, VoteReplyIsAVotingStep, AppendReplyIsAVotingStep, Zenon
     DEF Thread
<1>2. ASSUME NEW r \in orphans, ServeOrphan(r)
      PROVE  StandingOK' /\ (V!VStep \/ UNCHANGED V!votingVars)
  BY <1>2, ServeOrphanIsAVotingStep, Zenon
<1>3. CASE UNCHANGED vars
  <2>1. UNCHANGED <<currentTerm, rpc, pc, term, orphans, voteLog, elected>>
    BY <1>3, Zenon DEF vars, nodeVars, threadVars
  <2>2. /\ \A m \in Node : Opened(currentTerm'[m])
        /\ \A m \in Node : Opened(rpc'[m].rterm)
        /\ \A m \in Node : pc'[m] = "voting" => Stood(m, term'[m])
    BY <2>1, Zenon DEF StandingOK
  <2> QED
    BY <2>1, <2>2, StandingIsKept, Zenon DEF V!votingVars
<1> QED
  BY <1>1, <1>2, <1>3, Zenon DEF Next

LEMMA InitStands == Init => StandingOK /\ V!VInit
<1> SUFFICES ASSUME Init PROVE StandingOK /\ V!VInit
  OBVIOUS
<1>1. V!VInit
  BY Zenon DEF Init, V!VInit
<1>2. StandingOK
  BY DEF Init, StandingOK, Opened, NoRpc
<1> QED
  BY <1>1, <1>2, Zenon

\* Seen from its terms, votes and winners, every election of raft.cpp is one of
\* Voting: whatever is lost, late or decided on stale state, nodes only stand,
\* vote once for those who stand, learn of terms somebody opened, and win with a
\* majority.
THEOREM ElectionImplementsVoting == Spec => ImplementsVoting
<1>1. Spec => []IInv
  BY InductiveInvariant, Zenon
<1>2. Init => StandingOK /\ V!VInit
  BY InitStands, Zenon
<1>3. IInv /\ StandingOK /\ [Next]_vars => StandingOK' /\ [V!VNext]_(V!votingVars)
  BY EveryStepIsAVotingStep, Zenon
<1> QED
  BY <1>1, <1>2, <1>3, PTL DEF Spec, ImplementsVoting, V!VSpec
=============================================================================
