------------------------- MODULE LeaderWritesProofs -------------------------
(***************************************************************************)
(* Proofs about LeaderWrites for every finite cluster and any clients.  A  *)
(* behaviour of the cluster with its clients is, seen from the nodes, a    *)
(* behaviour of the election alone, so the election's invariant carries    *)
(* over; what is added is what a client's command remembers.               *)
(***************************************************************************)
EXTENDS LeaderWrites, RaftElectionProofs

\* Clients do not disturb the election: every step of the composition is a step
\* of RaftElection or leaves it alone.
THEOREM ElectionIsUndisturbed == WritesSpec => Spec
<1>1. WritesInit => Init
  BY DEF WritesInit
<1>2. [WritesNext]_allVars => [Next]_vars
  BY DEF WritesNext, ClientStep, CheckLeader, Write, Redirect, allVars
<1> QED
  BY <1>1, <1>2, PTL DEF WritesSpec, Spec

\* A node that was the leader when it was asked had won the term of the answer,
\* and this cannot be undone before the answer is acted on.
WritersWereElected ==
  /\ \A c \in Client :
       /\ cmd[c].step = "write" => <<cmd[c].term, cmd[c].node>> \in elected
       /\ cmd[c].step = "redirect" => cmd[c].node \in Node
  /\ accepted \subseteq elected

WInv == WritesTypeOK /\ WritersWereElected /\ RedirectsToAWinner

\* No step of the election takes a won term away.
LEMMA ElectedOnlyGrows ==
  ASSUME [Next]_vars
  PROVE  elected \subseteq elected'
<1>1. ASSUME NEW n \in Node, VoteReply(n) PROVE elected \subseteq elected'
  BY <1>1 DEF VoteReply
<1>2. ASSUME NEW n \in Node,
             \/ TickElection(n) \/ TickHeartbeat(n) \/ TickExit(n) \/ Stop(n)
             \/ StartElection(n) \/ SendHeartbeats(n) \/ ReplyLost(n) \/ AppendReply(n)
             \/ \E p \in Node : CallFails(n, p) \/ CallPeer(n, p)
      PROVE  UNCHANGED elected
  BY <1>2 DEF TickElection, TickHeartbeat, TickExit, Stop, StartElection, SendHeartbeats,
              ReplyLost, AppendReply, CallFails, CallPeer
<1>3. ASSUME NEW r \in orphans, ServeOrphan(r) PROVE UNCHANGED elected
  BY <1>3 DEF ServeOrphan
<1> QED
  BY <1>1, <1>2, <1>3 DEF Next, Thread, vars

LEMMA StepKeepsWInv ==
  ASSUME IInv, IInv', WInv, [WritesNext]_allVars
  PROVE  WInv'
<1> USE DEF WInv
<1>1. /\ cmd \in [Client -> [step : {"idle", "write", "redirect"},
                             node : Node \cup {None}, term : Nat]]
      /\ accepted \subseteq Nat \X Node /\ redirects \subseteq Node
  BY DEF WritesTypeOK
<1>2. role \in [Node -> Role] /\ currentTerm \in [Node -> Nat] /\ elected \subseteq Nat \X Node
  BY DEF IInv, TypeOK
<1>3. CASE [Next]_vars /\ UNCHANGED clientVars
  <2>1. elected \subseteq elected'
    BY <1>3, ElectedOnlyGrows
  <2> QED
    BY <1>3, <2>1 DEF clientVars, WritesTypeOK, WritersWereElected, RedirectsToAWinner
<1>4. ASSUME NEW c \in Client, NEW n \in Node, CheckLeader(c, n)
      PROVE  WInv'
  <2>1. /\ cmd' = [cmd EXCEPT ![c] = [step |-> IF is_leader(n) THEN "write" ELSE "redirect",
                                      node |-> n, term |-> currentTerm[n]]]
        /\ accepted' = accepted /\ redirects' = redirects /\ elected' = elected
    BY <1>4 DEF CheckLeader, vars
  <2>2. WritesTypeOK'
    BY <1>1, <1>2, <2>1 DEF WritesTypeOK
  <2>3. is_leader(n) => <<currentTerm[n], n>> \in elected
    BY ZenonT(40) DEF is_leader, IInv, VoteFacts, LeadersWereElected
  <2>4. ASSUME NEW d \in Client, cmd'[d].step = "write"
        PROVE  <<cmd'[d].term, cmd'[d].node>> \in elected
    <3>1. CASE d # c
      BY <1>1, <2>1, <2>4, <3>1 DEF WritersWereElected
    <3>2. CASE d = c
      BY <1>1, <2>1, <2>3, <2>4, <3>2
    <3> QED
      BY <3>1, <3>2
  <2>5. \A d \in Client : cmd'[d].step = "redirect" => cmd'[d].node \in Node
    BY <1>1, <2>1 DEF WritersWereElected
  <2> QED
    BY <2>1, <2>2, <2>4, <2>5 DEF WritersWereElected, RedirectsToAWinner
<1>5. ASSUME NEW c \in Client, Write(c) PROVE WInv'
  <2>1. /\ cmd[c].step = "write" /\ cmd' = [cmd EXCEPT ![c] = Idle]
        /\ accepted' = accepted \cup {<<cmd[c].term, cmd[c].node>>}
        /\ redirects' = redirects /\ elected' = elected
    BY <1>5 DEF Write, vars
  <2>2. accepted' \subseteq elected
    BY <2>1 DEF WritersWereElected
  <2>3. WritesTypeOK'
    BY <1>1, <1>2, <2>1, <2>2 DEF WritesTypeOK, Idle
  <2> QED
    BY <1>1, <2>1, <2>2, <2>3 DEF WritersWereElected, RedirectsToAWinner, Idle
<1>6. ASSUME NEW c \in Client, Redirect(c) PROVE WInv'
  <2> DEFINE l == leader_id(cmd[c].node)
             m == cmd[c].node
  <2>1. /\ cmd[c].step = "redirect" /\ cmd' = [cmd EXCEPT ![c] = Idle]
        /\ redirects' = redirects \cup ({l} \ {None})
        /\ accepted' = accepted /\ elected' = elected
    BY <1>6 DEF Redirect, vars
  <2>2. m \in Node
    BY <2>1 DEF WritersWereElected
  <2>3. l # None => <<currentTerm[m], l>> \in elected
    BY <2>2 DEF leader_id, IInv, VoteFacts, ReportedLeaderWonItsTerm
  <2>4. l \in Node \cup {None}
    BY <2>2 DEF leader_id, IInv, TypeOK
  <2>5. l # None => \E e \in elected : e[2] = l
    BY <2>3, <2>4
  <2> HIDE DEF l
  <2>6. redirects' \subseteq Node /\ RedirectsToAWinner'
    BY <1>1, <2>1, <2>4, <2>5 DEF RedirectsToAWinner
  <2>7. WritesTypeOK'
    BY <1>1, <2>1, <2>6 DEF WritesTypeOK, Idle
  <2> QED
    BY <1>1, <2>1, <2>6, <2>7 DEF WritersWereElected, Idle
<1> QED
  BY <1>3, <1>4, <1>5, <1>6 DEF WritesNext, ClientStep, allVars

\* What a command knows about the node it is at stays true while the election
\* goes on under it.
THEOREM WritesInvariant == WritesSpec => []WInv
<1>1. WritesInit => WInv
  BY DEF WritesInit, Init, WInv, WritesTypeOK, WritersWereElected, RedirectsToAWinner, Idle
<1>2. IInv /\ IInv' /\ WInv /\ [WritesNext]_allVars => WInv'
  BY StepKeepsWInv
<1>3. WritesSpec => []IInv
  BY ElectionIsUndisturbed, InductiveInvariant, PTL
<1> QED
  BY <1>1, <1>2, <1>3, PTL DEF WritesSpec

\* The commands in progress are what execute_line() can be in the middle of.
THEOREM CommandsTyped == WritesSpec => []WritesTypeOK
<1>1. WInv => WritesTypeOK
  BY DEF WInv
<1> QED
  BY <1>1, WritesInvariant, PTL

\* Although is_leader() is acted on after the mutex is released, no two nodes
\* apply client writes that were admitted in the same term.
THEOREM WritesHaveOneWriter == WritesSpec => []OneWriterPerTerm
<1>1. IInv /\ WInv => OneWriterPerTerm
  <2> SUFFICES ASSUME IInv, WInv, NEW v \in accepted, NEW w \in accepted, v[1] = w[1]
               PROVE  v[2] = w[2]
    BY DEF OneWriterPerTerm
  <2>1. ElectionSafety
    BY MajoritiesGiveElectionSafety DEF IInv, VoteFacts
  <2>2. v \in elected /\ w \in elected
    BY DEF WInv, WritersWereElected
  <2> QED
    BY <2>1, <2>2 DEF ElectionSafety
<1>2. WritesSpec => []IInv
  BY ElectionIsUndisturbed, InductiveInvariant, PTL
<1> QED
  BY <1>1, <1>2, WritesInvariant, PTL

\* ERR NOTLEADER names nobody or a node that has won an election.
THEOREM RedirectsNameWinners == WritesSpec => []RedirectsToAWinner
<1>1. WInv => RedirectsToAWinner
  BY DEF WInv
<1> QED
  BY <1>1, WritesInvariant, PTL

\* Clients in the cluster do not endanger election safety.
THEOREM StillOneLeaderPerTerm == WritesSpec => []ElectionSafety
BY ElectionIsUndisturbed, AtMostOneLeaderPerTerm, PTL

\* Nor do they let a node stand, vote or win in any other way than Voting allows.
THEOREM StillAVoting == WritesSpec => ImplementsVoting
BY ElectionIsUndisturbed, ElectionImplementsVoting, PTL
=============================================================================
