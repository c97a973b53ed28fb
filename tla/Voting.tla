------------------------------- MODULE Voting -------------------------------
(***************************************************************************)
(* What the election of raft.h amounts to, with neither messages, threads  *)
(* nor roles: nodes stand for election, vote for those who stand, and win  *)
(* with a majority.  Only standing opens a term, and a node is never in a  *)
(* term nobody stood in.                                                   *)
(***************************************************************************)
EXTENDS Naturals

CONSTANTS Node,
          Majorities   \* the sets of nodes whose votes win an election

VARIABLES terms,     \* the term each node is in
          ballots,   \* the votes cast: <<voter, term, candidate>>
          winners    \* the elections won: <<term, winner>>

votingVars == <<terms, ballots, winners>>

Candidacies == {b \in ballots : b[1] = b[3]}

VInit == terms = [n \in Node |-> 0] /\ ballots = {} /\ winners = {}

\* A node opens the term after its own and votes for itself.
Stands(n) ==
  /\ terms' = [terms EXCEPT ![n] = @ + 1]
  /\ ballots' = ballots \cup {<<n, terms[n] + 1, n>>}
  /\ UNCHANGED winners

\* A node votes for one that stands, in a term not older than its own and in
\* which it has not voted; it is in that term from then on.
VotesFor(n, b) ==
  /\ b[2] >= terms[n]
  /\ \A d \in ballots : d[1] = n => d[2] < b[2]
  /\ terms' = [terms EXCEPT ![n] = b[2]]
  /\ ballots' = ballots \cup {<<n, b[2], b[3]>>}
  /\ UNCHANGED winners

\* A node learns of a newer term.
MovesTo(n, t) ==
  /\ t > terms[n]
  /\ terms' = [terms EXCEPT ![n] = t]
  /\ UNCHANGED <<ballots, winners>>

\* A node wins the term it is in, with the votes of a majority.
WinsTerm(n) ==
  /\ \E Q \in Majorities : \A v \in Q : <<v, terms[n], n>> \in ballots
  /\ winners' = winners \cup {<<terms[n], n>>}
  /\ UNCHANGED <<terms, ballots>>

VStep ==
  \E n \in Node :
    \/ Stands(n)
    \/ \E b \in Candidacies : VotesFor(n, b) \/ MovesTo(n, b[2])
    \/ WinsTerm(n)

\* Steps that change nothing are the stuttering of VSpec.
VNext == votingVars' # votingVars /\ VStep

VSpec == VInit /\ [][VNext]_votingVars
=============================================================================
