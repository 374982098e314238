------------------------------ MODULE Elections ------------------------------
(***************************************************************************)
(* Why a cluster elects one leader per term: with a fixed membership it     *)
(* implements Voting, where the reason is an invariant.                     *)
(***************************************************************************)
EXTENDS Cluster

\* The memory, the disks and the network of the cluster, as far as votes are
\* concerned; a quorum of the bootstrap configuration elects.
V == INSTANCE Voting WITH
       Quorum <- {Q \in SUBSET Server : has_quorum(boot, Q)}

\* Every leadership rests on a quorum of votes, each of them on the disk of
\* its voter before it was sent, and no node's votes in one term disagree,
\* whatever crashes, torn cycles and full disks come between (with a fixed
\* membership).
VotesAreKept == V!VotesAreKept

\* Every step of a cluster with a fixed membership is, for votes, an event
\* that changes one node's memory or the end of a batch, which writes the
\* term and vote before it sends the ballots that speak for them.
ImplementsVoting == V!Spec
=============================================================================
