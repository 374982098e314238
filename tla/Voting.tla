------------------------------- MODULE Voting -------------------------------
(***************************************************************************)
(* What the election of a leader rests on, and nothing else: an abstract    *)
(* specification of a cluster with a fixed membership that Cluster          *)
(* implements.  Of a node it knows the term, the vote, the role, the votes  *)
(* counted, the ballots waiting to be sent and what was acknowledged as     *)
(* written; of a disk the hard state; of the network the ballots.  The      *)
(* records carry other fields, of which nothing is said.                    *)
(*                                                                         *)
(* An event of a node changes its memory only.  Ballots leave, and a        *)
(* leadership becomes known, when a batch ends, and by then the term and    *)
(* vote they speak for are on disk (chronolog/src/node.rs: persist before   *)
(* send).                                                                   *)
(***************************************************************************)
EXTENDS Integers

CONSTANTS
  Server,    \* the nodes
  None,      \* no vote
  Quorum     \* the sets of nodes that elect a leader

VARIABLES
  raft,      \* raft[i]: the memory of node i
  disk,      \* disk[i].hs: the hard state node i has made durable
  net,       \* every message ever sent
  elected    \* <<term, node>> for every leadership that sent messages

vars == <<raft, disk, net, elected>>

Ballot == {"VoteReq", "VoteResp"}
Electing == {"Candidate", "Leader"}

\* Only node i changes.
Alone(i) ==
  \A v \in Server \ {i} : raft'[v] = raft[v] /\ disk'[v] = disk[v]

-----------------------------------------------------------------------------
(* Events *)

\* The node keeps its term and vote, or moves to a later term with no vote,
\* which it marks for writing; it neither starts nor wins an election.
Stays(r, r1) ==
  \/ /\ r1.term = r.term /\ r1.vote = r.vote
     /\ r1.role \notin Electing \/ (r1.role = r.role /\ r1.granted = r.granted)
  \/ /\ r1.term > r.term /\ r1.vote = None
     /\ r1.hard_state_dirty /\ r1.role \notin Electing

\* No event acknowledges a write or undoes a mark.
Unwritten(r, r1) ==
  /\ r1.id = r.id /\ r1.persisted_hs = r.persisted_hs
  /\ r.hard_state_dirty => r1.hard_state_dirty

\* The new messages of r1 are no ballots.
NoBallots(r, r1) ==
  \A m \in r1.messages : m \in r.messages \/ m.body.type \notin Ballot

\* Everything but what follows.
Calm(r, r1) == Unwritten(r, r1) /\ NoBallots(r, r1) /\ Stays(r, r1)

\* Campaigning: r1 stands in a later term with its own vote only, marked for
\* writing, and asks for votes in that term.
Runs(r, r1) ==
  /\ Unwritten(r, r1) /\ r1.hard_state_dirty
  /\ r1.term > r.term /\ r1.vote = r.id
  /\ r1.role \in Electing /\ r1.granted = {r.id}
  /\ r1.role = "Leader" => {r.id} \in Quorum
  /\ \A m \in r1.messages :
       \/ m \in r.messages \/ m.body.type \notin Ballot
       \/ m.body.type = "VoteReq" /\ m.from = r.id /\ m.term = r1.term

\* Answering the request m for a vote in its term: a granted vote is the
\* node's only one there, and is marked for writing.
Votes(r, r1, m) ==
  /\ Unwritten(r, r1)
  /\ r1.term = m.term /\ m.term >= r.term
  /\ r1.role \in Electing =>
       r1.term = r.term /\ r1.role = r.role /\ r1.granted = r.granted
  /\ \/ r1.term = r.term /\ r1.vote = r.vote
     \/ r1.term > r.term /\ r1.vote = None /\ r1.hard_state_dirty
     \/ /\ r1.term = r.term => r.vote \in {None, m.from}
        /\ r1.vote = m.from /\ r1.hard_state_dirty
  /\ \A x \in r1.messages :
       \/ x \in r.messages \/ x.body.type \notin Ballot
       \/ /\ x.from = r.id /\ x.to = m.from /\ x.term = m.term
          /\ x.body.type = "VoteResp"
          /\ x.body.granted => r1.vote = m.from /\ r1.hard_state_dirty

\* Counting the answer m: a candidate adds at most the sender of a granted
\* vote of its term, and leads only on a quorum of what it counted.
Counts(r, r1, m) ==
  /\ Unwritten(r, r1) /\ NoBallots(r, r1)
  /\ r.role = "Candidate" /\ m.term = r.term
  /\ r1.term = r.term /\ r1.vote = r.vote
  /\ r1.granted \subseteq r.granted \cup {v \in {m.from} : m.body.granted}
  /\ r1.role \in Electing
  /\ r1.role = "Leader" => r1.granted \in Quorum

Takes(i) ==
  /\ UNCHANGED <<disk, net, elected>>
  /\ \/ Calm(raft[i], raft'[i])
     \/ Runs(raft[i], raft'[i])
     \/ \E m \in net :
          /\ m.to = i
          /\ \/ m.body.type = "VoteReq" /\ Votes(raft[i], raft'[i], m)
             \/ m.body.type = "VoteResp" /\ Counts(raft[i], raft'[i], m)

-----------------------------------------------------------------------------
(* The end of a batch *)

\* Memory has a hard state to hand over: marked, and not what was last
\* acknowledged.
Handed(r) ==
  r.hard_state_dirty /\ [term |-> r.term, vote |-> r.vote] # r.persisted_hs

\* The disk is as it was, or has the hard state handed over.
Kept(i) == disk'[i].hs = disk[i].hs

Saved(i) == disk'[i].hs.term = raft[i].term /\ disk'[i].hs.vote = raft[i].vote

Written(i) == IF Handed(raft[i]) THEN Saved(i) ELSE Kept(i)

\* The node goes on with no ballots; p is what it takes to be written.
Rests(i, p) ==
  /\ raft'[i].id = i /\ raft'[i].persisted_hs = p
  /\ \A m \in raft'[i].messages : m.body.type \notin Ballot
  /\ Stays(raft[i], raft'[i])

\* The node has restarted from its disk.
Reborn(r1, d1, i) ==
  /\ r1.id = i /\ r1.term = d1.hs.term /\ r1.vote = d1.hs.vote
  /\ r1.persisted_hs = [term |-> d1.hs.term, vote |-> d1.hs.vote]
  /\ r1.role = "Follower" /\ r1.messages = {}

\* The cycle wrote what there was to write, sent what the links carry, and was
\* acknowledged or crashed.
Sends(i) ==
  /\ net \subseteq net' /\ net' \subseteq net \cup raft[i].messages
  /\ elected' = elected \cup
       (IF raft[i].role = "Leader" THEN {<<raft[i].term, i>>} ELSE {})
  /\ Written(i)
  /\ \/ Rests(i, IF Handed(raft[i])
                 THEN [term |-> raft[i].term, vote |-> raft[i].vote]
                 ELSE raft[i].persisted_hs)
     \/ Reborn(raft'[i], disk'[i], i)

\* The cycle ended before anything was sent.  A node that goes on as a leader
\* has its hard state written.
Fails(i) ==
  /\ UNCHANGED <<net, elected>>
  /\ Kept(i) \/ Written(i)
  /\ \/ Reborn(raft'[i], disk'[i], i)
     \/ /\ Rests(i, raft[i].persisted_hs)
        /\ raft'[i].role = "Leader" => Written(i)

Init ==
  /\ \A i \in Server : Reborn(raft[i], disk[i], i)
  /\ net = {} /\ elected = {}

Next == \E i \in Server : Alone(i) /\ (Takes(i) \/ Sends(i) \/ Fails(i))

Spec == Init /\ [][Next]_vars

\* The fields that matter have their types.
Typed ==
  /\ \A v \in Server :
       /\ raft[v].id = v /\ raft[v].term \in Nat
       /\ raft[v].persisted_hs.term \in Nat /\ disk[v].hs.term \in Nat
       /\ \A m \in raft[v].messages : m.term \in Nat /\ m.to \in Server
  /\ \A m \in net : m.term \in Nat /\ m.to \in Server
  /\ \A e \in elected : e[1] \in Nat

-----------------------------------------------------------------------------
(* Why a cluster elects one leader per term: the trail of votes through
   memory, disk and network. *)

\* a and b have a term and a vote; a node at a may have moved on to b.
Before(a, b) ==
  a.term < b.term \/ (a.term = b.term /\ a.vote \in {None, b.vote})

\* The votes v casts with the messages ms: for itself by asking for votes, for
\* others by granting theirs.
Ballots(ms, v) ==
  {[term |-> m.term, vote |-> v] :
     m \in {m \in ms : m.from = v /\ m.body.type = "VoteReq"}}
  \cup
  {[term |-> m.term, vote |-> m.to] :
     m \in {m \in ms : m.from = v /\ m.body.type = "VoteResp" /\ m.body.granted}}

\* Votes others have seen or may see.
Public(v) ==
  Ballots(net, v)
  \cup {[term |-> e[1], vote |-> v] : e \in {e \in elected : e[2] = v}}

\* Votes that leave with v's next cycle.
Pending(v) == Ballots(raft[v].messages, v)

\* What was acknowledged is on disk, and the disk is no later than memory.
HardStateOrder(v) ==
  /\ Before(raft[v].persisted_hs, disk[v].hs)
  /\ Before(disk[v].hs, raft[v])

\* A vote is on disk before anyone can see it, and marked for writing until
\* then; and v votes once in a term.
VotesWritten(v) ==
  /\ \A b \in Public(v) : Before(b, disk[v].hs)
  /\ \A b \in Pending(v) : raft[v].hard_state_dirty /\ Before(b, raft[v])
  /\ \A a, b \in Public(v) \cup Pending(v) : a.term = b.term => a.vote = b.vote

\* v speaks for itself, and answers only candidates that asked.
Asked(m) ==
  \E q \in net : q.body.type = "VoteReq" /\ q.from = m.to /\ q.term = m.term

BallotsAnswer(v) ==
  \A m \in raft[v].messages :
    /\ m.body.type \in Ballot => m.from = v
    /\ m.body.type = "VoteResp" => Asked(m)

\* A candidate counts its own vote and votes that were sent to it; a leader
\* counts a quorum, and its own vote is written or about to be.
Supported(v) ==
  /\ raft[v].role \in Electing =>
       /\ raft[v].vote = v
       /\ \A g \in raft[v].granted \ {v} :
            [term |-> raft[v].term, vote |-> v] \in Ballots(net, g)
  /\ raft[v].role = "Leader" =>
       /\ raft[v].granted \in Quorum
       /\ \/ raft[v].hard_state_dirty
          \/ disk[v].hs.term = raft[v].term /\ disk[v].hs.vote = v

\* Every leadership rests on a quorum of votes, each of them on the disk of
\* its voter before it was sent, and no node's votes in one term disagree,
\* whatever crashes, torn cycles and full disks come between.
VotesAreKept ==
  /\ \A v \in Server : /\ HardStateOrder(v) /\ VotesWritten(v)
                       /\ BallotsAnswer(v) /\ Supported(v)
  /\ \A m \in net : m.body.type = "VoteResp" => Asked(m)
  /\ \A e \in elected : \E Q \in Quorum :
       \A v \in Q : [term |-> e[1], vote |-> e[2]] \in Public(v)

\* At most one node leads in a term.
ElectionSafety == \A e, f \in elected : e[1] = f[1] => e[2] = f[2]
=============================================================================
