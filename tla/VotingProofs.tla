---------------------------- MODULE VotingProofs ----------------------------
(***************************************************************************)
(* Election Safety of the abstract specification: VotesAreKept is           *)
(* inductive, and where quorums meet it leaves one leader per term.         *)
(***************************************************************************)
EXTENDS Voting, TLAPS

-----------------------------------------------------------------------------
(* The order on terms and votes *)

\* Before is transitive.
LEMMA BeforeTransitive ==
  ASSUME NEW a, NEW b, NEW c, a.term \in Nat, b.term \in Nat, c.term \in Nat,
         Before(a, b), Before(b, c)
  PROVE  Before(a, c)
  BY DEF Before

\* Equal pairs are in order.
LEMMA BeforeReflexive ==
  ASSUME NEW a, NEW b, a.term = b.term, a.vote = b.vote
  PROVE  Before(a, b)
  BY DEF Before

\* Nothing lies strictly between two equal ballots.
LEMMA BeforeBetween ==
  ASSUME NEW a, NEW b, NEW c, a.term \in Nat, b.term \in Nat, c.term = a.term,
         c.vote = a.vote, Before(a, b), Before(b, c)
  PROVE  b.term = a.term /\ b.vote = a.vote
  BY DEF Before

\* Whoever stays goes forward.
LEMMA StaysBefore ==
  ASSUME NEW r, NEW r1, Stays(r, r1)
  PROVE  Before(r, r1)
  BY DEF Stays, Before

-----------------------------------------------------------------------------
(* Votes *)

\* A vote cast has a term and is for a server.
LEMMA BallotType ==
  ASSUME NEW ms, NEW v \in Server, None \notin Server,
         \A m \in ms : m.term \in Nat /\ m.to \in Server, NEW b \in Ballots(ms, v)
  PROVE  b.term \in Nat /\ b.vote # None
  BY DEF Ballots

\* So has every vote of a typed state.
LEMMA VoteTypes ==
  ASSUME None \notin Server, Typed, NEW v \in Server, NEW b \in Public(v) \cup Pending(v)
  PROVE  b.term \in Nat /\ b.vote # None
<1>1. CASE b \in Ballots(net, v)
  BY Zenon, <1>1, BallotType DEF Typed
<1>2. CASE b \in Ballots(raft[v].messages, v)
  BY Zenon, <1>2, BallotType DEF Typed
<1>3. CASE \E e \in elected : b = [term |-> e[1], vote |-> v]
  BY <1>3 DEF Typed
<1> QED
  BY <1>1, <1>2, <1>3 DEF Public, Pending

\* Memory is no earlier than any vote its node has cast.
LEMMA VotesAgree ==
  ASSUME None \notin Server, Typed, VotesAreKept, NEW v \in Server,
         NEW b \in Public(v) \cup Pending(v)
  PROVE  Before(b, raft[v])
<1>1. CASE b \in Public(v)
  <2>1. Before(b, disk[v].hs) /\ Before(disk[v].hs, raft[v])
    BY <1>1 DEF VotesAreKept, VotesWritten, HardStateOrder
  <2>2. b.term \in Nat /\ disk[v].hs.term \in Nat /\ raft[v].term \in Nat
    BY VoteTypes DEF Typed
  <2> QED
    BY Zenon, <2>1, <2>2, BeforeTransitive
<1>2. CASE b \in Pending(v)
  BY <1>2 DEF VotesAreKept, VotesWritten
<1> QED
  BY <1>1, <1>2

\* The votes of a node that keeps its memory and its disk are what they were,
\* when the network only grows and no vote of its own is added to it.
LEMMA SameVotes ==
  ASSUME NEW v \in Server, VotesAreKept, raft'[v] = raft[v], disk'[v] = disk[v],
         net \subseteq net', Public(v)' = Public(v)
  PROVE  HardStateOrder(v)' /\ VotesWritten(v)' /\ BallotsAnswer(v)' /\ Supported(v)'
<1>1. HardStateOrder(v) /\ VotesWritten(v) /\ BallotsAnswer(v) /\ Supported(v)
  BY DEF VotesAreKept
<1>2. HardStateOrder(v)'
  BY Zenon, <1>1 DEF HardStateOrder, Before
<1>3. VotesWritten(v)'
  <2>1. Pending(v)' = Pending(v)
    BY Zenon DEF Pending, Ballots
  <2> QED
    BY Zenon, <1>1, <2>1 DEF VotesWritten, Before
<1>4. BallotsAnswer(v)'
  BY <1>1 DEF BallotsAnswer, Asked
<1>5. Supported(v)'
  <2>1. \A g : Ballots(net, g) \subseteq Ballots(net, g)'
    BY DEF Ballots
  <2> QED
    BY Zenon, <1>1, <2>1 DEF Supported
<1> QED
  BY <1>2, <1>3, <1>4, <1>5

-----------------------------------------------------------------------------
(* Events *)

\* A ballot an event adds: the node's own call for votes, or an answer to a
\* candidate that asked, for the vote it has marked for writing.
Fresh(i, r1, m) ==
  /\ m.from = i /\ m.term = r1.term
  /\ \/ m.body.type = "VoteReq" /\ r1.vote = i /\ r1.hard_state_dirty
     \/ /\ m.body.type = "VoteResp" /\ Asked(m)
        /\ m.body.granted => m.to = r1.vote /\ r1.hard_state_dirty

Advances(i, r1) ==
  /\ r1.persisted_hs = raft[i].persisted_hs
  /\ raft[i].hard_state_dirty => r1.hard_state_dirty
  /\ Before(raft[i], r1)
  /\ \A m \in r1.messages :
       m.body.type \in Ballot => m \in raft[i].messages \/ Fresh(i, r1, m)
  /\ r1.role \in Electing =>
       /\ r1.vote = i
       /\ \A g \in r1.granted \ {i} :
            [term |-> r1.term, vote |-> i] \in Ballots(net, g)
  /\ r1.role = "Leader" =>
       /\ r1.granted \in Quorum
       /\ \/ r1.hard_state_dirty
          \/ disk[i].hs.term = r1.term /\ disk[i].hs.vote = i

\* A calm event advances its node.
LEMMA CalmAdvances ==
  ASSUME VotesAreKept, NEW i \in Server, NEW r1, Calm(raft[i], r1)
  PROVE  Advances(i, r1)
<1>1. Supported(i)
  BY DEF VotesAreKept
<1>2. Before(raft[i], r1)
  BY StaysBefore DEF Calm
<1>3. r1.role \in Electing =>
        /\ r1.term = raft[i].term /\ r1.vote = raft[i].vote
        /\ r1.role = raft[i].role /\ r1.granted = raft[i].granted
  BY Zenon DEF Calm, Stays
<1>4. r1.role = "Leader" => r1.role \in Electing
  BY DEF Electing
<1> QED
  BY <1>1, <1>2, <1>3, <1>4 DEF Advances, Calm, Unwritten, NoBallots, Supported

\* A campaign does.
LEMMA RunsAdvances ==
  ASSUME VotesAreKept, NEW i \in Server, NEW r1, raft[i].id = i, Runs(raft[i], r1)
  PROVE  Advances(i, r1)
<1>1. Before(raft[i], r1)
  BY DEF Runs, Before
<1> QED
  BY <1>1 DEF Advances, Runs, Unwritten, Fresh

\* Answering a request for a vote does.
LEMMA VotesAdvances ==
  ASSUME None \notin Server, VotesAreKept, NEW i \in Server, NEW r1, raft[i].id = i,
         raft[i].term \in Nat,
         NEW m \in net, m.term \in Nat, m.body.type = "VoteReq", Votes(raft[i], r1, m)
  PROVE  Advances(i, r1)
<1>1. Supported(i)
  BY DEF VotesAreKept
<1>2. Before(raft[i], r1)
  BY DEF Votes, Before
<1>3. ASSUME NEW x \in r1.messages, x.body.type \in Ballot
      PROVE  x \in raft[i].messages \/ Fresh(i, r1, x)
  BY <1>3 DEF Votes, Fresh, Asked
<1>4. r1.role \in Electing =>
        /\ r1.term = raft[i].term /\ r1.vote = i
        /\ r1.role = raft[i].role /\ r1.granted = raft[i].granted
  BY <1>1 DEF Votes, Supported, Electing
<1>5. r1.role = "Leader" => r1.role \in Electing
  BY DEF Electing
<1> QED
  BY <1>1, <1>2, <1>3, <1>4, <1>5 DEF Advances, Votes, Unwritten, Supported

\* Counting an answer does.  The candidate asked, so its own vote was written
\* before it did.
LEMMA CountsAdvances ==
  ASSUME Typed, VotesAreKept, NEW i \in Server, NEW r1, NEW m \in net, m.to = i,
         m.body.type = "VoteResp", Counts(raft[i], r1, m)
  PROVE  Advances(i, r1)
<1> DEFINE b == [term |-> raft[i].term, vote |-> i]
<1>1. Supported(i) /\ raft[i].vote = i
  BY DEF VotesAreKept, Supported, Counts, Electing
<1>2. disk[i].hs.term = raft[i].term /\ disk[i].hs.vote = i
  <2>1. PICK q \in net : q.body.type = "VoteReq" /\ q.from = i /\ q.term = m.term
    BY Zenon DEF VotesAreKept, Asked
  <2>2. b \in Ballots(net, i)
    BY <2>1 DEF Ballots, Counts
  <2>3. Before(b, disk[i].hs) /\ Before(disk[i].hs, raft[i])
    BY Zenon, <2>2 DEF VotesAreKept, VotesWritten, HardStateOrder, Public
  <2>4. b.term = raft[i].term /\ b.vote = i
    OBVIOUS
  <2> HIDE DEF b
  <2> QED
    BY <1>1, <2>3, <2>4, BeforeBetween DEF Typed
<1>3. Before(raft[i], r1)
  BY BeforeReflexive DEF Counts
<1>4. m.body.granted => b \in Ballots(net, m.from)
  BY DEF Ballots, Counts
<1>5. \A g \in r1.granted \ {i} : b \in Ballots(net, g)
  BY <1>1, <1>4 DEF Supported, Counts, Electing
<1> QED
  BY <1>1, <1>2, <1>3, <1>5 DEF Advances, Counts, Unwritten, NoBallots

\* So every event does.
LEMMA TakesAdvances ==
  ASSUME None \notin Server, Typed, VotesAreKept, NEW i \in Server, Takes(i)
  PROVE  Advances(i, raft'[i])
<1>1. raft[i].id = i /\ raft[i].term \in Nat /\ \A m \in net : m.term \in Nat
  BY DEF Typed
<1>2. CASE Calm(raft[i], raft'[i])
  BY Zenon, <1>2, CalmAdvances
<1>3. CASE Runs(raft[i], raft'[i])
  BY Zenon, <1>1, <1>3, RunsAdvances
<1>4. ASSUME NEW m \in net, m.body.type = "VoteReq", Votes(raft[i], raft'[i], m)
      PROVE  Advances(i, raft'[i])
  BY Zenon, <1>1, <1>4, VotesAdvances
<1>5. ASSUME NEW m \in net, m.to = i, m.body.type = "VoteResp",
             Counts(raft[i], raft'[i], m)
      PROVE  Advances(i, raft'[i])
  BY Zenon, <1>5, CountsAdvances
<1> QED
  BY Zenon, <1>2, <1>3, <1>4, <1>5 DEF Takes

\* What an advance adds to the votes that wait to be sent is the vote the
\* node now has.
LEMMA PendingGrows ==
  ASSUME NEW i \in Server, Advances(i, raft'[i])
  PROVE  \A b \in Pending(i)' :
           \/ b \in Pending(i)
           \/ /\ raft'[i].hard_state_dirty
              /\ b.term = raft'[i].term /\ b.vote = raft'[i].vote
<1>1. \A m \in raft'[i].messages : m.body.type \in {"VoteReq", "VoteResp"} =>
        m \in raft[i].messages \/ Fresh(i, raft'[i], m)
  BY DEF Advances, Ballot
<1> QED
  BY <1>1 DEF Pending, Ballots, Fresh

\* An event keeps VotesAreKept.
LEMMA TakesKeeps ==
  ASSUME None \notin Server, Typed, Typed', VotesAreKept,
         NEW i \in Server, Alone(i), Takes(i)
  PROVE  VotesAreKept'
<1> DEFINE r1 == raft'[i]
<1>1. Advances(i, r1) /\ UNCHANGED <<disk, net, elected>>
  BY Zenon, TakesAdvances DEF Takes
<1>2. /\ raft[i].term \in Nat /\ r1.term \in Nat /\ disk[i].hs.term \in Nat
      /\ Before(raft[i], r1) /\ r1.persisted_hs = raft[i].persisted_hs
  BY <1>1 DEF Typed, Advances
<1>3. \A v : Public(v)' = Public(v)
  BY <1>1 DEF Public, Ballots
<1>4. \A m : Asked(m)' = Asked(m)
  BY <1>1 DEF Asked
<1>5. ASSUME NEW v \in Server \ {i}
      PROVE  HardStateOrder(v)' /\ VotesWritten(v)' /\ BallotsAnswer(v)' /\ Supported(v)'
  BY <1>1, <1>3, SameVotes DEF Alone
<1>6. HardStateOrder(i)'
  <2>1. Before(raft[i].persisted_hs, disk[i].hs) /\ Before(disk[i].hs, raft[i])
    BY DEF VotesAreKept, HardStateOrder
  <2>2. Before(disk[i].hs, r1)
    BY Zenon, <1>2, <2>1, BeforeTransitive
  <2> QED
    BY Zenon, <1>1, <1>2, <2>1, <2>2 DEF HardStateOrder, Before
<1>7. VotesWritten(i)'
  <2>1. \A b \in Pending(i)' :
          \/ b \in Pending(i)
          \/ r1.hard_state_dirty /\ b.term = r1.term /\ b.vote = r1.vote
    BY Zenon, <1>1, PendingGrows
  <2>2. ASSUME NEW b \in Public(i) \cup Pending(i)
        PROVE  Before(b, r1) /\ b.vote # None
    BY Zenon, <1>2, VotesAgree, VoteTypes, BeforeTransitive
  <2>3. \A b \in Pending(i)' : r1.hard_state_dirty /\ Before(b, r1)
    <3>1. \A b \in Pending(i) : r1.hard_state_dirty
      BY <1>1 DEF VotesAreKept, VotesWritten, Advances
    <3> QED
      BY Zenon, <2>1, <2>2, <3>1, BeforeReflexive
  <2>4. \A b \in Public(i)' : Before(b, disk'[i].hs)
    BY Zenon, <1>1, <1>3 DEF VotesAreKept, VotesWritten
  <2>5. ASSUME NEW a \in Public(i)' \cup Pending(i)', NEW b \in Public(i)' \cup Pending(i)',
               a.term = b.term
        PROVE  a.vote = b.vote
    <3>1. \A c \in Public(i)' \cup Pending(i)' :
            c \in Public(i) \cup Pending(i) \/ (c.term = r1.term /\ c.vote = r1.vote)
      BY Zenon, <1>3, <2>1
    <3>2. \A c \in Public(i) \cup Pending(i) : c.term = r1.term => c.vote = r1.vote
      BY <1>2, <2>2 DEF Before
    <3>3. CASE a \in Public(i) \cup Pending(i) /\ b \in Public(i) \cup Pending(i)
      BY Zenon, <2>5, <3>3 DEF VotesAreKept, VotesWritten
    <3> QED
      BY <2>5, <3>1, <3>2, <3>3
  <2> QED
    BY Zenon, <2>3, <2>4, <2>5 DEF VotesWritten
<1>8. BallotsAnswer(i)'
  BY <1>1, <1>4 DEF BallotsAnswer, Advances, Fresh, VotesAreKept, Ballot
<1>9. Supported(i)'
  BY <1>1 DEF Supported, Advances, Ballots
<1>10. \A m \in net' : m.body.type = "VoteResp" => Asked(m)'
  BY Zenon, <1>1, <1>4 DEF VotesAreKept
<1>11. \A e \in elected' : \E Q \in Quorum :
         \A v \in Q : [term |-> e[1], vote |-> e[2]] \in Public(v)'
  BY Zenon, <1>1, <1>3 DEF VotesAreKept
<1> QED
  BY Zenon, <1>5, <1>6, <1>7, <1>8, <1>9, <1>10, <1>11 DEF VotesAreKept

-----------------------------------------------------------------------------
(* The end of a batch *)

\* What the disk has after a cycle lies between what it had and memory.
LEMMA WrittenOrder ==
  ASSUME Typed, Typed', VotesAreKept, NEW i \in Server, Kept(i) \/ Written(i)
  PROVE  Before(disk[i].hs, disk'[i].hs) /\ Before(disk'[i].hs, raft[i])
<1>1. Before(disk[i].hs, raft[i])
  BY DEF VotesAreKept, HardStateOrder
<1>2. CASE Kept(i)
  BY <1>1, <1>2, BeforeReflexive DEF Kept
<1>3. CASE Saved(i)
  BY <1>1, <1>3 DEF Saved, Before
<1> QED
  BY <1>2, <1>3 DEF Written

\* What a completed cycle leaves on disk is the term and vote in memory, where
\* memory was marked or the node leads.
LEMMA WrittenIsMemory ==
  ASSUME Typed, VotesAreKept, NEW i \in Server, Written(i),
         raft[i].hard_state_dirty \/ raft[i].role = "Leader"
  PROVE  disk'[i].hs.term = raft[i].term /\ disk'[i].hs.vote = raft[i].vote
<1>1. CASE Handed(raft[i])
  BY <1>1 DEF Written, Saved
<1>2. CASE ~Handed(raft[i]) /\ raft[i].hard_state_dirty
  <2> DEFINE p == raft[i].persisted_hs
  <2>1. p.term = raft[i].term /\ p.vote = raft[i].vote
    BY <1>2 DEF Handed
  <2>2. Before(p, disk[i].hs) /\ Before(disk[i].hs, raft[i])
    BY DEF VotesAreKept, HardStateOrder
  <2>3. p.term \in Nat /\ disk[i].hs.term \in Nat
    BY DEF Typed
  <2>4. disk[i].hs.term = p.term /\ disk[i].hs.vote = p.vote
    BY Zenon, <2>1, <2>2, <2>3, BeforeBetween
  <2> QED
    BY <1>2, <2>1, <2>4 DEF Written, Kept
<1>3. CASE raft[i].role = "Leader" /\ ~raft[i].hard_state_dirty
  BY <1>3 DEF Written, Kept, Handed, VotesAreKept, Supported, Electing
<1> QED
  BY <1>1, <1>2, <1>3

\* What the end of a batch leaves at i: a disk between the old one and
\* memory, no ballots, and a role that rests on what it rested on.
Settles(i) ==
  /\ HardStateOrder(i)'
  /\ Before(disk[i].hs, disk'[i].hs)
  /\ \A m \in raft'[i].messages : m.body.type \notin Ballot
  /\ raft'[i].role \in Electing =>
       /\ raft'[i].role = raft[i].role /\ raft'[i].granted = raft[i].granted
       /\ raft'[i].term = raft[i].term /\ raft'[i].vote = raft[i].vote
  /\ raft'[i].role = "Leader" =>
       disk'[i].hs.term = raft[i].term /\ disk'[i].hs.vote = raft[i].vote

\* A node recovered from its disk has settled.
LEMMA RebornSettles ==
  ASSUME Typed, Typed', VotesAreKept, NEW i \in Server, Kept(i) \/ Written(i),
         Reborn(raft'[i], disk'[i], i)
  PROVE  Settles(i)
<1>1. Before(disk[i].hs, disk'[i].hs)
  BY Zenon, WrittenOrder
<1>2. HardStateOrder(i)'
  BY BeforeReflexive DEF HardStateOrder, Reborn, Before
<1> QED
  BY <1>1, <1>2 DEF Settles, Reborn, Electing

\* So has one that goes on.
LEMMA RestsSettles ==
  ASSUME Typed, Typed', VotesAreKept, NEW i \in Server, Kept(i) \/ Written(i),
         NEW p, p.term \in Nat, Rests(i, p), Before(p, disk'[i].hs),
         raft'[i].role = "Leader" => Written(i)
  PROVE  Settles(i)
<1>1. Before(disk[i].hs, disk'[i].hs) /\ Before(disk'[i].hs, raft[i])
  BY Zenon, WrittenOrder
<1>2. Before(raft[i], raft'[i])
  BY Zenon, StaysBefore DEF Rests
<1>3. Before(disk'[i].hs, raft'[i])
  BY <1>1, <1>2, BeforeTransitive DEF Typed
<1>4. HardStateOrder(i)'
  BY Zenon, <1>3 DEF HardStateOrder, Rests, Before
<1>5. raft'[i].role \in Electing =>
        /\ raft'[i].role = raft[i].role /\ raft'[i].granted = raft[i].granted
        /\ raft'[i].term = raft[i].term /\ raft'[i].vote = raft[i].vote
  BY DEF Rests, Stays
<1>6. raft'[i].role = "Leader" =>
        disk'[i].hs.term = raft[i].term /\ disk'[i].hs.vote = raft[i].vote
  BY <1>5, WrittenIsMemory DEF Electing
<1> QED
  BY Zenon, <1>1, <1>4, <1>5, <1>6 DEF Settles, Rests

\* What every end of a batch does to the record of votes.
Spreads(i) ==
  /\ net \subseteq net'
  /\ \A v \in Server \ {i} : Public(v)' = Public(v)
  /\ \A v : Public(v) \subseteq Public(v)'
  /\ \A b \in Public(i)' : Before(b, disk'[i].hs)
  /\ \A a, b \in Public(i)' : a.term = b.term => a.vote = b.vote
  /\ \A m \in net' : m.body.type = "VoteResp" => Asked(m)'
  /\ \A e \in elected' \ elected : \E Q \in Quorum :
       \A v \in Q : [term |-> e[1], vote |-> e[2]] \in Public(v)'

\* The end of a batch keeps VotesAreKept.
LEMMA SettledKeeps ==
  ASSUME VotesAreKept, NEW i \in Server, Alone(i), Settles(i), Spreads(i)
  PROVE  VotesAreKept'
<1>1. \A v : Ballots(net, v) \subseteq Ballots(net, v)'
  BY DEF Spreads, Ballots
<1>2. ASSUME NEW v \in Server \ {i}
      PROVE  HardStateOrder(v)' /\ VotesWritten(v)' /\ BallotsAnswer(v)' /\ Supported(v)'
  BY SameVotes DEF Alone, Spreads
<1>3. VotesWritten(i)'
  <2>1. Pending(i)' = {}
    BY DEF Pending, Ballots, Settles, Ballot
  <2> QED
    BY Zenon, <2>1 DEF VotesWritten, Spreads
<1>4. BallotsAnswer(i)'
  BY DEF BallotsAnswer, Settles, Ballot
<1>5. Supported(i)'
  <2>1. Supported(i)
    BY DEF VotesAreKept
  <2> QED
    BY <1>1, <2>1 DEF Supported, Settles, Electing
<1>6. ASSUME NEW e \in elected'
      PROVE  \E Q \in Quorum : \A v \in Q : [term |-> e[1], vote |-> e[2]] \in Public(v)'
  BY Zenon DEF Spreads, VotesAreKept
<1> QED
  BY Zenon, <1>2, <1>3, <1>4, <1>5, <1>6 DEF VotesAreKept, Settles, Spreads

\* A batch that sends nothing spreads nothing.
LEMMA QuietSpreads ==
  ASSUME None \notin Server, Typed, Typed', VotesAreKept, NEW i \in Server,
         UNCHANGED <<net, elected>>, Settles(i)
  PROVE  Spreads(i)
<1>1. \A v : Public(v)' = Public(v)
  BY DEF Public, Ballots
<1>2. \A m : Asked(m)' = Asked(m)
  BY DEF Asked
<1>3. ASSUME NEW b \in Public(i) PROVE Before(b, disk'[i].hs)
  <2>1. Before(b, disk[i].hs) /\ Before(disk[i].hs, disk'[i].hs)
    BY Zenon DEF VotesAreKept, VotesWritten, Settles
  <2> QED
    BY <2>1, VoteTypes, BeforeTransitive DEF Typed
<1> QED
  BY Zenon, <1>1, <1>2, <1>3 DEF Spreads, VotesAreKept, VotesWritten

\* A batch that sends makes public the votes that waited, and its node's own
\* leadership; they are on disk by then, and a leader is recorded with the
\* quorum it counted.
LEMMA SendSpreads ==
  ASSUME None \notin Server, Typed, Typed', VotesAreKept, NEW i \in Server,
         Sends(i), Settles(i)
  PROVE  Spreads(i)
<1> DEFINE r == raft[i]
           own == [term |-> r.term, vote |-> i]
<1>1. net \subseteq net' /\ \A m \in net' : m \in net \/ m \in r.messages
  BY DEF Sends
<1>2. \A m \in r.messages : m.body.type \in {"VoteReq", "VoteResp"} => m.from = i
  BY DEF VotesAreKept, BallotsAnswer, Ballot
<1>3. \A v \in Server \ {i} : Ballots(net, v)' = Ballots(net, v)
  BY <1>1, <1>2 DEF Ballots
<1>4. \A b \in Ballots(net, i)' : b \in Ballots(net, i) \cup Pending(i)
  BY <1>1 DEF Ballots, Pending
<1>5. elected' = elected \cup (IF r.role = "Leader" THEN {<<r.term, i>>} ELSE {})
  BY DEF Sends
<1>6. \A v \in Server \ {i} : Public(v)' = Public(v)
  <2>1. \A v \in Server \ {i} :
          {e \in elected' : e[2] = v} = {e \in elected : e[2] = v}
    BY <1>5
  <2> QED
    BY Zenon, <1>3, <2>1 DEF Public
<1>7. \A b \in Public(i)' : \/ b \in Public(i) \cup Pending(i)
                            \/ b = own /\ r.role = "Leader"
  BY <1>4, <1>5 DEF Public
<1>8. \A v : Public(v) \subseteq Public(v)'
  BY <1>1, <1>5 DEF Public, Ballots
<1>9. r.role = "Leader" => own \in Public(i)' /\ r.vote = i
  <2>1. r.role = "Leader" => <<r.term, i>> \in elected'
    BY <1>5
  <2>2. r.role = "Leader" => r.vote = i
    BY DEF VotesAreKept, Supported, Electing
  <2> QED
    BY <2>1, <2>2 DEF Public
<1>10. r.role = "Leader" => Before(own, r)
  BY <1>9, BeforeReflexive
<1>11. \A b \in Public(i)' : Before(b, r)
  BY Zenon, <1>7, <1>10, VotesAgree
<1>12. ASSUME NEW b \in Public(i)' PROVE Before(b, disk'[i].hs)
  <2>1. CASE r.hard_state_dirty \/ r.role = "Leader"
    BY <1>11, <2>1, WrittenIsMemory DEF Before, Sends
  <2>2. CASE ~r.hard_state_dirty /\ r.role # "Leader"
    <3>1. b \in Public(i)
      BY <1>7, <2>2 DEF VotesAreKept, VotesWritten
    <3>2. Before(b, disk[i].hs) /\ Before(disk[i].hs, disk'[i].hs)
      BY Zenon, <3>1 DEF VotesAreKept, VotesWritten, Settles
    <3> QED
      BY <3>1, <3>2, VoteTypes, BeforeTransitive DEF Typed
  <2> QED
    BY Zenon, <2>1, <2>2
<1>13. ASSUME NEW a \in Public(i)', NEW b \in Public(i)', a.term = b.term
       PROVE  a.vote = b.vote
  <2>1. CASE a \in Public(i) \cup Pending(i) /\ b \in Public(i) \cup Pending(i)
    BY Zenon, <1>13, <2>1 DEF VotesAreKept, VotesWritten
  <2>2. ASSUME NEW c \in Public(i) \cup Pending(i), c.term = r.term, r.role = "Leader"
        PROVE  c.vote = i
    <3>1. Before(c, r) /\ c.vote # None
      BY Zenon, VotesAgree, VoteTypes
    <3> QED
      BY <1>9, <2>2, <3>1 DEF Before, Typed
  <2> QED
    BY <1>7, <1>13, <2>1, <2>2
<1>14. \A m \in net' : m.body.type = "VoteResp" => Asked(m)'
  <2>1. \A m \in net' : m.body.type = "VoteResp" => Asked(m)
    BY Zenon, <1>1 DEF VotesAreKept, BallotsAnswer
  <2> QED
    BY <1>1, <2>1 DEF Asked
<1>15. ASSUME r.role = "Leader"
       PROVE  r.granted \in Quorum /\ \A v \in r.granted : own \in Public(v)'
  <2>1. r.granted \in Quorum /\ \A v \in r.granted \ {i} : own \in Ballots(net, v)
    BY <1>15 DEF VotesAreKept, Supported, Electing
  <2> QED
    BY Zenon, <1>8, <1>9, <1>15, <2>1 DEF Public
<1>16. ASSUME NEW e \in elected' \ elected
       PROVE  \E Q \in Quorum : \A v \in Q : [term |-> e[1], vote |-> e[2]] \in Public(v)'
  <2>1. r.role = "Leader" /\ e = <<r.term, i>>
    BY <1>5
  <2> QED
    BY <1>15, <2>1
<1> QED
  BY Zenon, <1>1, <1>6, <1>8, <1>12, <1>13, <1>14, <1>16 DEF Spreads

\* A cycle that sent keeps VotesAreKept.
LEMMA SendsKeeps ==
  ASSUME None \notin Server, Typed, Typed', VotesAreKept,
         NEW i \in Server, Alone(i), Sends(i)
  PROVE  VotesAreKept'
<1>1. Written(i)
  BY DEF Sends
<1>2. CASE Reborn(raft'[i], disk'[i], i)
  BY Zenon, <1>1, <1>2, RebornSettles, SendSpreads, SettledKeeps
<1>3. ASSUME NEW p, Rests(i, p),
             p = IF Handed(raft[i]) THEN [term |-> raft[i].term, vote |-> raft[i].vote]
                 ELSE raft[i].persisted_hs
      PROVE  VotesAreKept'
  <2>1. Before(p, disk'[i].hs) /\ p.term \in Nat
    <3>1. CASE Handed(raft[i])
      BY <1>1, <1>3, <3>1, BeforeReflexive DEF Written, Saved, Typed
    <3>2. CASE ~Handed(raft[i])
      BY <1>1, <1>3, <3>2 DEF Written, Kept, Typed, VotesAreKept, HardStateOrder, Before
    <3> QED
      BY <3>1, <3>2
  <2> QED
    BY Zenon, <1>1, <1>3, <2>1, RestsSettles, SendSpreads, SettledKeeps
<1> QED
  BY Zenon, <1>2, <1>3 DEF Sends

\* So does one that ended before.
LEMMA FailsKeeps ==
  ASSUME None \notin Server, Typed, Typed', VotesAreKept,
         NEW i \in Server, Alone(i), Fails(i)
  PROVE  VotesAreKept'
<1>1. Kept(i) \/ Written(i)
  BY DEF Fails
<1>2. UNCHANGED <<net, elected>>
  BY DEF Fails
<1>3. CASE Reborn(raft'[i], disk'[i], i)
  BY Zenon, <1>1, <1>2, <1>3, RebornSettles, QuietSpreads, SettledKeeps
<1>4. CASE Rests(i, raft[i].persisted_hs) /\ (raft'[i].role = "Leader" => Written(i))
  <2>1. Before(raft[i].persisted_hs, disk[i].hs) /\ Before(disk[i].hs, disk'[i].hs)
    BY Zenon, <1>1, WrittenOrder DEF VotesAreKept, HardStateOrder
  <2>2. raft[i].persisted_hs.term \in Nat /\ Before(raft[i].persisted_hs, disk'[i].hs)
    BY <2>1, BeforeTransitive DEF Typed
  <2> QED
    BY Zenon, <1>1, <1>2, <1>4, <2>2, RestsSettles, QuietSpreads, SettledKeeps
<1> QED
  BY Zenon, <1>3, <1>4 DEF Fails

-----------------------------------------------------------------------------
(* Every step *)

\* VotesAreKept holds initially.
LEMMA InitKeeps ==
  ASSUME Init
  PROVE  VotesAreKept
<1>1. ASSUME NEW v \in Server
      PROVE  HardStateOrder(v) /\ VotesWritten(v) /\ BallotsAnswer(v) /\ Supported(v)
  <2>1. Reborn(raft[v], disk[v], v)
    BY DEF Init
  <2>2. Public(v) = {} /\ Pending(v) = {}
    BY <2>1 DEF Init, Public, Pending, Ballots, Reborn
  <2>3. HardStateOrder(v)
    BY <2>1 DEF HardStateOrder, Reborn, Before
  <2> QED
    BY <2>1, <2>2, <2>3 DEF VotesWritten, BallotsAnswer, Supported, Reborn, Electing
<1> QED
  BY Zenon, <1>1 DEF VotesAreKept, Init

\* Every step keeps it, and so does a step that changes nothing.
LEMMA StepKeeps ==
  ASSUME None \notin Server, Typed, Typed', VotesAreKept, [Next]_vars
  PROVE  VotesAreKept'
<1>1. ASSUME NEW i \in Server, Alone(i), Takes(i) \/ Sends(i) \/ Fails(i)
      PROVE  VotesAreKept'
  BY Zenon, <1>1, TakesKeeps, SendsKeeps, FailsKeeps
<1>2. CASE UNCHANGED vars
  <2>1. \A v : Public(v)' = Public(v)
    BY <1>2 DEF Public, Ballots, vars
  <2>2. \A m : Asked(m)' = Asked(m)
    BY <1>2 DEF Asked, vars
  <2>3. raft' = raft /\ disk' = disk /\ net' = net /\ elected' = elected
    BY <1>2 DEF vars
  <2>4. ASSUME NEW v \in Server
        PROVE  HardStateOrder(v)' /\ VotesWritten(v)' /\ BallotsAnswer(v)' /\ Supported(v)'
    BY <2>1, <2>3, SameVotes
  <2> QED
    BY Zenon, <2>1, <2>2, <2>3, <2>4 DEF VotesAreKept
<1> QED
  BY Zenon, <1>1, <1>2 DEF Next

\* The trail of votes is kept by every step of the abstract specification:
\* persist before send, through crashes at any point of the cycle, restarts,
\* and cycles that end part-way.
THEOREM VotingKeepsVotes ==
  ASSUME None \notin Server
  PROVE  Spec /\ []Typed => []VotesAreKept
<1>1. Init => VotesAreKept
  BY InitKeeps
<1>2. Typed /\ Typed' /\ VotesAreKept /\ [Next]_vars => VotesAreKept'
  BY StepKeeps
<1> QED
  BY <1>1, <1>2, PTL DEF Spec

\* One leader per term, from the votes: two leaders of a term would each have
\* a quorum, and the voter in both would have voted twice.
LEMMA KeptVotesElectOne ==
  ASSUME \A P, Q \in Quorum : P \cap Q \cap Server # {}, VotesAreKept
  PROVE  ElectionSafety
<1> SUFFICES ASSUME NEW e \in elected, NEW f \in elected, e[1] = f[1]
             PROVE  e[2] = f[2]
  BY DEF ElectionSafety
<1>1. PICK P \in Quorum : \A v \in P : [term |-> e[1], vote |-> e[2]] \in Public(v)
  BY DEF VotesAreKept
<1>2. PICK Q \in Quorum : \A v \in Q : [term |-> f[1], vote |-> f[2]] \in Public(v)
  BY DEF VotesAreKept
<1>3. PICK v \in Server : v \in P /\ v \in Q
  OBVIOUS
<1>4. VotesWritten(v)
  BY DEF VotesAreKept
<1> QED
  BY <1>1, <1>2, <1>3, <1>4 DEF VotesWritten

\* Where any two quorums share a node, at most one node leads in a term.
THEOREM VotingElectsOne ==
  ASSUME None \notin Server, \A P, Q \in Quorum : P \cap Q \cap Server # {}
  PROVE  Spec /\ []Typed => []ElectionSafety
<1>1. VotesAreKept => ElectionSafety
  BY KeptVotesElectOne
<1> QED
  BY <1>1, VotingKeepsVotes, PTL
=============================================================================
