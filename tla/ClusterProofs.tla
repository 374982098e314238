--------------------------- MODULE ClusterProofs ----------------------------
(***************************************************************************)
(* What every event of a cluster, the end of a batch and a crash do to the *)
(* node that takes them, for any universe of entries and configurations    *)
(* whose nodes obey the laws of Handling; and, with a fixed membership,    *)
(* that VotesAreKept is inductive and elects at most one leader a term.    *)
(***************************************************************************)
EXTENDS Elections, Handling, TLAPS

\* The universe has every entry the cluster's requests put in a log.
Closed(E, C) ==
  /\ Universe(E, C) /\ Laws(E, C) /\ Founded(E, C, boot)
  /\ \A t, n \in Nat : [term |-> t, kind |-> Normal(n)] \in E
  /\ \/ MaxReconfigs = 0
     \/ \A t \in Nat, change \in Changes \cup {LeaveJoint} :
          [term |-> t, kind |-> change] \in E

Used ==
  [elections : 0 .. MaxElections, beats : 0 .. MaxBeats,
   checks : 0 .. MaxChecks, writes : 0 .. MaxWrites, reads : 0 .. MaxReads,
   reconfigs : 0 .. MaxReconfigs, transfers : 0 .. MaxTransfers,
   crashes : 0 .. MaxCrashes, full : 0 .. MaxFull]

Waits == SUBSET [ctx : Nat, floor : Nat]

\* The nodes, their disks and the network.
Machines(E, C) ==
  /\ raft \in [Server -> NodeOf(E, C)] /\ \A i \in Server : raft[i].id = i
  /\ disk \in [Server -> DiskOf(E, C)]
  /\ kv \in [Server -> Seq(E)]
  /\ net \subseteq MsgOf(E, C)

\* The commits of a set are at indices up to a highest one.
Bounded(S) == \E n \in Nat : \A c \in S : c.index <= n

\* The rest of the state.
Ledgers(E) ==
  /\ alive \in [Server -> BOOLEAN] /\ led \in [Server -> BOOLEAN]
  /\ waiting \in [Server -> Waits]
  /\ batch \in [node : Server \cup {None}, size : 0 .. MaxBatch]
  /\ used \in Used
  /\ elected \subseteq Nat \X Server
  /\ committed \subseteq [index : Nat, entry : E, term : Nat]
  /\ Bounded(committed)
  /\ durable \in [Server -> Nat]
  /\ forgot \in BOOLEAN
  /\ served \subseteq [floor : Nat, seen : Nat]

Typed(E, C) == Machines(E, C) /\ Ledgers(E)

-----------------------------------------------------------------------------
\* A fresh disk has its type, whatever the universe.
LEMMA FreshDiskType ==
  ASSUME NEW E, NEW C
  PROVE  FreshDisk \in DiskOf(E, C)
  BY DEF FreshDisk, DiskOf, HardState, Vote, reset_to

\* The leaders a batch makes known are pairs of a term and a node.
LEMMA LedTyped ==
  ASSUME NEW i \in Server, raft[i].term \in Nat, elected \subseteq Nat \X Server, Led(i)
  PROVE  elected' \subseteq Nat \X Server
  BY DEF Led

-----------------------------------------------------------------------------
(* Events *)

\* What an event may do to the part of a node that decides elections: nothing,
\* start a campaign, answer a request for a vote, count an answer.
Moves(E, C, i, r1) ==
  \/ Calm(raft[i], r1)
  \/ Runs(C, raft[i], r1)
  \/ \E m \in Inbox(i), r \in NodeOf(E, C) :
       /\ Calm(raft[i], r) /\ r.term = m.term
       /\ \/ m.body.type = "VoteReq" /\ Votes(r, r1, m)
          \/ m.body.type = "VoteResp" /\ Counts(C, r, r1, m)

\* Node i takes an event of that kind.
Takes(E, C, i) ==
  \E r1 \in NodeOf(E, C), w \in Waits, u \in Used :
    Event(i, r1, w, u) /\ Moves(E, C, i, r1)

\* A node that steps takes an event.
LEMMA StepTakes ==
  ASSUME NEW E, NEW C, Typed(E, C), NEW i \in Server, NEW r1 \in NodeOf(E, C),
         Step(i, r1), Moves(E, C, i, r1)
  PROVE  Takes(E, C, i)
<1>1. waiting[i] \in Waits /\ used \in Used
  BY DEF Typed, Ledgers
<1> QED
  BY <1>1 DEF Takes, Step

\* Counting an event keeps the counters within their bounds.
LEMMA UsedUpdates ==
  ASSUME ClusterAssumption, NEW u \in Used
  PROVE  /\ u.elections < MaxElections => [u EXCEPT !.elections = @ + 1] \in Used
         /\ u.writes < MaxWrites => [u EXCEPT !.writes = @ + 1] \in Used
         /\ u.reads < MaxReads => [u EXCEPT !.reads = @ + 1] \in Used
         /\ u.reconfigs < MaxReconfigs => [u EXCEPT !.reconfigs = @ + 1] \in Used
         /\ u.transfers < MaxTransfers => [u EXCEPT !.transfers = @ + 1] \in Used
         /\ u.crashes < MaxCrashes => [u EXCEPT !.crashes = @ + 1] \in Used
         /\ u.full < MaxFull => [u EXCEPT !.full = @ + 1] \in Used
         /\ \A beat, check \in BOOLEAN :
              (beat => u.beats < MaxBeats) /\ (check => u.checks < MaxChecks)
                => [u EXCEPT !.beats = IF beat THEN @ + 1 ELSE @,
                             !.checks = IF check THEN @ + 1 ELSE @] \in Used
<1>1. /\ MaxElections \in Nat /\ MaxBeats \in Nat /\ MaxChecks \in Nat
      /\ MaxWrites \in Nat /\ MaxReads \in Nat /\ MaxReconfigs \in Nat
      /\ MaxTransfers \in Nat /\ MaxCrashes \in Nat /\ MaxFull \in Nat
  BY DEF ClusterAssumption
<1>2. ASSUME NEW beat \in BOOLEAN, NEW check \in BOOLEAN,
             beat => u.beats < MaxBeats, check => u.checks < MaxChecks
      PROVE  [u EXCEPT !.beats = IF beat THEN @ + 1 ELSE @,
                       !.checks = IF check THEN @ + 1 ELSE @] \in Used
  <2> DEFINE b == IF beat THEN u.beats + 1 ELSE u.beats
             c == IF check THEN u.checks + 1 ELSE u.checks
  <2>1. b \in 0 .. MaxBeats /\ c \in 0 .. MaxChecks
    BY <1>1, <1>2 DEF Used
  <2>2. [u EXCEPT !.beats = IF beat THEN @ + 1 ELSE @,
                  !.checks = IF check THEN @ + 1 ELSE @]
        = [u EXCEPT !.beats = b, !.checks = c]
    BY DEF Used
  <2> HIDE DEF b, c
  <2>3. [u EXCEPT !.beats = b, !.checks = c] \in Used
    BY Zenon, <2>1 DEF Used
  <2> QED
    BY <2>2, <2>3
<1>3. u.elections < MaxElections => [u EXCEPT !.elections = @ + 1] \in Used
  BY <1>1 DEF Used
<1>4. u.writes < MaxWrites => [u EXCEPT !.writes = @ + 1] \in Used
  BY <1>1 DEF Used
<1>5. u.reads < MaxReads => [u EXCEPT !.reads = @ + 1] \in Used
  BY <1>1 DEF Used
<1>6. u.reconfigs < MaxReconfigs => [u EXCEPT !.reconfigs = @ + 1] \in Used
  BY <1>1 DEF Used
<1>7. u.transfers < MaxTransfers => [u EXCEPT !.transfers = @ + 1] \in Used
  BY <1>1 DEF Used
<1>8. u.crashes < MaxCrashes => [u EXCEPT !.crashes = @ + 1] \in Used
  BY <1>1 DEF Used
<1>9. u.full < MaxFull => [u EXCEPT !.full = @ + 1] \in Used
  BY <1>1 DEF Used
<1> QED
  BY ZenonT(60), <1>2, <1>3, <1>4, <1>5, <1>6, <1>7, <1>8, <1>9

\* The floor of a read is an index.
LEMMA FloorType ==
  ASSUME Counting, NEW E, Ledgers(E)
  PROVE  Max({0} \cup {c.index : c \in committed}) \in Nat
<1> DEFINE S == {0} \cup {c.index : c \in committed}
<1>1. S \in SUBSET Nat /\ S # {}
  BY DEF Ledgers
<1>2. PICK n \in Nat : \A c \in committed : c.index <= n
  BY Zenon DEF Ledgers, Bounded
<1>3. \A y \in S : y <= n
  BY <1>2
<1> HIDE DEF S
<1>4. Max(S) \in S
  BY Zenon, <1>1, <1>3 DEF Counting
<1> QED
  BY <1>1, <1>4 DEF S

\* Every event a node takes is one of those moves.
LEMMA TicksTake ==
  ASSUME ClusterAssumption, NEW E, NEW C, Closed(E, C), Typed(E, C),
         NEW i \in Server, LeaderTick(i) \/ ElectionTimeout(i) \/ QuietTick(i)
  PROVE  Takes(E, C, i)
<1>leaderTickLaw. LeaderTickLaw(E, C)
  BY Zenon DEF Closed, Laws
<1>startElectionLaw. StartElectionLaw(E, C)
  BY Zenon DEF Closed, Laws
<1>calmLaw. CalmLaw(E, C)
  BY Zenon DEF Closed, Laws
<1>1. /\ raft[i] \in NodeOf(E, C) /\ waiting[i] \in Waits /\ used \in Used
      /\ Universe(E, C)
  BY DEF Typed, Machines, Ledgers, Closed
<1>2. CASE LeaderTick(i)
  <2>1. PICK beat \in BOOLEAN, check \in BOOLEAN, expired \in SUBSET InFlight(raft[i]) :
          /\ beat => used.beats < MaxBeats
          /\ check => used.checks < MaxChecks
          /\ Event(i, leader_tick(raft[i], beat, check, expired), waiting[i],
                   [used EXCEPT !.beats = IF beat THEN @ + 1 ELSE @,
                                !.checks = IF check THEN @ + 1 ELSE @])
    BY ZenonT(60), <1>2 DEF LeaderTick
  <2> DEFINE r1 == leader_tick(raft[i], beat, check, expired)
             u == [used EXCEPT !.beats = IF beat THEN @ + 1 ELSE @,
                               !.checks = IF check THEN @ + 1 ELSE @]
  <2>2. u \in Used
    BY ZenonT(60), <1>1, <2>1, UsedUpdates
  <2>3. r1 \in NodeOf(E, C) /\ Calm(raft[i], r1)
    BY <1>1, <1>leaderTickLaw DEF LeaderTickLaw
  <2>4. Event(i, r1, waiting[i], u)
    BY <2>1
  <2> HIDE DEF r1, u
  <2> QED
    BY <1>1, <2>2, <2>3, <2>4 DEF Takes, Moves
<1>3. CASE ElectionTimeout(i)
  <2> DEFINE r1 == start_election(raft[i])
             u == [used EXCEPT !.elections = @ + 1]
  <2>1. Event(i, r1, waiting[i], u) /\ used.elections < MaxElections
    BY <1>3 DEF ElectionTimeout
  <2>2. u \in Used
    BY Zenon, <1>1, <2>1, UsedUpdates
  <2>3. r1 \in NodeOf(E, C) /\ (Calm(raft[i], r1) \/ Runs(C, raft[i], r1))
    BY <1>1, <1>startElectionLaw DEF StartElectionLaw
  <2> HIDE DEF r1, u
  <2> QED
    BY <1>1, <2>1, <2>2, <2>3 DEF Takes, Moves
<1>4. CASE QuietTick(i)
  BY <1>1, <1>4, <1>calmLaw, StepTakes DEF CalmLaw, QuietTick, Moves
<1> QED
  BY <1>2, <1>3, <1>4

\* Requests of clients and administrators are events of the expected kind.
LEMMA RequestsTake ==
  ASSUME ClusterAssumption, NEW E, NEW C, Closed(E, C), Typed(E, C),
         NEW i \in Server,
         ClientWrite(i) \/ ClientRead(i) \/ Admin(i) \/ TransferLeadership(i)
  PROVE  Takes(E, C, i)
<1>proposeLaw. ProposeLaw(E, C)
  BY Zenon DEF Closed, Laws
<1>readIndexLaw. ReadIndexLaw(E, C)
  BY Zenon DEF Closed, Laws
<1>sendLaw. SendLaw(E, C)
  BY Zenon DEF Closed, Laws
<1>1. /\ raft[i] \in NodeOf(E, C) /\ waiting[i] \in Waits /\ used \in Used
      /\ Universe(E, C) /\ raft[i].term \in Nat
  BY Zenon DEF Typed, Machines, Ledgers, Closed, NodeOf
<1>2. CASE ClientWrite(i)
  <2> DEFINE kind == Normal(used.writes + 1)
             r1 == propose(raft[i], kind)
             u == [used EXCEPT !.writes = @ + 1]
  <2>1. Event(i, r1, waiting[i], u) /\ used.writes < MaxWrites
    BY <1>2 DEF ClientWrite
  <2>2. used.writes + 1 \in Nat
    BY <1>1 DEF Used, ClusterAssumption
  <2>3. [term |-> raft[i].term, kind |-> kind] \in E
    BY <1>1, <2>2 DEF Closed
  <2> HIDE DEF kind
  <2>4. u \in Used
    BY ZenonT(60), <1>1, <2>1, UsedUpdates
  <2>5. r1 \in NodeOf(E, C) /\ Calm(raft[i], r1)
    BY <1>1, <2>3, <1>proposeLaw DEF ProposeLaw
  <2> HIDE DEF r1, u
  <2> QED
    BY <1>1, <2>1, <2>4, <2>5 DEF Takes, Moves
<1>3. CASE ClientRead(i)
  <2> DEFINE r1 == read_index(raft[i])
             floor == Max({0} \cup {c.index : c \in committed})
             w == waiting[i] \cup {[ctx |-> r1.read_ctx, floor |-> floor]}
             u == [used EXCEPT !.reads = @ + 1]
  <2>1. Event(i, r1, w, u) /\ used.reads < MaxReads
    BY <1>3 DEF ClientRead
  <2>2. floor \in Nat
    BY Zenon, FloorType DEF Typed, Closed, Universe
  <2>3. u \in Used
    BY Zenon, <1>1, <2>1, UsedUpdates
  <2>4. r1 \in NodeOf(E, C) /\ Calm(raft[i], r1) /\ r1.read_ctx \in Nat
    BY <1>1, <1>readIndexLaw DEF ReadIndexLaw
  <2> HIDE DEF r1, u, floor
  <2>5. w \in Waits
    BY <1>1, <2>2, <2>4 DEF Waits
  <2> HIDE DEF w
  <2> QED
    BY <2>1, <2>3, <2>4, <2>5 DEF Takes, Moves
<1>4. CASE Admin(i)
  <2>1. PICK change \in Changes \cup {LeaveJoint} :
          /\ used.reconfigs < MaxReconfigs
          /\ Event(i, propose_config(raft[i], change), waiting[i],
                   [used EXCEPT !.reconfigs = @ + 1])
    BY <1>4 DEF Admin
  <2> DEFINE r1 == propose_config(raft[i], change)
             u == [used EXCEPT !.reconfigs = @ + 1]
  <2>2. MaxReconfigs # 0
    BY <1>1, <2>1 DEF Used
  <2>3. [term |-> raft[i].term, kind |-> change] \in E
    BY <1>1, <2>2 DEF Closed
  <2>4. u \in Used
    BY Zenon, <1>1, <2>1, UsedUpdates
  <2>5. r1 \in NodeOf(E, C) /\ Calm(raft[i], r1)
    BY <1>1, <2>3, <1>proposeLaw DEF ProposeLaw
  <2>6. Event(i, r1, waiting[i], u)
    BY <2>1
  <2> HIDE DEF r1, u
  <2> QED
    BY <1>1, <2>4, <2>5, <2>6 DEF Takes, Moves
<1>5. CASE TransferLeadership(i)
  <2>1. PICK target \in Server \ {i} :
          Event(i, transfer_leadership(raft[i], target), waiting[i],
                [used EXCEPT !.transfers = @ + 1])
    BY <1>5 DEF TransferLeadership
  <2> DEFINE r1 == transfer_leadership(raft[i], target)
             body == [type |-> "TimeoutNow"]
             u == [used EXCEPT !.transfers = @ + 1]
  <2>2. u \in Used
    BY ZenonT(60), <1>1, <1>5, UsedUpdates DEF TransferLeadership
  <2>3. body \in BodyOf(E, C) /\ body.type \notin {"VoteReq", "VoteResp"}
    BY DEF BodyOf
  <2>4. r1 = send(raft[i], target, body)
    BY DEF transfer_leadership
  <2>5. Event(i, r1, waiting[i], u)
    BY <2>1
  <2> HIDE DEF r1, u, body
  <2>6. r1 \in NodeOf(E, C) /\ Calm(raft[i], r1)
    BY <1>1, <2>3, <2>4, <1>sendLaw DEF SendLaw
  <2> QED
    BY <1>1, <2>2, <2>5, <2>6 DEF Takes, Moves
<1> QED
  BY <1>2, <1>3, <1>4, <1>5

\* Observing the term of a message, then a calm step or a campaign, is such a move.
LEMMA ObservedCalm ==
  ASSUME NEW E, NEW C, Closed(E, C), Typed(E, C), NEW i \in Server,
         NEW m \in Inbox(i), NEW r1 \in NodeOf(E, C), NEW r \in NodeOf(E, C),
         r = observe_term(raft[i], m), Calm(r, r1) \/ Runs(C, r, r1)
  PROVE  Moves(E, C, i, r1)
<1>observeTermLaw. ObserveTermLaw(E, C)
  BY Zenon DEF Closed, Laws
<1>calmLaw. CalmLaw(E, C)
  BY Zenon DEF Closed, Laws
<1>1. raft[i] \in NodeOf(E, C) /\ m \in MsgOf(E, C)
  BY DEF Typed, Machines, Inbox
<1>2. Calm(raft[i], r)
  BY <1>1, <1>observeTermLaw DEF ObserveTermLaw
<1>3. CASE Calm(r, r1)
  BY <1>1, <1>2, <1>3, <1>calmLaw DEF CalmLaw, Moves
<1>4. CASE Runs(C, r, r1)
  BY <1>1, <1>2, <1>4, <1>calmLaw DEF CalmLaw, Moves
<1> QED
  BY <1>3, <1>4

\* So are deliveries of messages.
LEMMA DeliveriesTake ==
  ASSUME NEW E, NEW C, Closed(E, C), Typed(E, C), NEW i \in Server,
         NEW m \in Inbox(i), Deliver(i, m)
  PROVE  Takes(E, C, i)
<1>observeTermLaw. ObserveTermLaw(E, C)
  BY Zenon DEF Closed, Laws
<1>rejectStaleLaw. RejectStaleLaw(E, C)
  BY Zenon DEF Closed, Laws
<1>preVoteReqLaw. PreVoteReqLaw(E, C)
  BY Zenon DEF Closed, Laws
<1>preVoteRespLaw. PreVoteRespLaw(E, C)
  BY Zenon DEF Closed, Laws
<1>voteReqLaw. VoteReqLaw(E, C)
  BY Zenon DEF Closed, Laws
<1>voteRespLaw. VoteRespLaw(E, C)
  BY Zenon DEF Closed, Laws
<1>handleAppendLaw. HandleAppendLaw(E, C)
  BY Zenon DEF Closed, Laws
<1>appendRespLaw. AppendRespLaw(E, C)
  BY Zenon DEF Closed, Laws
<1>handleSnapshotLaw. HandleSnapshotLaw(E, C)
  BY Zenon DEF Closed, Laws
<1>snapshotRespLaw. SnapshotRespLaw(E, C)
  BY Zenon DEF Closed, Laws
<1>handleHeartbeatLaw. HandleHeartbeatLaw(E, C)
  BY Zenon DEF Closed, Laws
<1>heartbeatRespLaw. HeartbeatRespLaw(E, C)
  BY Zenon DEF Closed, Laws
<1>timeoutNowLaw. TimeoutNowLaw(E, C)
  BY Zenon DEF Closed, Laws
<1> DEFINE r == observe_term(raft[i], m)
<1>1. /\ raft[i] \in NodeOf(E, C) /\ m \in MsgOf(E, C) /\ Universe(E, C)
      /\ r \in NodeOf(E, C) /\ Calm(raft[i], r)
  BY <1>observeTermLaw DEF ObserveTermLaw, Typed, Machines, Closed, Inbox
<1>2. r = observe_term(raft[i], m)
  OBVIOUS
<1>3. m.body.type \in {"VoteReq", "VoteResp"} /\ m.term >= raft[i].term
        => r.term = m.term
  BY <1>1, <1>observeTermLaw DEF ObserveTermLaw, is_pre_vote
<1>a. CASE StaleTerm(i, m)
  <2> DEFINE r1 == reject_stale(raft[i], m)
  <2>1. Step(i, r1) /\ r1 \in NodeOf(E, C) /\ Calm(raft[i], r1)
    BY ZenonT(60), <1>1, <1>a, <1>rejectStaleLaw DEF RejectStaleLaw, StaleTerm
  <2> HIDE DEF r1
  <2> QED
    BY <2>1, StepTakes DEF Moves
<1>b. CASE PreVoteRequest(i, m)
  <2>1. PICK recent \in BOOLEAN : Step(i, handle_pre_vote_req(raft[i], m, recent))
    BY <1>b DEF PreVoteRequest
  <2> DEFINE r1 == handle_pre_vote_req(raft[i], m, recent)
  <2>2. Step(i, r1) /\ r1 \in NodeOf(E, C) /\ Calm(raft[i], r1)
    BY ZenonT(60), <1>1, <2>1, <1>preVoteReqLaw DEF PreVoteReqLaw
  <2> HIDE DEF r1
  <2> QED
    BY <2>2, StepTakes DEF Moves
<1>c. CASE PreVoteResponse(i, m)
  <2> DEFINE r1 == handle_pre_vote_resp(raft[i], m)
  <2>1. Step(i, r1) /\ m.body.type = "PreVoteResp"
    BY <1>c DEF PreVoteResponse, Receives
  <2>2. r1 \in NodeOf(E, C) /\ (Calm(raft[i], r1) \/ Runs(C, raft[i], r1))
    BY <1>1, <2>1, <1>preVoteRespLaw DEF PreVoteRespLaw
  <2> HIDE DEF r1
  <2> QED
    BY <2>1, <2>2, StepTakes DEF Moves
<1> HIDE DEF r
<1>d. CASE VoteRequest(i, m)
  <2> DEFINE r1 == handle_vote_req(r, m)
  <2>1. Step(i, r1) /\ m.body.type = "VoteReq" /\ m.term >= raft[i].term
    BY <1>2, <1>d DEF VoteRequest, Receives
  <2>2. r1 \in NodeOf(E, C) /\ Votes(r, r1, m)
    BY <1>1, <1>voteReqLaw DEF VoteReqLaw
  <2> HIDE DEF r1
  <2>3. Moves(E, C, i, r1)
    BY <1>1, <1>3, <2>1, <2>2 DEF Moves
  <2> QED
    BY <2>1, <2>2, <2>3, StepTakes
<1>e. CASE VoteResponse(i, m)
  <2> DEFINE r1 == handle_vote_resp(r, m)
  <2>1. Step(i, r1) /\ m.body.type = "VoteResp" /\ m.term >= raft[i].term
    BY <1>2, <1>e DEF VoteResponse, Receives
  <2>2. r1 \in NodeOf(E, C) /\ (Calm(r, r1) \/ Counts(C, r, r1, m))
    BY ZenonT(60), <1>1, <2>1, <1>voteRespLaw DEF VoteRespLaw
  <2> HIDE DEF r1
  <2>3. CASE Calm(r, r1)
    BY <1>1, <1>2, <2>1, <2>2, <2>3, ObservedCalm, StepTakes
  <2>4. CASE Counts(C, r, r1, m)
    <3>1. Moves(E, C, i, r1)
      BY <1>1, <1>3, <2>1, <2>4 DEF Moves
    <3> QED
      BY <2>1, <2>2, <3>1, StepTakes
  <2> QED
    BY <2>2, <2>3, <2>4
<1>f. ASSUME NEW r1 \in NodeOf(E, C), Step(i, r1), Calm(r, r1) \/ Runs(C, r, r1)
      PROVE  Takes(E, C, i)
  BY <1>1, <1>2, <1>f, ObservedCalm, StepTakes
<1>g. CASE AppendRequest(i, m)
  <2>1. m.body.type = "AppendReq" /\ Step(i, handle_append(r, m))
    BY ZenonT(60), <1>2, <1>g DEF AppendRequest, Receives
  <2>2. handle_append(r, m) \in NodeOf(E, C) /\ Calm(r, handle_append(r, m))
    BY <1>1, <2>1, <1>handleAppendLaw DEF HandleAppendLaw
  <2> QED
    BY <1>f, <2>1, <2>2
<1>h. CASE AppendResponse(i, m)
  <2>1. m.body.type = "AppendResp" /\ Step(i, handle_append_resp(r, m))
    BY ZenonT(60), <1>2, <1>h DEF AppendResponse, Receives
  <2>2. handle_append_resp(r, m) \in NodeOf(E, C) /\ Calm(r, handle_append_resp(r, m))
    BY <1>1, <2>1, <1>appendRespLaw DEF AppendRespLaw
  <2> QED
    BY <1>f, <2>1, <2>2
<1>i. CASE SnapshotRequest(i, m)
  <2>1. m.body.type = "SnapshotReq" /\ Step(i, handle_snapshot(r, m))
    BY <1>2, <1>i DEF SnapshotRequest, Receives
  <2>2. handle_snapshot(r, m) \in NodeOf(E, C) /\ Calm(r, handle_snapshot(r, m))
    BY ZenonT(60), <1>1, <2>1, <1>handleSnapshotLaw DEF HandleSnapshotLaw
  <2> QED
    BY <1>f, <2>1, <2>2
<1>j. CASE SnapshotResponse(i, m)
  <2>1. m.body.type = "SnapshotResp" /\ Step(i, handle_snapshot_resp(r, m))
    BY <1>2, <1>j DEF SnapshotResponse, Receives
  <2>2. /\ handle_snapshot_resp(r, m) \in NodeOf(E, C)
        /\ Calm(r, handle_snapshot_resp(r, m))
    BY <1>1, <2>1, <1>snapshotRespLaw DEF SnapshotRespLaw
  <2> QED
    BY <1>f, <2>1, <2>2
<1>k. CASE HeartbeatRequest(i, m)
  <2>1. m.body.type = "HeartbeatReq" /\ Step(i, handle_heartbeat(r, m))
    BY <1>2, <1>k DEF HeartbeatRequest, Receives
  <2>2. handle_heartbeat(r, m) \in NodeOf(E, C) /\ Calm(r, handle_heartbeat(r, m))
    BY <1>1, <2>1, <1>handleHeartbeatLaw DEF HandleHeartbeatLaw
  <2> QED
    BY <1>f, <2>1, <2>2
<1>l. CASE HeartbeatResponse(i, m)
  <2>1. m.body.type = "HeartbeatResp" /\ Step(i, handle_heartbeat_resp(r, m))
    BY <1>2, <1>l DEF HeartbeatResponse, Receives
  <2>2. /\ handle_heartbeat_resp(r, m) \in NodeOf(E, C)
        /\ Calm(r, handle_heartbeat_resp(r, m))
    BY <1>1, <2>1, <1>heartbeatRespLaw DEF HeartbeatRespLaw
  <2> QED
    BY <1>f, <2>1, <2>2
<1>m. CASE TimeoutNow(i, m)
  <2>1. Step(i, handle_timeout_now(r))
    BY <1>2, <1>m DEF TimeoutNow
  <2>2. /\ handle_timeout_now(r) \in NodeOf(E, C)
        /\ Calm(r, handle_timeout_now(r)) \/ Runs(C, r, handle_timeout_now(r))
    BY <1>1, <1>timeoutNowLaw DEF TimeoutNowLaw
  <2> QED
    BY <1>f, <2>1, <2>2
<1> QED
  BY <1>a, <1>b, <1>c, <1>d, <1>e, <1>g, <1>h, <1>i, <1>j, <1>k, <1>l, <1>m
     DEF Deliver

\* An event keeps the types.
LEMMA EventTyped ==
  ASSUME ClusterAssumption, NEW E, NEW C, Typed(E, C), NEW i \in Listening,
         NEW r1 \in NodeOf(E, C), NEW w \in Waits, NEW u \in Used, r1.id = i,
         Event(i, r1, w, u)
  PROVE  Typed(E, C)'
<1>1. i \in Server /\ batch.size < MaxBatch
  BY DEF Listening
<1>2. Machines(E, C)'
  BY ZenonT(60), <1>1 DEF Typed, Machines, Event
<1>3. batch' \in [node : Server \cup {None}, size : 0 .. MaxBatch]
  BY <1>1 DEF Typed, Ledgers, Event, ClusterAssumption
<1>4. waiting' \in [Server -> Waits] /\ used' \in Used
  BY <1>1 DEF Typed, Ledgers, Event
<1>5. Ledgers(E)'
  BY <1>3, <1>4 DEF Typed, Ledgers, Event, history
<1> QED
  BY <1>2, <1>5 DEF Typed

-----------------------------------------------------------------------------
(* The end of a batch *)

\* The hard state on disk once the cycle has written it.
Written(i) == HsWritten(disk[i], ready(raft[i]))

\* The budget is within its bounds before anything happens.
LEMMA UnspentType ==
  ASSUME ClusterAssumption
  PROVE  Unspent \in Used
  BY DEF Unspent, Used, ClusterAssumption

\* A sequence has a length.
LEMMA LengthType ==
  ASSUME NEW E, NEW s \in Seq(E)
  PROVE  Len(s) \in Nat
  OBVIOUS

\* The empty batch is a batch.
LEMMA IdleType ==
  ASSUME ClusterAssumption
  PROVE  Idle \in [node : Server \cup {None}, size : 0 .. MaxBatch]
  BY DEF Idle, ClusterAssumption

\* The messages leave with the hard state written, or nothing leaves and the
\* hard state on disk is the old one or the new one.
Ends(E, C, i) ==
  \E r1 \in NodeOf(E, C), d1 \in DiskOf(E, C), k \in Seq(E) :
    /\ raft' = [raft EXCEPT ![i] = r1]
    /\ disk' = [disk EXCEPT ![i] = d1]
    /\ kv' = [kv EXCEPT ![i] = k]
    /\ \/ /\ net' = net \cup Carried(raft[i].messages) /\ Led(i)
          /\ d1.hs = Written(i)
          /\ Calm(wiped(raft[i]), r1) \/ Reborn(i, r1, d1)
       \/ /\ UNCHANGED <<net, elected>>
          /\ d1.hs \in HsAfter(disk[i], ready(raft[i]))
          /\ \/ Reborn(i, r1, d1)
             \/ /\ Calm(emptied(raft[i]), r1)
                /\ r1.role = "Leader" => d1.hs = Written(i)

\* Calm steps keep the identity of the node.
LEMMA CalmKeepsId ==
  ASSUME NEW E, NEW C, NEW r \in NodeOf(E, C), NEW r1,
         Calm(emptied(r), r1) \/ Calm(wiped(r), r1)
  PROVE  r1.id = r.id
  BY DEF Calm, emptied, wiped, acknowledged, NodeOf

\* The end of a batch keeps the types of nodes, disks and stores.
LEMMA EndsTyped ==
  ASSUME NEW E, NEW C, Typed(E, C), NEW i \in Server, Ends(E, C, i)
  PROVE  Machines(E, C)'
<1>1. PICK r1 \in NodeOf(E, C), d1 \in DiskOf(E, C), k \in Seq(E) :
        /\ raft' = [raft EXCEPT ![i] = r1]
        /\ disk' = [disk EXCEPT ![i] = d1]
        /\ kv' = [kv EXCEPT ![i] = k]
        /\ net' = net \cup Carried(raft[i].messages) \/ UNCHANGED net
        /\ \/ Calm(wiped(raft[i]), r1) \/ Calm(emptied(raft[i]), r1)
           \/ Reborn(i, r1, d1)
  BY Zenon DEF Ends
<1>2. /\ raft \in [Server -> NodeOf(E, C)] /\ \A j \in Server : raft[j].id = j
      /\ disk \in [Server -> DiskOf(E, C)] /\ kv \in [Server -> Seq(E)]
      /\ net \subseteq MsgOf(E, C)
  BY DEF Typed, Machines
<1>3. r1.id = i
  <2>1. raft[i] \in NodeOf(E, C) /\ raft[i].id = i
    BY Zenon, <1>2
  <2>2. CASE Calm(wiped(raft[i]), r1) \/ Calm(emptied(raft[i]), r1)
    <3>1. r1.id = raft[i].id
      BY Zenon, <2>1, <2>2, CalmKeepsId
    <3> QED
      BY Zenon, <2>1, <3>1
  <2>3. CASE Reborn(i, r1, d1)
    BY Zenon, <2>3 DEF Reborn
  <2> QED
    BY Zenon, <1>1, <2>2, <2>3
<1>4. raft[i].messages \subseteq MsgOf(E, C)
  BY <1>2 DEF NodeOf
<1>5. net' \subseteq MsgOf(E, C)
  BY Zenon, <1>1, <1>2, <1>4 DEF Carried
<1>6. raft' \in [Server -> NodeOf(E, C)] /\ \A j \in Server : raft'[j].id = j
  BY <1>1, <1>2, <1>3
<1>7. disk' \in [Server -> DiskOf(E, C)] /\ kv' \in [Server -> Seq(E)]
  BY <1>1, <1>2
<1> QED
  BY <1>5, <1>6, <1>7 DEF Machines

\* The position of an index in a log that starts after base.
LEMMA IndexWithin ==
  ASSUME NEW base \in Nat, NEW n \in Nat, NEW k \in base + 1 .. base + n
  PROVE  k - base \in 1 .. n /\ k \in Nat
  OBVIOUS

\* What a cycle sees committed are entries at indices up to its commit index.
LEMMA SeenCommittedType ==
  ASSUME NEW E, NEW C, NEW l \in LogOf(E, C), NEW r \in NodeOf(E, C)
  PROVE  /\ SeenCommitted(l, r) \subseteq [index : Nat, entry : E, term : Nat]
         /\ \A c \in SeenCommitted(l, r) : c.index <= r.commit
<1> DEFINE K == {k \in first_index(l) .. last_index(l) :
                   /\ k <= r.commit
                   /\ \A c \in committed :
                        ~(c.index = k /\ c.entry = l.entries[k - l.snapshot_index])}
           at(k) == [index |-> k, entry |-> l.entries[k - l.snapshot_index],
                     term |-> r.term]
<1>1. SeenCommitted(l, r) = {at(k) : k \in K}
  BY DEF SeenCommitted
<1>2. /\ l.snapshot_index \in Nat /\ l.entries \in Seq(E)
      /\ first_index(l) = l.snapshot_index + 1
      /\ last_index(l) = l.snapshot_index + Len(l.entries)
      /\ Len(l.entries) \in Nat /\ r.term \in Nat
  BY DEF NodeOf, LogOf, first_index, last_index
<1>3. ASSUME NEW k \in K
      PROVE  at(k) \in [index : Nat, entry : E, term : Nat] /\ at(k).index <= r.commit
  <2>1. k \in first_index(l) .. last_index(l) /\ k <= r.commit
    OBVIOUS
  <2>2. k - l.snapshot_index \in 1 .. Len(l.entries) /\ k \in Nat
    BY <1>2, <2>1, IndexWithin
  <2>3. l.entries[k - l.snapshot_index] \in E
    BY <1>2, <2>2
  <2> QED
    BY <1>2, <2>1, <2>2, <2>3
<1> HIDE DEF at, K
<1> QED
  BY Zenon, <1>1, <1>3

\* The durable high-water mark stays an index.
LEMMA HighWaterType ==
  ASSUME Counting, NEW a \in Nat, NEW b \in Nat
  PROVE  Max({a, b}) \in Nat
<1>1. Max({a, b}) \in {a, b}
  <2>1. {a, b} \in SUBSET Nat /\ {a, b} # {} /\ a + b \in Nat
    OBVIOUS
  <2>2. \A y \in {a, b} : y <= a + b
    OBVIOUS
  <2> QED
    BY Zenon, <2>1, <2>2 DEF Counting
<1> QED
  BY <1>1

\* What the model records when a cycle publishes has its type.
LEMMA PublishTyped ==
  ASSUME Counting, NEW E, NEW C, Typed(E, C), NEW i \in Server,
         NEW r \in NodeOf(E, C), Within(r), Publish(i, r)
  PROVE  /\ elected' \subseteq Nat \X Server
         /\ committed' \subseteq [index : Nat, entry : E, term : Nat]
         /\ Bounded(committed')
         /\ durable' \in [Server -> Nat]
<1>1. raft[i] \in NodeOf(E, C) /\ raft[i].term \in Nat /\ raft[i].log \in LogOf(E, C)
  BY Zenon DEF Typed, Machines, NodeOf
<1>2. elected' \subseteq Nat \X Server
  BY <1>1 DEF Publish, Led, Typed, Ledgers
<1>3. /\ committed' \subseteq [index : Nat, entry : E, term : Nat]
      /\ Bounded(committed')
  <2> DEFINE S == SeenCommitted(raft[i].log, r)
  <2>1. /\ S \subseteq [index : Nat, entry : E, term : Nat]
        /\ \A c \in S : c.index <= r.commit
    BY Zenon, <1>1, SeenCommittedType
  <2>2. committed' = committed \cup S
    BY DEF Publish
  <2> HIDE DEF S
  <2>3. PICK n \in Nat : \A c \in committed : c.index <= n
    BY Zenon DEF Typed, Ledgers, Bounded
  <2>4. r.commit \in Nat /\ n + r.commit \in Nat
    BY DEF NodeOf
  <2>5. committed \subseteq [index : Nat, entry : E, term : Nat]
    BY Zenon DEF Typed, Ledgers
  <2>6. \A c \in committed' : c.index <= n + r.commit
    BY <2>1, <2>2, <2>3, <2>4, <2>5
  <2> QED
    BY Zenon, <2>1, <2>2, <2>4, <2>5, <2>6 DEF Bounded
<1>4. durable' \in [Server -> Nat]
  <2> DEFINE b == IF r.persisted < r.commit THEN r.persisted ELSE r.commit
  <2>1. b \in Nat /\ durable[i] \in Nat
    BY DEF NodeOf, Typed, Ledgers
  <2>2. durable' = [durable EXCEPT ![i] = Max({durable[i], b})]
    BY DEF Publish
  <2> HIDE DEF b
  <2>3. Max({durable[i], b}) \in Nat
    BY Zenon, <2>1, HighWaterType
  <2> QED
    BY <2>2, <2>3 DEF Typed, Ledgers
<1> QED
  BY <1>2, <1>3, <1>4

\* A cycle of the driver ends the batch.
LEMMA CycleEnds ==
  ASSUME ClusterAssumption, NEW E, NEW C, Closed(E, C), Typed(E, C), NEW i \in Server, Cycle(i)
  PROVE  Ends(E, C, i) /\ Ledgers(E)'
<1>cycleLaw. CycleLaw(E, C)
  BY Zenon DEF Closed, Laws
<1>readyLaw. ReadyLaw(E, C)
  BY Zenon DEF Closed, Laws
<1> DEFINE rd == ready(raft[i])
           answered == {q \in Kept(i) : \E x \in rd.reads : x.ctx = q.ctx}
<1>1. /\ raft[i] \in NodeOf(E, C) /\ disk[i] \in DiskOf(E, C) /\ kv[i] \in Seq(E)
      /\ Universe(E, C)
  BY ZenonT(60) DEF Typed, Machines, Closed
<1>a. PICK c \in {cycle(raft[i], disk[i], kv[i])} :
        /\ raft' = [raft EXCEPT ![i] = c.raft]
        /\ disk' = [disk EXCEPT ![i] = c.disk]
        /\ kv' = [kv EXCEPT ![i] = c.kv]
        /\ served' = served \cup
             {[floor |-> q.floor, seen |-> Len(c.kv)] : q \in answered}
        /\ Publish(i, c.raft)
  BY Zenon DEF Cycle
<1>b. /\ led' = [led EXCEPT ![i] = raft[i].role = "Leader"]
      /\ waiting' = [waiting EXCEPT ![i] = Kept(i) \ answered]
      /\ net' = net \cup Carried(rd.messages)
      /\ batch' = Idle /\ UNCHANGED <<alive, used, forgot>>
  BY Zenon DEF Cycle
<1>2. /\ raft' = [raft EXCEPT ![i] = c.raft]
      /\ disk' = [disk EXCEPT ![i] = c.disk]
      /\ kv' = [kv EXCEPT ![i] = c.kv]
      /\ served' = served \cup
           {[floor |-> q.floor, seen |-> Len(c.kv)] : q \in answered}
      /\ Publish(i, c.raft)
      /\ led' = [led EXCEPT ![i] = raft[i].role = "Leader"]
      /\ waiting' = [waiting EXCEPT ![i] = Kept(i) \ answered]
      /\ net' = net \cup Carried(rd.messages)
      /\ batch' = Idle /\ UNCHANGED <<alive, used, forgot>>
  BY Zenon, <1>a, <1>b
<1>c. Cycled(E, C, raft[i], disk[i], c)
  BY Zenon, <1>1, <1>cycleLaw DEF CycleLaw
<1>3. /\ c.raft \in NodeOf(E, C) /\ Calm(wiped(raft[i]), c.raft) /\ Within(c.raft)
      /\ c.disk \in DiskOf(E, C) /\ c.kv \in Seq(E) /\ c.disk.hs = Written(i)
  BY Zenon, <1>c DEF Written, Cycled
<1>4. rd.messages = raft[i].messages
  BY ZenonT(60), <1>1, <1>readyLaw DEF ReadyLaw
<1>5. answered \subseteq Kept(i) /\ Kept(i) \in Waits
  BY DEF Kept, Typed, Ledgers, Waits
<1> HIDE DEF rd, answered
<1>6. Ends(E, C, i)
  BY Zenon, <1>2, <1>3, <1>4 DEF Ends, Publish
<1>7. served' \subseteq [floor : Nat, seen : Nat]
  <2>1. Len(c.kv) \in Nat
    BY Zenon, <1>3, LengthType
  <2>2. \A q \in answered : q.floor \in Nat
    BY <1>5 DEF Waits
  <2> QED
    BY <1>2, <2>1, <2>2 DEF Typed, Ledgers
<1>8. waiting' \in [Server -> Waits] /\ led' \in [Server -> BOOLEAN]
  <2>1. Kept(i) \ answered \in Waits /\ (raft[i].role = "Leader") \in BOOLEAN
    BY <1>5 DEF Waits
  <2> QED
    BY ZenonT(60), <1>2, <2>1 DEF Typed, Ledgers
<1>9. batch' \in [node : Server \cup {None}, size : 0 .. MaxBatch]
  BY ZenonT(60), <1>2, IdleType
<1>10. /\ elected' \subseteq Nat \X Server
       /\ committed' \subseteq [index : Nat, entry : E, term : Nat]
       /\ Bounded(committed') /\ durable' \in [Server -> Nat]
  BY ZenonT(60), <1>2, <1>3, PublishTyped DEF Closed, Universe
<1>11. alive' \in [Server -> BOOLEAN] /\ used' \in Used /\ forgot' \in BOOLEAN
  BY ZenonT(60), <1>2 DEF Typed, Ledgers
<1> QED
  BY <1>6, <1>7, <1>8, <1>9, <1>10, <1>11 DEF Ledgers

\* A driver that gives up ends the batch.
LEMMA DriverStopsEnds ==
  ASSUME ClusterAssumption, NEW E, NEW C, Closed(E, C), Typed(E, C),
         NEW i \in Server, DriverStops(i)
  PROVE  Ends(E, C, i) /\ Ledgers(E)'
<1>readyLaw. ReadyLaw(E, C)
  BY Zenon DEF Closed, Laws
<1>installedKvLaw. InstalledKvLaw(E, C)
  BY Zenon DEF Closed, Laws
<1>votedLaw. VotedLaw(E, C)
  BY Zenon DEF Closed, Laws
<1> DEFINE rd == ready(raft[i])
           cut == raft[i].dirty_from
           r1 == after_ready(raft[i])
           d1 == voted(disk[i], rd, cut)
           k == installed_kv(kv[i], rd)
<1>1. /\ raft[i] \in NodeOf(E, C) /\ disk[i] \in DiskOf(E, C) /\ kv[i] \in Seq(E)
      /\ cut \in Nat
  BY ZenonT(60) DEF Typed, Machines, NodeOf
<1>2. /\ raft' = [raft EXCEPT ![i] = r1] /\ disk' = [disk EXCEPT ![i] = d1]
      /\ kv' = [kv EXCEPT ![i] = k] /\ alive' = [alive EXCEPT ![i] = FALSE]
      /\ batch' = Idle /\ UNCHANGED <<led, waiting, net, used, history>>
  BY ZenonT(60) DEF DriverStops
<1>3. rd \in ReadyOf(E, C)
  BY ZenonT(60), <1>1, <1>readyLaw DEF ReadyLaw
<1>4. Written(i) = HsWritten(disk[i], rd)
  BY Zenon DEF Written
<1>5. Written(i) \in HsAfter(disk[i], rd)
  BY Zenon, <1>4 DEF HsAfter, HsWritten
<1>6. r1 \in NodeOf(E, C) /\ Calm(emptied(raft[i]), r1)
  BY ZenonT(60), <1>1, <1>readyLaw DEF ReadyLaw
<1> HIDE DEF r1, cut
<1>7. k \in Seq(E)
  BY ZenonT(60), <1>1, <1>3, <1>installedKvLaw DEF InstalledKvLaw
<1>8. d1 \in DiskOf(E, C) /\ d1.hs = Written(i)
  <2>1. Balloted(E, C, disk[i], rd, d1)
    BY Zenon, <1>1, <1>3, <1>votedLaw DEF VotedLaw
  <2> HIDE DEF d1, rd
  <2> QED
    BY Zenon, <1>4, <2>1 DEF Balloted
<1> HIDE DEF d1, k
<1>9. Ends(E, C, i)
  BY ZenonT(60), <1>2, <1>5, <1>6, <1>7, <1>8 DEF Ends, history
<1>10. batch' \in [node : Server \cup {None}, size : 0 .. MaxBatch]
  BY ZenonT(60), <1>2, IdleType
<1>11. alive' \in [Server -> BOOLEAN]
  BY Zenon, <1>2 DEF Typed, Ledgers
<1> QED
  BY ZenonT(60), <1>2, <1>9, <1>10, <1>11 DEF Typed, Ledgers, history

\* A cycle that meets a full disk ends the batch.
LEMMA DiskFullEnds ==
  ASSUME ClusterAssumption, NEW E, NEW C, Closed(E, C), Typed(E, C),
         NEW i \in Server, DiskFull(i)
  PROVE  Ends(E, C, i) /\ Ledgers(E)'
<1>readyLaw. ReadyLaw(E, C)
  BY Zenon DEF Closed, Laws
<1>stepDownLaw. StepDownLaw(E, C)
  BY Zenon DEF Closed, Laws
<1>calmLaw. CalmLaw(E, C)
  BY Zenon DEF Closed, Laws
<1>fullDisksLaw. FullDisksLaw(E, C)
  BY Zenon DEF Closed, Laws
<1>takeSnapshotLaw. TakeSnapshotLaw(E, C)
  BY Zenon DEF Closed, Laws
<1> DEFINE rd == ready(raft[i])
           cut == raft[i].dirty_from
           a == after_ready(raft[i])
           r1 == step_down(a)
           l == r1.log
           s == kv[i]
           d == disk[i]
           freed(f) == IF can_snapshot(r1) /\ safe_to_compact(r1, f.disk)
                       THEN {take_snapshot(r1, f.disk, f.kv)} ELSE {}
<1>1. /\ raft[i] \in NodeOf(E, C) /\ d \in DiskOf(E, C) /\ s \in Seq(E)
      /\ cut \in Nat /\ Universe(E, C)
  BY ZenonT(60) DEF Typed, Machines, NodeOf, Closed
<1>2. rd \in ReadyOf(E, C)
  BY Zenon, <1>1, <1>readyLaw DEF ReadyLaw
<1>3. PICK f \in FullDisks(d, rd, cut, l, s) :
        \E h \in {[raft |-> r1, disk |-> f.disk]} \cup freed(f) :
          /\ raft' = [raft EXCEPT ![i] = h.raft]
          /\ disk' = [disk EXCEPT ![i] = h.disk]
          /\ kv' = [kv EXCEPT ![i] = f.kv]
  BY Zenon DEF DiskFull
<1>4. PICK h \in {[raft |-> r1, disk |-> f.disk]} \cup freed(f) :
        /\ raft' = [raft EXCEPT ![i] = h.raft]
        /\ disk' = [disk EXCEPT ![i] = h.disk]
        /\ kv' = [kv EXCEPT ![i] = f.kv]
  BY Zenon, <1>3
<1>5. /\ led' = [led EXCEPT ![i] = raft[i].role = "Leader"]
      /\ waiting' = [waiting EXCEPT ![i] = Kept(i)]
      /\ used' = [used EXCEPT !.full = @ + 1] /\ used.full < MaxFull
      /\ batch' = Idle /\ UNCHANGED <<alive, net, history>>
  BY DEF DiskFull
<1>6. /\ a \in NodeOf(E, C) /\ emptied(raft[i]) \in NodeOf(E, C)
      /\ Calm(emptied(raft[i]), a)
  BY ZenonT(60), <1>1, <1>readyLaw DEF ReadyLaw
<1> HIDE DEF a
<1>7. r1 \in NodeOf(E, C) /\ Calm(a, r1) /\ r1.role # "Leader"
  <2>1. r1 \in NodeOf(E, C) /\ Calm(a, r1)
    BY ZenonT(60), <1>6, <1>stepDownLaw DEF StepDownLaw
  <2>2. r1.role # "Leader"
    BY <1>6 DEF step_down, become_follower, NodeOf
  <2> QED
    BY ZenonT(60), <2>1, <2>2
<1>8. Calm(emptied(raft[i]), r1)
  BY ZenonT(60), <1>6, <1>7, <1>calmLaw DEF CalmLaw
<1> HIDE DEF r1
<1>9. l \in LogOf(E, C)
  BY ZenonT(60), <1>7 DEF NodeOf
<1> HIDE DEF l, s, d, cut
<1>10. /\ f.disk \in DiskOf(E, C) /\ f.disk.hs \in HsAfter(d, rd)
       /\ f.kv \in Seq(E)
  BY ZenonT(60), <1>1, <1>2, <1>9, <1>fullDisksLaw DEF FullDisksLaw
<1>11. /\ h.raft \in NodeOf(E, C) /\ Calm(r1, h.raft) /\ h.raft.role = r1.role
       /\ h.disk \in DiskOf(E, C) /\ h.disk.hs = f.disk.hs
  <2>1. CASE h = [raft |-> r1, disk |-> f.disk]
    BY ZenonT(60), <1>7, <1>10, <2>1, <1>calmLaw DEF CalmLaw
  <2>2. CASE h \in freed(f)
    <3>1. can_snapshot(r1) /\ h = take_snapshot(r1, f.disk, f.kv)
      BY ZenonT(60), <2>2
    <3> DEFINE d1 == f.disk
               k == f.kv
    <3>2. d1 \in DiskOf(E, C) /\ k \in Seq(E) /\ h = take_snapshot(r1, d1, k)
      BY ZenonT(60), <1>10, <3>1
    <3> HIDE DEF d1, k
    <3>3. /\ h.raft \in NodeOf(E, C) /\ Calm(r1, h.raft) /\ h.raft.role = r1.role
          /\ h.disk \in DiskOf(E, C) /\ h.disk.hs = d1.hs
      <4>1. Snapped(E, C, r1, d1, h)
        BY Zenon, <1>1, <1>7, <3>1, <3>2, <1>takeSnapshotLaw DEF TakeSnapshotLaw
      <4> QED
        BY Zenon, <4>1 DEF Snapped
    <3> QED
      BY ZenonT(60), <3>3 DEF d1
  <2> QED
    BY ZenonT(60), <1>4, <2>1, <2>2
<1>12. Calm(emptied(raft[i]), h.raft)
  BY ZenonT(60), <1>6, <1>7, <1>8, <1>11, <1>calmLaw DEF CalmLaw
<1>13. h.raft.role # "Leader" /\ h.disk.hs \in HsAfter(disk[i], ready(raft[i]))
  BY ZenonT(60), <1>7, <1>10, <1>11 DEF d
<1>14. Ends(E, C, i)
  BY Zenon, <1>4, <1>5, <1>10, <1>11, <1>12, <1>13 DEF Ends, history
<1>15. batch' \in [node : Server \cup {None}, size : 0 .. MaxBatch]
  BY <1>5, IdleType
<1>16. waiting' \in [Server -> Waits] /\ led' \in [Server -> BOOLEAN]
  <2>1. Kept(i) \in Waits /\ (raft[i].role = "Leader") \in BOOLEAN
    BY ZenonT(60) DEF Kept, Typed, Ledgers, Waits
  <2> QED
    BY ZenonT(60), <1>5, <2>1 DEF Typed, Ledgers
<1>17. used' \in Used
  BY Zenon, <1>5, UsedUpdates DEF Typed, Ledgers
<1> QED
  BY <1>5, <1>14, <1>15, <1>16, <1>17 DEF Typed, Ledgers, history

-----------------------------------------------------------------------------
(* Crashes *)

\* Recovery from any disk gives a typed node that stands for no election.
LEMMA RestartEffect ==
  ASSUME ClusterAssumption, NEW E, NEW C, Closed(E, C), Typed(E, C),
         NEW i \in Server, NEW d \in DiskOf(E, C), Restart(i, d),
         elected' \subseteq Nat \X Server, forgot' \in BOOLEAN
  PROVE  /\ recover(i, d, boot) \in NodeOf(E, C)
         /\ Reborn(i, recover(i, d, boot), d)
         /\ recovered_kv(d) \in Seq(E)
         /\ Ledgers(E)'
<1>recoverLaw. RecoverLaw(E, C)
  BY Zenon DEF Closed, Laws
<1>1. recover(i, d, boot) \in NodeOf(E, C) /\ Reborn(i, recover(i, d, boot), d)
  BY Zenon, <1>recoverLaw DEF RecoverLaw, Closed
<1>2. recovered_kv(d) \in Seq(E)
  BY <1>recoverLaw DEF RecoverLaw
<1>3. used' \in Used
  BY Zenon, UsedUpdates DEF Restart, Typed, Ledgers
<1>4. batch' \in [node : Server \cup {None}, size : 0 .. MaxBatch]
  BY IdleType DEF Restart
<1>5. /\ alive' \in [Server -> BOOLEAN] /\ led' \in [Server -> BOOLEAN]
      /\ waiting' \in [Server -> Waits]
  <2>1. recoverable(d) \in BOOLEAN
    BY DEF recoverable
  <2> QED
    BY <2>1 DEF Restart, Typed, Ledgers, Waits
<1> QED
  BY Zenon, <1>1, <1>2, <1>3, <1>4, <1>5 DEF Restart, Typed, Ledgers

\* A crash, in persist or elsewhere, ends the batch.
LEMMA CrashEnds ==
  ASSUME ClusterAssumption, NEW E, NEW C, Closed(E, C), Typed(E, C),
         NEW i \in Server, Crash(i) \/ CrashInPersist(i)
  PROVE  Ends(E, C, i) /\ Ledgers(E)'
<1>readyLaw. ReadyLaw(E, C)
  BY Zenon DEF Closed, Laws
<1>tornDisksLaw. TornDisksLaw(E, C)
  BY Zenon DEF Closed, Laws
<1> DEFINE rd == ready(raft[i])
           cut == raft[i].dirty_from
           l == raft[i].log
           now == disk[i]
<1>1. /\ raft[i] \in NodeOf(E, C) /\ now \in DiskOf(E, C)
      /\ cut \in Nat /\ l \in LogOf(E, C) /\ rd \in ReadyOf(E, C)
  <2>1. raft[i] \in NodeOf(E, C) /\ now \in DiskOf(E, C)
    BY ZenonT(60) DEF Typed, Machines
  <2> QED
    BY ZenonT(60), <2>1, <1>readyLaw DEF ReadyLaw, NodeOf
<1>2. /\ UNCHANGED <<net, elected>> /\ forgot \in BOOLEAN
      /\ elected' \subseteq Nat \X Server
  BY ZenonT(60) DEF Crash, CrashInPersist, Typed, Ledgers
<1>3. PICK d : /\ d = now \/ d \in TornDisks(now, rd, cut, l)
               /\ Restart(i, d) /\ forgot' = (forgot \/ Forgets(i, d))
  BY DEF Crash, CrashInPersist
<1>4. forgot' \in BOOLEAN
  BY ZenonT(60), <1>2, <1>3 DEF Forgets
<1> HIDE DEF rd, cut, l, now
<1>5. d \in DiskOf(E, C) /\ d.hs \in HsAfter(now, rd)
  <2>1. CASE d = now
    BY <1>1, <2>1 DEF HsAfter
  <2>2. CASE d \in TornDisks(now, rd, cut, l)
    BY ZenonT(60), <1>1, <2>2, <1>tornDisksLaw DEF TornDisksLaw
  <2> QED
    BY ZenonT(60), <1>3, <2>1, <2>2
<1> DEFINE r1 == recover(i, d, boot)
           k == recovered_kv(d)
<1>6. r1 \in NodeOf(E, C) /\ Reborn(i, r1, d) /\ k \in Seq(E) /\ Ledgers(E)'
  BY ZenonT(60), <1>2, <1>3, <1>4, <1>5, RestartEffect
<1>7. /\ raft' = [raft EXCEPT ![i] = r1] /\ disk' = [disk EXCEPT ![i] = d]
      /\ kv' = [kv EXCEPT ![i] = k]
  BY <1>3 DEF Restart
<1> HIDE DEF r1, k
<1>8. Ends(E, C, i)
  BY ZenonT(60), <1>2, <1>5, <1>6, <1>7 DEF Ends, now, rd
<1> QED
  BY <1>6, <1>8

\* A crash in housekeeping ends the batch.
LEMMA HousekeepingCrashEnds ==
  ASSUME ClusterAssumption, NEW E, NEW C, Closed(E, C), Typed(E, C),
         NEW i \in Server, CrashInHousekeeping(i)
  PROVE  Ends(E, C, i) /\ Ledgers(E)'
<1>cycleLaw. CycleLaw(E, C)
  BY Zenon DEF Closed, Laws
<1>readyLaw. ReadyLaw(E, C)
  BY Zenon DEF Closed, Laws
<1> DEFINE c == cycle(raft[i], disk[i], kv[i])
           d == c.written
<1>1. /\ raft[i] \in NodeOf(E, C) /\ disk[i] \in DiskOf(E, C) /\ kv[i] \in Seq(E)
      /\ Universe(E, C) /\ raft[i].term \in Nat
  BY ZenonT(60) DEF Typed, Machines, Closed, NodeOf
<1>2. Restart(i, d) /\ Led(i) /\ UNCHANGED forgot
      /\ net' = net \cup Carried(ready(raft[i]).messages)
  BY ZenonT(60) DEF CrashInHousekeeping
<1>3. d \in DiskOf(E, C) /\ d.hs = Written(i)
  <2>1. Cycled(E, C, raft[i], disk[i], c)
    BY Zenon, <1>1, <1>cycleLaw DEF CycleLaw
  <2> HIDE DEF c
  <2> QED
    BY Zenon, <2>1 DEF Written, Cycled
<1>4. ready(raft[i]).messages = raft[i].messages
  BY ZenonT(60), <1>1, <1>readyLaw DEF ReadyLaw
<1>5. elected' \subseteq Nat \X Server /\ forgot' \in BOOLEAN
  BY Zenon, <1>1, <1>2, LedTyped DEF Typed, Ledgers
<1> HIDE DEF c, d
<1> DEFINE r1 == recover(i, d, boot)
           k == recovered_kv(d)
<1>6. r1 \in NodeOf(E, C) /\ Reborn(i, r1, d) /\ k \in Seq(E) /\ Ledgers(E)'
  BY Zenon, <1>2, <1>3, <1>5, RestartEffect
<1>7. /\ raft' = [raft EXCEPT ![i] = r1] /\ disk' = [disk EXCEPT ![i] = d]
      /\ kv' = [kv EXCEPT ![i] = k]
  BY <1>2 DEF Restart
<1> HIDE DEF r1, k
<1>8. Ends(E, C, i)
  BY ZenonT(60), <1>2, <1>3, <1>4, <1>6, <1>7 DEF Ends
<1> QED
  BY <1>6, <1>8

-----------------------------------------------------------------------------
(* Every step *)

\* No move changes the identity of the node.
LEMMA MovesKeepsId ==
  ASSUME NEW E, NEW C, NEW i, NEW r1, Moves(E, C, i, r1)
  PROVE  r1.id = raft[i].id
  BY ZenonT(60) DEF Moves, Calm, Runs, Votes, Counts

\* A step is an event of one node, or the end of its batch, and either way
\* everything keeps its type.
LEMMA NextEffect ==
  ASSUME ClusterAssumption, NEW E, NEW C, Closed(E, C), Typed(E, C), Next
  PROVE  /\ \E i \in Server : Takes(E, C, i) \/ Ends(E, C, i)
         /\ Typed(E, C)'
<1>1. ASSUME NEW i \in Listening,
             \/ LeaderTick(i) \/ ElectionTimeout(i) \/ QuietTick(i)
             \/ \E m \in Inbox(i) : Deliver(i, m)
             \/ ClientWrite(i) \/ ClientRead(i) \/ Admin(i) \/ TransferLeadership(i)
      PROVE  i \in Server /\ Takes(E, C, i) /\ Typed(E, C)'
  <2>1. i \in Server
    BY ZenonT(60) DEF Listening
  <2>2. Takes(E, C, i)
    BY ZenonT(60), <1>1, <2>1, TicksTake, RequestsTake, DeliveriesTake
  <2>3. PICK r1 \in NodeOf(E, C), w \in Waits, u \in Used :
          Event(i, r1, w, u) /\ Moves(E, C, i, r1)
    BY ZenonT(60), <2>2 DEF Takes
  <2>4. r1.id = i
    <3>1. r1.id = raft[i].id
      BY ZenonT(60), <2>3, MovesKeepsId
    <3> QED
      BY ZenonT(60), <2>1, <3>1 DEF Typed, Machines
  <2> QED
    BY ZenonT(60), <2>1, <2>2, <2>3, <2>4, EventTyped
<1>2. ASSUME NEW i \in Server,
             \/ Cycle(i) \/ DriverStops(i) \/ DiskFull(i)
             \/ Crash(i) \/ CrashInPersist(i) \/ CrashInHousekeeping(i)
      PROVE  Ends(E, C, i) /\ Typed(E, C)'
  <2>1. Ends(E, C, i) /\ Ledgers(E)'
    BY ZenonT(60), <1>2, CycleEnds, DriverStopsEnds, DiskFullEnds, CrashEnds, HousekeepingCrashEnds
  <2> QED
    BY Zenon, <2>1, EndsTyped DEF Typed
<1>3. CASE \E i \in Listening :
             \/ LeaderTick(i) \/ ElectionTimeout(i) \/ QuietTick(i)
             \/ \E m \in Inbox(i) : Deliver(i, m)
             \/ ClientWrite(i) \/ ClientRead(i) \/ Admin(i) \/ TransferLeadership(i)
  BY ZenonT(60), <1>1, <1>3
<1>4. CASE \E i \in Server :
             \/ Cycle(i) \/ DriverStops(i) \/ DiskFull(i)
             \/ Crash(i) \/ CrashInPersist(i) \/ CrashInHousekeeping(i)
  BY ZenonT(60), <1>2, <1>4
<1> QED
  BY ZenonT(60), <1>3, <1>4 DEF Next

\* The initial states have their types, and no one stands for an election.
LEMMA InitTyped ==
  ASSUME ClusterAssumption, NEW E, NEW C, Closed(E, C), Init
  PROVE  /\ Typed(E, C)
         /\ \A i \in Server : Reborn(i, raft[i], disk[i])
<1>recoverLaw. RecoverLaw(E, C)
  BY Zenon DEF Closed, Laws
<1> DEFINE d == FreshDisk
<1>1. d \in DiskOf(E, C)
  BY ZenonT(60), FreshDiskType
<1> HIDE DEF d
<1>2. \A i \in Server : /\ recover(i, d, boot) \in NodeOf(E, C)
                        /\ Reborn(i, recover(i, d, boot), d)
  BY Zenon, <1>1, <1>recoverLaw DEF RecoverLaw, Closed
<1>3. recovered_kv(d) \in Seq(E)
  BY ZenonT(60), <1>1, <1>recoverLaw DEF RecoverLaw
<1>4. /\ disk = [i \in Server |-> d]
      /\ raft = [i \in Server |-> recover(i, disk[i], boot)]
      /\ kv = [i \in Server |-> recovered_kv(disk[i])]
      /\ net = {}
  BY DEF Init, InitFrom, FreshDisks, d
<1>5. /\ raft = [i \in Server |-> recover(i, d, boot)]
      /\ kv = [i \in Server |-> recovered_kv(d)]
  BY ZenonT(60), <1>4
<1>6. Machines(E, C) /\ \A i \in Server : Reborn(i, raft[i], disk[i])
  <2>1. raft \in [Server -> NodeOf(E, C)] /\ kv \in [Server -> Seq(E)]
    BY Zenon, <1>2, <1>3, <1>5
  <2>2. disk \in [Server -> DiskOf(E, C)] /\ net \subseteq MsgOf(E, C)
    BY Zenon, <1>1, <1>4
  <2>3. \A i \in Server : raft[i] = recover(i, d, boot) /\ disk[i] = d
    BY Zenon, <1>4, <1>5
  <2>4. \A i \in Server : Reborn(i, raft[i], disk[i])
    BY Zenon, <1>2, <2>3
  <2>5. \A i \in Server : raft[i].id = i
    BY Zenon, <2>4 DEF Reborn
  <2> QED
    BY Zenon, <2>1, <2>2, <2>4, <2>5 DEF Machines
<1>7. used \in Used
  BY Zenon, UnspentType DEF Init, InitFrom, FreshDisks
<1>8. batch \in [node : Server \cup {None}, size : 0 .. MaxBatch]
  BY Zenon, IdleType DEF Init, InitFrom, FreshDisks, Idle
<1>9. Ledgers(E)
  BY ZenonT(60), <1>7, <1>8 DEF Init, InitFrom, FreshDisks, Ledgers, Waits, Bounded
<1> QED
  BY ZenonT(60), <1>6, <1>9 DEF Typed

-----------------------------------------------------------------------------
(* A fixed membership implements Voting *)

\* With a fixed membership no entry changes the configuration.
Fixed == Typed(PlainEntry, {boot})

Nodes == NodeOf(PlainEntry, {boot})

\* Its state has the fields Voting speaks of.
LEMMA FixedTyped ==
  ASSUME ClusterAssumption, Fixed
  PROVE  V!Typed
<1>1. ASSUME NEW v \in Server
      PROVE  /\ raft[v].id = v /\ raft[v].term \in Nat
             /\ raft[v].persisted_hs.term \in Nat /\ disk[v].hs.term \in Nat
             /\ \A m \in raft[v].messages : m.term \in Nat /\ m.to \in Server
  <2>1. raft[v] \in Nodes /\ raft[v].id = v /\ disk[v] \in DiskOf(PlainEntry, {boot})
    BY Zenon DEF Fixed, Typed, Machines, Nodes
  <2>2. disk[v].hs.term \in Nat
    BY <2>1 DEF DiskOf
  <2>3. /\ raft[v].term \in Nat /\ raft[v].persisted_hs.term \in Nat
        /\ raft[v].messages \subseteq MsgOf(PlainEntry, {boot})
    BY Zenon, <2>1 DEF Nodes, NodeOf
  <2> QED
    BY <2>1, <2>2, <2>3 DEF MsgOf
<1>2. \A m \in net : m.term \in Nat /\ m.to \in Server
  BY DEF Fixed, Typed, Machines, MsgOf
<1>3. \A e \in elected : e[1] \in Nat
  BY DEF Fixed, Typed, Ledgers
<1> QED
  BY Zenon, <1>1, <1>2, <1>3 DEF V!Typed

\* Calm is Voting's.
LEMMA CalmVotes ==
  ASSUME NEW r, NEW r1, Calm(r, r1)
  PROVE  V!Calm(r, r1)
  BY Zenon DEF Calm, NoBallots, Electing, V!Calm, V!Unwritten, V!NoBallots, V!Ballot,
               V!Stays, V!Electing

\* So is a campaign.
LEMMA RunsVotes ==
  ASSUME NEW r, NEW r1, r.id \in Server, Runs({boot}, r, r1)
  PROVE  V!Runs(r, r1)
  BY DEF Runs, Electing, V!Runs, V!Unwritten, V!Ballot, V!Electing

\* Observing the term of a request for a vote and answering it is one event.
LEMMA AnswerVotes ==
  ASSUME NEW r \in Nodes, NEW r1, NEW o \in Nodes, NEW m,
         Calm(r, o), o.term = m.term, Votes(o, r1, m)
  PROVE  V!Votes(r, r1, m)
<1>1. r.term \in Nat /\ o.term \in Nat
  BY DEF Nodes, NodeOf
<1>2. V!Unwritten(r, r1)
  BY DEF Calm, Votes, V!Unwritten
<1>3. r1.term = m.term /\ m.term >= r.term
  <2>1. o.term >= r.term /\ r1.term = o.term
    BY <1>1 DEF Calm, Votes
  <2> QED
    BY <2>1
<1>4. r1.role \in V!Electing =>
        r1.term = r.term /\ r1.role = r.role /\ r1.granted = r.granted
  BY DEF Calm, Votes, V!Electing, Electing
<1>5. \/ r1.term = r.term /\ r1.vote = r.vote
      \/ r1.term > r.term /\ r1.vote = None /\ r1.hard_state_dirty
      \/ /\ r1.term = r.term => r.vote \in {None, m.from}
         /\ r1.vote = m.from /\ r1.hard_state_dirty
  <2>1. /\ o.hard_state_dirty => r1.hard_state_dirty
        /\ r1.term = o.term
        /\ \/ r1.vote = o.vote
           \/ o.vote \in {None, m.from} /\ r1.vote = m.from /\ r1.hard_state_dirty
    BY Zenon DEF Votes
  <2>2. CASE o.term = r.term /\ o.vote = r.vote
    BY <2>1, <2>2
  <2>3. CASE o.term > r.term /\ o.vote = None /\ o.hard_state_dirty
    BY <1>1, <2>1, <2>3
  <2> QED
    BY Zenon, <2>2, <2>3 DEF Calm
<1>6. ASSUME NEW x \in r1.messages
      PROVE  \/ x \in r.messages \/ x.body.type \notin V!Ballot
             \/ /\ x.from = r.id /\ x.to = m.from /\ x.term = m.term
                /\ x.body.type = "VoteResp"
                /\ x.body.granted => r1.vote = m.from /\ r1.hard_state_dirty
  <2>1. CASE x \in o.messages
    BY <2>1 DEF Calm, NoBallots, V!Ballot
  <2>2. CASE x = Message(o.id, m.from, o.term, VoteResp(FALSE))
    BY <2>2 DEF Calm, Message, VoteResp
  <2>3. CASE /\ x = Message(o.id, m.from, o.term, VoteResp(TRUE))
             /\ r1.vote = m.from /\ r1.hard_state_dirty
    BY <2>3 DEF Calm, Message, VoteResp
  <2> QED
    BY <2>1, <2>2, <2>3 DEF Votes
<1> QED
  BY Zenon, <1>2, <1>3, <1>4, <1>5, <1>6 DEF V!Votes

\* Counting an answer: only a candidate of the answer's term does, so nothing
\* was observed before it.
LEMMA CountVotes ==
  ASSUME NEW r \in Nodes, NEW r1 \in Nodes, NEW o \in Nodes, NEW m,
         Calm(r, o), o.term = m.term, Counts({boot}, o, r1, m)
  PROVE  V!Counts(r, r1, m)
<1>1. /\ o.role = "Candidate" /\ r.role = "Candidate" /\ o.term = r.term
      /\ o.vote = r.vote /\ o.granted = r.granted
  BY DEF Calm, Counts, Electing
<1>2. V!Unwritten(r, r1) /\ V!NoBallots(r, r1)
  BY DEF Calm, Counts, NoBallots, V!Unwritten, V!NoBallots, V!Ballot
<1>3. r1.granted \subseteq r.granted \cup {v \in {m.from} : m.body.granted}
  BY <1>1 DEF Counts
<1>4. r1.role = "Leader" => r1.granted \in {Q \in SUBSET Server : has_quorum(boot, Q)}
  BY DEF Counts, Nodes, NodeOf
<1> QED
  BY <1>1, <1>2, <1>3, <1>4 DEF Counts, V!Counts, Electing, V!Electing

\* Every event of a cluster is one of Voting.
LEMMA TakesVotes ==
  ASSUME Fixed, NEW i \in Server, Takes(PlainEntry, {boot}, i)
  PROVE  V!Alone(i) /\ V!Takes(i)
<1>1. PICK r1 \in Nodes, w \in Waits, u \in Used :
        Event(i, r1, w, u) /\ Moves(PlainEntry, {boot}, i, r1)
  BY Zenon DEF Takes, Nodes
<1>2. raft \in [Server -> Nodes] /\ raft[i].id \in Server
  BY Zenon DEF Fixed, Typed, Machines, Nodes
<1>3. raft' = [raft EXCEPT ![i] = r1] /\ UNCHANGED <<disk, net, elected>>
  BY Zenon, <1>1 DEF Event, history
<1>4. raft'[i] = r1 /\ V!Alone(i)
  BY <1>2, <1>3 DEF V!Alone
<1>5. \/ V!Calm(raft[i], r1) \/ V!Runs(raft[i], r1)
      \/ \E m \in net :
           /\ m.to = i
           /\ \/ m.body.type = "VoteReq" /\ V!Votes(raft[i], r1, m)
              \/ m.body.type = "VoteResp" /\ V!Counts(raft[i], r1, m)
  <2>1. CASE Calm(raft[i], r1)
    BY Zenon, <2>1, CalmVotes
  <2>2. CASE Runs({boot}, raft[i], r1)
    BY Zenon, <1>2, <2>2, RunsVotes
  <2>3. ASSUME NEW m \in Inbox(i), NEW o \in Nodes, Calm(raft[i], o), o.term = m.term,
               \/ m.body.type = "VoteReq" /\ Votes(o, r1, m)
               \/ m.body.type = "VoteResp" /\ Counts({boot}, o, r1, m)
        PROVE  /\ m \in net /\ m.to = i
               /\ \/ m.body.type = "VoteReq" /\ V!Votes(raft[i], r1, m)
                  \/ m.body.type = "VoteResp" /\ V!Counts(raft[i], r1, m)
    <3>1. m \in net /\ m.to = i /\ raft[i] \in Nodes
      BY <1>2 DEF Inbox
    <3> QED
      BY Zenon, <2>3, <3>1, AnswerVotes, CountVotes
  <2> QED
    BY Zenon, <1>1, <2>1, <2>2, <2>3 DEF Moves, Nodes
<1> QED
  BY Zenon, <1>3, <1>4, <1>5 DEF V!Takes

\* ready hands over the hard state exactly when Voting says so, and it is the
\* term and vote in memory.
LEMMA HandedOver ==
  ASSUME Fixed, NEW i \in Server
  PROVE  LET hs == ready(raft[i]).hard_state IN
           IF V!Handed(raft[i])
           THEN hs # None /\ hs.term = raft[i].term /\ hs.vote = raft[i].vote
           ELSE hs = None
<1> DEFINE r == raft[i]
           hs == ready(r).hard_state
           now == HardState(r.term, r.vote, r.commit)
<1>1. r \in Nodes
  BY Zenon DEF Fixed, Typed, Machines, Nodes
<1>2. hs = IF V!Handed(r) THEN now ELSE None
  BY Zenon DEF ready, V!Handed
<1>3. now \in HardStates
  BY <1>1 DEF HardStates, HardState, Nodes, NodeOf
<1>4. now # None
  BY <1>3, NoneAssumption DEF HardStates
<1>5. now.term = r.term /\ now.vote = r.vote
  BY DEF HardState
<1> HIDE DEF now
<1> QED
  BY <1>2, <1>4, <1>5

\* What a cycle writes is what Voting says.
LEMMA WritesVote ==
  ASSUME Fixed, NEW i \in Server, NEW d1, disk'[i] = d1
  PROVE  /\ d1.hs = Written(i) => V!Written(i)
         /\ d1.hs \in HsAfter(disk[i], ready(raft[i])) => V!Kept(i) \/ V!Written(i)
<1>1. CASE V!Handed(raft[i])
  BY <1>1, HandedOver DEF Written, HsWritten, HsAfter, V!Written, V!Kept, V!Saved
<1>2. CASE ~V!Handed(raft[i])
  BY <1>2, HandedOver DEF Written, HsWritten, HsAfter, V!Written, V!Kept, V!Saved
<1> QED
  BY <1>1, <1>2

\* A node that goes on after its messages were taken rests.
LEMMA CalmRests ==
  ASSUME NEW i \in Server, NEW e, NEW r1, e.id = i, e.messages = {},
         e.term = raft[i].term, e.vote = raft[i].vote, e.role = raft[i].role,
         e.granted = raft[i].granted, Calm(e, r1), raft'[i] = r1
  PROVE  V!Rests(i, e.persisted_hs)
<1>1. raft'[i].id = i /\ raft'[i].persisted_hs = e.persisted_hs
  BY DEF Calm
<1>2. \A m \in raft'[i].messages : m.body.type \notin V!Ballot
  BY DEF Calm, NoBallots, V!Ballot
<1>3. V!Stays(raft[i], raft'[i])
  BY Zenon DEF Calm, Electing, V!Stays, V!Electing
<1> QED
  BY Zenon, <1>1, <1>2, <1>3 DEF V!Rests

\* Every end of a batch is one of Voting.
LEMMA EndsVotes ==
  ASSUME Fixed, NEW i \in Server, Ends(PlainEntry, {boot}, i)
  PROVE  V!Alone(i) /\ (V!Sends(i) \/ V!Fails(i))
<1> DEFINE r == raft[i]
           rd == ready(r)
<1>1. PICK r1 \in Nodes, d1 \in DiskOf(PlainEntry, {boot}) :
        /\ raft' = [raft EXCEPT ![i] = r1] /\ disk' = [disk EXCEPT ![i] = d1]
        /\ \/ /\ net' = net \cup Carried(r.messages) /\ Led(i)
              /\ d1.hs = Written(i)
              /\ Calm(wiped(r), r1) \/ Reborn(i, r1, d1)
           \/ /\ UNCHANGED <<net, elected>>
              /\ d1.hs \in HsAfter(disk[i], rd)
              /\ \/ Reborn(i, r1, d1)
                 \/ /\ Calm(emptied(r), r1)
                    /\ r1.role = "Leader" => d1.hs = Written(i)
  BY Zenon DEF Ends, Nodes
<1>2. r \in Nodes /\ r.id = i
  BY Zenon DEF Fixed, Typed, Machines, Nodes
<1>3. raft'[i] = r1 /\ disk'[i] = d1 /\ V!Alone(i)
  BY <1>1 DEF Fixed, Typed, Machines, V!Alone
<1>4. Reborn(i, r1, d1) => V!Reborn(raft'[i], disk'[i], i)
  BY Zenon, <1>3 DEF Reborn, V!Reborn
<1>5. CASE /\ net' = net \cup Carried(r.messages) /\ Led(i)
           /\ d1.hs = Written(i)
           /\ Calm(wiped(r), r1) \/ Reborn(i, r1, d1)
  <2> DEFINE p == IF V!Handed(r) THEN [term |-> r.term, vote |-> r.vote]
                  ELSE r.persisted_hs
             e == wiped(r)
  <2>1. net \subseteq net' /\ net' \subseteq net \cup r.messages
    BY <1>5 DEF Carried
  <2>2. elected' = elected \cup (IF r.role = "Leader" THEN {<<r.term, i>>} ELSE {})
    BY <1>5 DEF Led
  <2>3. /\ e.term = r.term /\ e.vote = r.vote /\ e.role = r.role /\ e.id = i
        /\ e.granted = r.granted /\ e.messages = {}
        /\ e.persisted_hs = IF rd.hard_state = None THEN r.persisted_hs
                            ELSE [term |-> rd.hard_state.term, vote |-> rd.hard_state.vote]
    BY <1>2 DEF wiped, acknowledged, emptied, Nodes, NodeOf
  <2>4. e.persisted_hs = p
    BY <2>3, HandedOver
  <2> HIDE DEF e, p
  <2>5. Calm(e, r1) => V!Rests(i, p)
    BY <1>3, <2>3, <2>4, CalmRests
  <2>6. V!Written(i)
    BY Zenon, <1>3, <1>5, WritesVote
  <2>7. V!Rests(i, p) \/ V!Reborn(raft'[i], disk'[i], i)
    BY Zenon, <1>4, <1>5, <2>5 DEF e
  <2> QED
    BY Zenon, <1>3, <2>1, <2>2, <2>6, <2>7 DEF V!Sends, p
<1>6. CASE /\ UNCHANGED <<net, elected>>
           /\ d1.hs \in HsAfter(disk[i], rd)
           /\ \/ Reborn(i, r1, d1)
              \/ /\ Calm(emptied(r), r1)
                 /\ r1.role = "Leader" => d1.hs = Written(i)
  <2> DEFINE e == emptied(r)
  <2>1. /\ e.term = r.term /\ e.vote = r.vote /\ e.role = r.role /\ e.id = i
        /\ e.granted = r.granted /\ e.messages = {} /\ e.persisted_hs = r.persisted_hs
    BY Zenon, <1>2 DEF emptied, Nodes, NodeOf
  <2> HIDE DEF e
  <2>2. Calm(e, r1) => V!Rests(i, r.persisted_hs)
    BY <1>3, <2>1, CalmRests
  <2>3. V!Kept(i) \/ V!Written(i)
    BY Zenon, <1>3, <1>6, WritesVote
  <2>4. d1.hs = Written(i) => V!Written(i)
    BY Zenon, <1>3, WritesVote
  <2> QED
    BY Zenon, <1>3, <1>4, <1>6, <2>2, <2>3, <2>4 DEF V!Fails, e
<1> QED
  BY Zenon, <1>1, <1>5, <1>6

\* The cluster starts as Voting does.
LEMMA InitVotes ==
  ASSUME ClusterAssumption, Closed(PlainEntry, {boot}), Init
  PROVE  Fixed /\ V!Init
<1>1. Fixed /\ \A i \in Server : Reborn(i, raft[i], disk[i])
  BY Zenon, InitTyped DEF Fixed
<1>2. net = {} /\ elected = {}
  BY Zenon DEF Init, InitFrom
<1> QED
  BY Zenon, <1>1, <1>2 DEF V!Init, Reborn, V!Reborn

\* Every step is a step of Voting or changes nothing of it.
LEMMA NextVotes ==
  ASSUME ClusterAssumption, Closed(PlainEntry, {boot}), Fixed, [Next]_vars
  PROVE  Fixed' /\ [V!Next]_(V!vars)
<1>1. CASE Next
  <2>1. /\ \E i \in Server : Takes(PlainEntry, {boot}, i) \/ Ends(PlainEntry, {boot}, i)
        /\ Fixed'
    BY Zenon, <1>1, NextEffect DEF Fixed
  <2> QED
    BY Zenon, <2>1, TakesVotes, EndsVotes DEF V!Next
<1>2. CASE UNCHANGED vars
  <2>1. Fixed'
    BY Zenon, <1>2 DEF Fixed, vars, history, Typed, Machines, Ledgers
  <2>2. UNCHANGED V!vars
    BY Zenon, <1>2 DEF vars, history, V!vars
  <2> QED
    BY Zenon, <2>1, <2>2
<1> QED
  BY <1>1, <1>2
=============================================================================
