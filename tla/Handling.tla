------------------------------ MODULE Handling ------------------------------
(***************************************************************************)
(* What a cluster relies on of its nodes: the vocabulary in which the      *)
(* proofs speak of handlers, of the driver's turn of the loop and of       *)
(* recovery, and the laws they obey in any universe of entries E and       *)
(* configurations C.  NodeProofs derives the laws from the handlers;       *)
(* ClusterProofs uses nothing else of them.                                *)
(***************************************************************************)
EXTENDS Types, FiniteSetsExt

-----------------------------------------------------------------------------
(* Vocabulary *)

\* What the handlers need to know of numbers and of quorums: a nonempty set of
\* naturals has a minimum, and a maximum if it is bounded; a quorum index is
\* an index; two quorums of a configuration share a voter.  RaftProofs derives
\* it (CountingHolds).
Counting ==
  /\ \A S \in SUBSET Nat :
       S # {} => Min(S) \in S /\ \A y \in S : Min(S) <= y
  /\ \A S \in SUBSET Nat, n \in Nat :
       S # {} /\ (\A y \in S : y <= n) => Max(S) \in S /\ \A y \in S : Max(S) >= y
  /\ \A cfg \in Config(Server) : \A matched :
       (\A id \in Server : matched[id] \in Nat) => quorum_index(cfg, matched) \in Nat
  /\ \A cfg \in Config(Server) : \A P, Q :
       has_quorum(cfg, P) /\ has_quorum(cfg, Q) =>
         P \cap Q \cap (cfg.voters \cup cfg.outgoing) # {}

\* The entries and configurations of a cluster: entries carry a term, a new
\* leader's no-op is one of them, so is the end of a joint transition where C
\* has one, and replaying a log stays within C.
Universe(E, C) ==
  /\ \A e \in E : e.term \in Nat
  /\ \A t \in Nat : [term |-> t, kind |-> Noop] \in E
  /\ \A cfg \in C : is_joint(cfg) =>
       \A t \in Nat : [term |-> t, kind |-> LeaveJoint] \in E
  /\ C \subseteq Config(Server)
  /\ \A l \in LogOf(E, C) : config(l) \in C
  /\ Counting

Electing == {"Candidate", "Leader"}

\* The new messages of r1 carry neither a vote nor a call for one.
NoBallots(r, r1) ==
  \A m \in r1.messages :
    m \in r.messages \/ m.body.type \notin {"VoteReq", "VoteResp"}

\* From r to r1 no vote is cast and no election starts or is won: the node
\* keeps its term and vote, or moves to a later term with no vote, which it
\* marks for writing.
Calm(r, r1) ==
  /\ r1.id = r.id /\ r1.persisted_hs = r.persisted_hs
  /\ r.hard_state_dirty => r1.hard_state_dirty
  /\ NoBallots(r, r1)
  /\ \/ /\ r1.term = r.term /\ r1.vote = r.vote
        /\ r1.role \notin Electing \/ (r1.role = r.role /\ r1.granted = r.granted)
     \/ /\ r1.term > r.term /\ r1.vote = None
        /\ r1.hard_state_dirty /\ r1.role \notin Electing

\* Campaigning: r1 stands in a later term with its own vote only, marked for
\* writing; the only ballots it adds ask for votes in that term.
Runs(C, r, r1) ==
  /\ r1.id = r.id /\ r1.persisted_hs = r.persisted_hs
  /\ r1.hard_state_dirty
  /\ r1.term > r.term /\ r1.vote = r.id
  /\ r1.role \in Electing /\ r1.granted = {r.id}
  /\ r1.role = "Leader" => \E cfg \in C : has_quorum(cfg, {r.id})
  /\ \A m \in r1.messages :
       \/ m \in r.messages
       \/ m.body.type \notin {"VoteReq", "VoteResp"}
       \/ m.body.type = "VoteReq" /\ m.from = r.id /\ m.term = r1.term

\* Answering a request for a vote.  A granted vote is the node's only one in
\* its term, and is marked for writing.
Votes(r, r1, m) ==
  /\ r1.id = r.id /\ r1.persisted_hs = r.persisted_hs
  /\ r.hard_state_dirty => r1.hard_state_dirty
  /\ r1.term = r.term /\ r1.role = r.role /\ r1.granted = r.granted
  /\ \/ /\ r.vote \in {None, m.from} /\ r1.vote = m.from /\ r1.hard_state_dirty
        /\ \A x \in r1.messages :
             \/ x \in r.messages
             \/ x = Message(r.id, m.from, r.term, VoteResp(TRUE))
     \/ /\ r1.vote = r.vote
        /\ \A x \in r1.messages :
             \/ x \in r.messages
             \/ x = Message(r.id, m.from, r.term, VoteResp(FALSE))

\* Counting an answer: a candidate keeps its term and vote, adds at most the
\* sender of a granted answer, and leads only on a quorum of what it counted.
Counts(C, r, r1, m) ==
  /\ r1.id = r.id /\ r1.persisted_hs = r.persisted_hs
  /\ r.hard_state_dirty => r1.hard_state_dirty
  /\ NoBallots(r, r1) /\ r.role = "Candidate"
  /\ r1.term = r.term /\ r1.vote = r.vote
  /\ r1.granted \subseteq r.granted \cup (IF m.body.granted THEN {m.from} ELSE {})
  /\ r1.role \in Electing
  /\ r1.role = "Leader" => \E cfg \in C : has_quorum(cfg, r1.granted)

HardStates == [term : Nat, vote : Vote, commit : Nat]

\* The configuration recovery falls back to is in the universe, and so is the
\* empty one wherever a log without a snapshot could bring voters back.
Founded(E, C, boot) ==
  /\ boot \in C
  /\ \A l \in LogOf(E, {simple({})}) : config(l).voters # {} => simple({}) \in C

\* r1 has just been recovered from d1.
Reborn(i, r1, d1) ==
  /\ r1.id = i /\ r1.term = d1.hs.term /\ r1.vote = d1.hs.vote
  /\ r1.persisted_hs = [term |-> d1.hs.term, vote |-> d1.hs.vote]
  /\ r1.role = "Follower" /\ r1.messages = {}

ReadyOf(E, C) ==
  [hard_state : HardStates \cup {None}, first : Nat, entries : Seq(E),
   snapshot : SnapshotOf(E, C) \cup {None}, messages : SUBSET MsgOf(E, C),
   committed : Seq(E), reads : SUBSET [ctx : Nat, index : Nat]]

\* What ready leaves of the ballots and of the hard state's dirty flag.
emptied(r) == [r EXCEPT !.messages = {}, !.hard_state_dirty = FALSE]

\* The hard state a disk may be left with by a turn that hands over rd.
HsAfter(d, rd) == {d.hs} \cup ({rd.hard_state} \ {None})

\* The hard state it is left with once rd is written.
HsWritten(d, rd) == IF rd.hard_state = None THEN d.hs ELSE rd.hard_state

\* v is d with the hard state that rd hands over.
Balloted(E, C, d, rd, v) == v \in DiskOf(E, C) /\ v.hs = HsWritten(d, rd)

Within(r) == r.commit <= last_index(r.log)

\* Taking a snapshot left r and d with t: the node is as calm as it was, and
\* its hard state untouched.
Snapped(E, C, r, d, t) ==
  /\ t.raft \in NodeOf(E, C) /\ Calm(r, t.raft) /\ t.raft.role = r.role
  /\ Within(r) => Within(t.raft)
  /\ t.disk \in DiskOf(E, C) /\ t.disk.hs = d.hs

acknowledged(r, rd) ==
  IF rd.hard_state = None THEN r
  ELSE [r EXCEPT !.persisted_hs = [term |-> rd.hard_state.term,
                                   vote |-> rd.hard_state.vote]]

\* A node between ready and the events of the next batch.
wiped(r) == acknowledged(emptied(r), ready(r))

\* What a turn of the loop leaves of r and d in c.
Cycled(E, C, r, d, c) ==
  /\ c.raft \in NodeOf(E, C) /\ Calm(wiped(r), c.raft)
  /\ wiped(r) \in NodeOf(E, C)
  /\ Within(c.raft)
  /\ c.disk \in DiskOf(E, C) /\ c.written \in DiskOf(E, C)
  /\ c.disk.hs = c.written.hs
  /\ c.written.hs = HsWritten(d, ready(r))
  /\ c.kv \in Seq(E)

-----------------------------------------------------------------------------
(* Laws *)

\* Calm steps compose, and a campaign may follow one.
CalmLaw(E, C) ==
  /\ \A r : Calm(r, r)
  /\ \A r, r1, r2 \in NodeOf(E, C) : Calm(r, r1) /\ Calm(r1, r2) => Calm(r, r2)
  /\ \A r, r1, r2 \in NodeOf(E, C) : Calm(r, r1) /\ Runs(C, r1, r2) => Runs(C, r, r2)

SendLaw(E, C) ==
  \A r \in NodeOf(E, C), to \in Server, body \in BodyOf(E, C) :
    body.type \notin {"VoteReq", "VoteResp"} =>
      send(r, to, body) \in NodeOf(E, C) /\ Calm(r, send(r, to, body))

StepDownLaw(E, C) ==
  \A r \in NodeOf(E, C) :
    step_down(r) \in NodeOf(E, C) /\ Calm(r, step_down(r))

StartElectionLaw(E, C) ==
  \A r \in NodeOf(E, C) :
    /\ start_election(r) \in NodeOf(E, C)
    /\ Calm(r, start_election(r)) \/ Runs(C, r, start_election(r))

LeaderTickLaw(E, C) ==
  \A r \in NodeOf(E, C), beat \in BOOLEAN, check \in BOOLEAN : \A expired :
    /\ leader_tick(r, beat, check, expired) \in NodeOf(E, C)
    /\ Calm(r, leader_tick(r, beat, check, expired))

ProposeLaw(E, C) ==
  \A r \in NodeOf(E, C) : \A kind :
    [term |-> r.term, kind |-> kind] \in E =>
      /\ propose(r, kind) \in NodeOf(E, C) /\ Calm(r, propose(r, kind))
      /\ propose_config(r, kind) \in NodeOf(E, C) /\ Calm(r, propose_config(r, kind))

ReadIndexLaw(E, C) ==
  \A r \in NodeOf(E, C) :
    /\ read_index(r) \in NodeOf(E, C) /\ Calm(r, read_index(r))
    /\ read_index(r).read_ctx \in Nat

ObserveTermLaw(E, C) ==
  \A r \in NodeOf(E, C), m \in MsgOf(E, C) :
    /\ observe_term(r, m) \in NodeOf(E, C) /\ Calm(r, observe_term(r, m))
    /\ ~is_pre_vote(m) /\ m.term >= r.term => observe_term(r, m).term = m.term

RejectStaleLaw(E, C) ==
  \A r \in NodeOf(E, C), m \in MsgOf(E, C) :
    reject_stale(r, m) \in NodeOf(E, C) /\ Calm(r, reject_stale(r, m))

PreVoteReqLaw(E, C) ==
  \A r \in NodeOf(E, C), m \in MsgOf(E, C) : \A recent :
    /\ handle_pre_vote_req(r, m, recent) \in NodeOf(E, C)
    /\ Calm(r, handle_pre_vote_req(r, m, recent))

PreVoteRespLaw(E, C) ==
  \A r \in NodeOf(E, C), m \in MsgOf(E, C) :
    m.body.type = "PreVoteResp" =>
      /\ handle_pre_vote_resp(r, m) \in NodeOf(E, C)
      /\ Calm(r, handle_pre_vote_resp(r, m)) \/ Runs(C, r, handle_pre_vote_resp(r, m))

VoteReqLaw(E, C) ==
  \A r \in NodeOf(E, C), m \in MsgOf(E, C) :
    handle_vote_req(r, m) \in NodeOf(E, C) /\ Votes(r, handle_vote_req(r, m), m)

VoteRespLaw(E, C) ==
  \A r \in NodeOf(E, C), m \in MsgOf(E, C) :
    m.body.type = "VoteResp" =>
      /\ handle_vote_resp(r, m) \in NodeOf(E, C)
      /\ Calm(r, handle_vote_resp(r, m)) \/ Counts(C, r, handle_vote_resp(r, m), m)

HandleAppendLaw(E, C) ==
  \A r \in NodeOf(E, C), m \in MsgOf(E, C) :
    m.body.type = "AppendReq" =>
      handle_append(r, m) \in NodeOf(E, C) /\ Calm(r, handle_append(r, m))

AppendRespLaw(E, C) ==
  \A r \in NodeOf(E, C), m \in MsgOf(E, C) :
    m.body.type = "AppendResp" =>
      handle_append_resp(r, m) \in NodeOf(E, C) /\ Calm(r, handle_append_resp(r, m))

HandleSnapshotLaw(E, C) ==
  \A r \in NodeOf(E, C), m \in MsgOf(E, C) :
    m.body.type = "SnapshotReq" =>
      handle_snapshot(r, m) \in NodeOf(E, C) /\ Calm(r, handle_snapshot(r, m))

SnapshotRespLaw(E, C) ==
  \A r \in NodeOf(E, C), m \in MsgOf(E, C) :
    m.body.type = "SnapshotResp" =>
      handle_snapshot_resp(r, m) \in NodeOf(E, C) /\ Calm(r, handle_snapshot_resp(r, m))

HandleHeartbeatLaw(E, C) ==
  \A r \in NodeOf(E, C), m \in MsgOf(E, C) :
    m.body.type = "HeartbeatReq" =>
      handle_heartbeat(r, m) \in NodeOf(E, C) /\ Calm(r, handle_heartbeat(r, m))

HeartbeatRespLaw(E, C) ==
  \A r \in NodeOf(E, C), m \in MsgOf(E, C) :
    m.body.type = "HeartbeatResp" =>
      /\ handle_heartbeat_resp(r, m) \in NodeOf(E, C)
      /\ Calm(r, handle_heartbeat_resp(r, m))

TimeoutNowLaw(E, C) ==
  \A r \in NodeOf(E, C) :
    /\ handle_timeout_now(r) \in NodeOf(E, C)
    /\ Calm(r, handle_timeout_now(r)) \/ Runs(C, r, handle_timeout_now(r))

\* What ready hands over, and the node it leaves.
ReadyLaw(E, C) ==
  \A r \in NodeOf(E, C) :
    /\ ready(r) \in ReadyOf(E, C) /\ ready(r).messages = r.messages
    /\ after_ready(r) \in NodeOf(E, C) /\ emptied(r) \in NodeOf(E, C)
    /\ Calm(emptied(r), after_ready(r)) /\ after_ready(r).role = r.role

\* The writes up to the hard state, those an interrupted turn completes, and
\* those of a turn that meets a full disk.
VotedLaw(E, C) ==
  \A d \in DiskOf(E, C), rd \in ReadyOf(E, C), cut \in Nat :
    Balloted(E, C, d, rd, voted(d, rd, cut))

TornDisksLaw(E, C) ==
  \A d \in DiskOf(E, C), rd \in ReadyOf(E, C), cut \in Nat, l \in LogOf(E, C) :
    \A t \in TornDisks(d, rd, cut, l) : t \in DiskOf(E, C) /\ t.hs \in HsAfter(d, rd)

FullDisksLaw(E, C) ==
  \A d \in DiskOf(E, C), rd \in ReadyOf(E, C), cut \in Nat, l \in LogOf(E, C),
     kv \in Seq(E) :
    \A f \in FullDisks(d, rd, cut, l, kv) :
      /\ f.disk \in DiskOf(E, C) /\ f.disk.hs \in HsAfter(d, rd)
      /\ f.kv \in Seq(E)

InstalledKvLaw(E, C) ==
  \A rd \in ReadyOf(E, C), kv \in Seq(E) : installed_kv(kv, rd) \in Seq(E)

TakeSnapshotLaw(E, C) ==
  \A r \in NodeOf(E, C), d \in DiskOf(E, C), kv \in Seq(E) :
    can_snapshot(r) => Snapped(E, C, r, d, take_snapshot(r, d, kv))

CycleLaw(E, C) ==
  \A r \in NodeOf(E, C), d \in DiskOf(E, C), kv \in Seq(E) :
    Cycled(E, C, r, d, cycle(r, d, kv))

RecoverLaw(E, C) ==
  \A d \in DiskOf(E, C) :
    /\ recovered_kv(d) \in Seq(E)
    /\ \A id \in Server : \A boot :
         Founded(E, C, boot) =>
           /\ recover(id, d, boot) \in NodeOf(E, C)
           /\ Reborn(id, recover(id, d, boot), d)

Laws(E, C) ==
  /\ CalmLaw(E, C)
  /\ SendLaw(E, C)
  /\ StepDownLaw(E, C)
  /\ StartElectionLaw(E, C)
  /\ LeaderTickLaw(E, C)
  /\ ProposeLaw(E, C)
  /\ ReadIndexLaw(E, C)
  /\ ObserveTermLaw(E, C)
  /\ RejectStaleLaw(E, C)
  /\ PreVoteReqLaw(E, C)
  /\ PreVoteRespLaw(E, C)
  /\ VoteReqLaw(E, C)
  /\ VoteRespLaw(E, C)
  /\ HandleAppendLaw(E, C)
  /\ AppendRespLaw(E, C)
  /\ HandleSnapshotLaw(E, C)
  /\ SnapshotRespLaw(E, C)
  /\ HandleHeartbeatLaw(E, C)
  /\ HeartbeatRespLaw(E, C)
  /\ TimeoutNowLaw(E, C)
  /\ ReadyLaw(E, C)
  /\ VotedLaw(E, C)
  /\ TornDisksLaw(E, C)
  /\ FullDisksLaw(E, C)
  /\ InstalledKvLaw(E, C)
  /\ TakeSnapshotLaw(E, C)
  /\ CycleLaw(E, C)
  /\ RecoverLaw(E, C)
=============================================================================
