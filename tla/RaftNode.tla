------------------------------ MODULE RaftNode ------------------------------
(***************************************************************************)
(* The Raft state machine of one node, chronolog/src/raft.rs.               *)
(*                                                                         *)
(* The code keeps the protocol pure: a Raft value is fed ticks, messages    *)
(* and proposals, and what it wants done accumulates in a Ready that the    *)
(* driver collects.  The module follows that shape.  A node is a record r   *)
(* with the fields of struct Raft, and every method is an operator from r   *)
(* to the new r.                                                            *)
(*                                                                         *)
(* Elapsed ticks are not part of the record.  Where the code compares a     *)
(* tick counter with a timeout, the operator takes the outcome of the       *)
(* comparison as a parameter, so that every timing is allowed.              *)
(***************************************************************************)
EXTENDS RaftLog

CONSTANTS
  Server,                  \* the nodes that can ever be members
  None,                    \* no vote, no leader, no snapshot
  PreVote,                 \* RaftOptions::pre_vote
  SnapshotInterval,        \* RaftOptions::snapshot_interval
  MaxEntriesPerAppend      \* RaftOptions::max_entries_per_append

ASSUME ServerAssumption == IsFiniteSet(Server) /\ None \notin Server
ASSUME OptionsAssumption ==
  /\ PreVote \in BOOLEAN
  /\ SnapshotInterval \in Nat \ {0}
  /\ MaxEntriesPerAppend \in Nat \ {0}

-----------------------------------------------------------------------------
(* Construction and recovery *)

\* The replication progress map; None where the code has no entry.
NoProgress == [s \in Server |-> None]

tracked(r) == {s \in Server : r.progress[s] # None}

HardState(term, vote, commit) ==
  [term |-> term, vote |-> vote, commit |-> commit]

\* Raft::new: dirty_from is 0 where the code has None.
new(id, l) ==
  [id |-> id, term |-> 0, vote |-> None, log |-> l,
   commit |-> 0, applied |-> 0, persisted |-> 0,
   role |-> "Follower", leader |-> None, granted |-> {}, refused |-> {},
   progress |-> NoProgress, pending_reads |-> {}, read_ctx |-> 0,
   committed_own_term |-> FALSE,
   messages |-> {}, snapshot |-> None, reads |-> {},
   hard_state_dirty |-> FALSE, persisted_hs |-> [term |-> 0, vote |-> None],
   dirty_from |-> 0]

\* The log recovery rebuilds.  Without a snapshot its base configuration is
\* empty; the operator's bootstrap configuration replaces it only when the
\* replayed configuration has no voters.
restored_log(snap, es, boot) ==
  LET base == IF snap = None THEN bootstrap(simple({}))
              ELSE [snapshot_index |-> snap.last_index,
                    snapshot_term |-> snap.last_term,
                    snapshot_config |-> snap.config, entries |-> <<>>]
      l == append(base, es)
  IN  IF config(l).voters = {}
      THEN append(bootstrap(boot), entries_from(l, 1)) ELSE l

restore(id, hard, snap, es, boot) ==
  LET l == restored_log(snap, es, boot)
      clamped == IF hard.commit < last_index(l) THEN hard.commit
                 ELSE last_index(l)
  IN  [new(id, l) EXCEPT
         !.term = hard.term, !.vote = hard.vote,
         !.commit = IF clamped > l.snapshot_index THEN clamped
                    ELSE l.snapshot_index,
         !.applied = l.snapshot_index,
         !.persisted = last_index(l),
         !.persisted_hs = [term |-> hard.term, vote |-> hard.vote]]

-----------------------------------------------------------------------------
(* Messages.  from is the sender the transport reports; a message waits in
   r.messages until the driver collects it. *)

Message(from, to, term, body) ==
  [from |-> from, to |-> to, term |-> term, body |-> body]

is_pre_vote(m) == m.body.type \in {"PreVoteReq", "PreVoteResp"}

\* Raft::send, to one peer and to a set of peers.
send(r, to, body) ==
  [r EXCEPT !.messages = @ \cup {Message(r.id, to, r.term, body)}]

send_all(r, peers, body) ==
  [r EXCEPT !.messages = @ \cup {Message(r.id, p, r.term, body) : p \in peers}]

peers(r) == all_nodes(config(r.log)) \ {r.id}

VoteResp(granted) == [type |-> "VoteResp", granted |-> granted]

PreVoteResp(granted) == [type |-> "PreVoteResp", granted |-> granted]

AppendResp(success, match, conflict_index, conflict_term) ==
  [type |-> "AppendResp", success |-> success, match_index |-> match,
   conflict_index |-> conflict_index, conflict_term |-> conflict_term]

SnapshotResp(success, index) ==
  [type |-> "SnapshotResp", success |-> success, index |-> index]

-----------------------------------------------------------------------------
(* Leader machinery *)

Progress(next) ==
  [next |-> next, matched |-> 0, state |-> "Probe",
   pending_snapshot |-> FALSE, active |-> FALSE]

\* Variant: the latest of several appends wins.
mark_dirty_latest(r, index) == [r EXCEPT !.dirty_from = index]

mark_dirty(r, index) ==
  [r EXCEPT !.dirty_from = IF @ = 0 \/ index < @ THEN index ELSE @]

append_to_own_log(r, kind) ==
  [mark_dirty(r, last_index(r.log) + 1) EXCEPT
     !.log = append(@, <<[term |-> r.term, kind |-> kind]>>)]

\* Replication targets: peers with a progress slot and no snapshot in flight.
Reachable(r, ps) ==
  {p \in ps \cap tracked(r) :
     ~(r.progress[p].state = "Snapshot" /\ r.progress[p].pending_snapshot)}

\* Peers whose next entry is compacted away, or not adjacent to the log.
NeedsSnapshot(r, ps) ==
  {p \in ps : \/ r.progress[p].next < first_index(r.log)
              \/ term_at(r.log, r.progress[p].next - 1) = NoTerm}

AppendReq(r, p) ==
  LET next == r.progress[p].next
  IN  [type |-> "AppendReq", prev_index |-> next - 1,
       prev_term |-> term_at(r.log, next - 1),
       entries |-> slice(r.log, next, next + MaxEntriesPerAppend),
       commit |-> r.commit]

\* send_append_to, for each of a set of peers.
send_append_to(r, ps) ==
  LET targets == Reachable(r, ps)
      needy == NeedsSnapshot(r, targets)
  IN  [r EXCEPT
         !.progress = [p \in Server |->
            IF p \in needy THEN [@[p] EXCEPT !.state = "Snapshot"] ELSE @[p]],
         !.messages = @ \cup
            {Message(r.id, p, r.term, AppendReq(r, p)) : p \in targets \ needy}]

broadcast_append(r) == send_append_to(r, peers(r))

reset_progress_for_config(r) ==
  LET old == r.progress
      mine(p) == [p EXCEPT !.matched = r.persisted, !.next = r.persisted + 1,
                           !.state = "Replicate", !.active = TRUE]
      slot(s) == IF old[s] # None THEN old[s]
                 ELSE Progress(last_index(r.log) + 1)
  IN  [r EXCEPT !.progress = [s \in Server |->
         CASE s \notin all_nodes(config(r.log)) -> None
           [] s \in all_nodes(config(r.log)) /\ s = r.id -> mine(slot(s))
           [] OTHER -> slot(s)]]

\* Variant: commits an entry of any term once a quorum holds it.
maybe_advance_commit_any_term(r) ==
  LET matched == [s \in Server |->
                    CASE s = r.id -> r.persisted
                      [] s # r.id /\ s \in tracked(r)
                           -> r.progress[s].matched
                      [] OTHER -> 0]
      candidate == quorum_index(config(r.log), matched)
  IN  IF candidate > r.commit
      THEN [r EXCEPT !.commit = candidate, !.committed_own_term = TRUE,
                     !.hard_state_dirty = TRUE]
      ELSE r

\* The commit index moves to the highest index on a quorum's disks, and only
\* through an entry of the current term.
maybe_advance_commit(r) ==
  LET matched == [s \in Server |->
                    CASE s = r.id -> r.persisted
                      [] s # r.id /\ s \in tracked(r)
                           -> r.progress[s].matched
                      [] OTHER -> 0]
      candidate == quorum_index(config(r.log), matched)
  IN  IF candidate > r.commit /\ term_at(r.log, candidate) = r.term
      THEN [r EXCEPT !.commit = candidate, !.committed_own_term = TRUE,
                     !.hard_state_dirty = TRUE]
      ELSE r

-----------------------------------------------------------------------------
(* Role transitions *)

become_follower(r, term, leader) ==
  [r EXCEPT !.term = IF term > r.term THEN term ELSE @,
            !.vote = IF term > r.term THEN None ELSE @,
            !.hard_state_dirty = @ \/ term > r.term,
            !.role = "Follower", !.leader = leader,
            !.granted = {}, !.refused = {}, !.progress = NoProgress,
            !.pending_reads = {}, !.committed_own_term = FALSE]

become_leader(r) ==
  LET led == [r EXCEPT !.role = "Leader", !.leader = r.id,
                       !.committed_own_term = FALSE, !.pending_reads = {}]
  IN  broadcast_append(append_to_own_log(reset_progress_for_config(led), Noop))

tally(r) == has_quorum(config(r.log), r.granted)

lost(r) == has_quorum(config(r.log), r.refused)

LastEntry(r, type) ==
  [type |-> type, last_index |-> last_index(r.log),
   last_term |-> last_term(r.log)]

\* campaign(false): the real election, at the next term.
campaign(r) ==
  LET c == [r EXCEPT !.role = "Candidate", !.term = @ + 1, !.vote = r.id,
                     !.leader = None, !.hard_state_dirty = TRUE,
                     !.granted = {r.id}, !.refused = {}]
  IN  IF tally(c) THEN become_leader(c)
      ELSE send_all(c, peers(c), LastEntry(c, "VoteReq"))

\* campaign(true): poll at term + 1 without adopting it.
pre_campaign(r) ==
  LET c == [r EXCEPT !.role = "PreCandidate",
                     !.granted = {r.id}, !.refused = {}]
  IN  IF tally(c) THEN campaign(c)
      ELSE [c EXCEPT !.messages = @ \cup
              {Message(r.id, p, r.term + 1, LastEntry(c, "PreVoteReq")) :
                 p \in peers(c)}]

promotable(r) == is_voter(config(r.log), r.id)

start_election(r) == IF PreVote THEN pre_campaign(r) ELSE campaign(r)

insert_vote(r, from, yes) ==
  [r EXCEPT !.granted = IF yes THEN @ \cup {from} ELSE @ \ {from},
            !.refused = IF yes THEN @ \ {from} ELSE @ \cup {from}]

step_down(r) ==
  IF r.role = "Leader" THEN become_follower(r, r.term, None) ELSE r

-----------------------------------------------------------------------------
(* Ticks.  beat, check and expired say which timers the tick finds due:
   heartbeat, election timeout (the quorum check of a leader), and the peers
   whose unacknowledged snapshot is too old. *)

check_quorum(r) ==
  LET active == {s \in tracked(r) : r.progress[s].active \/ s = r.id}
      quiet == [r EXCEPT !.progress = [s \in Server |->
                  IF s \in tracked(r) THEN [@[s] EXCEPT !.active = FALSE]
                  ELSE None]]
  IN  IF has_quorum(config(r.log), active) THEN quiet
      ELSE become_follower(quiet, r.term, None)

InFlight(r) == {s \in tracked(r) : r.progress[s].pending_snapshot}

expire_pending_snapshots(r, expired) ==
  LET due == expired \cap InFlight(r)
      probing == [r EXCEPT !.progress = [s \in Server |->
                    IF s \in due
                    THEN [@[s] EXCEPT !.pending_snapshot = FALSE,
                                      !.state = "Probe"]
                    ELSE @[s]]]
  IN  send_append_to(probing, due)

leader_tick(r, beat, check, expired) ==
  LET beaten == IF beat THEN broadcast_append(r) ELSE r
      checked == IF check THEN check_quorum(beaten) ELSE beaten
  IN  expire_pending_snapshots(checked, expired)

-----------------------------------------------------------------------------
(* Inputs from clients *)

\* propose and propose_config apply to a leader; CanPropose is the guard of
\* the latter: one configuration change in flight at a time.
propose(r, kind) == broadcast_append(append_to_own_log(r, kind))

CanPropose(r, change) ==
  LET uncommitted == entries_from(r.log, r.commit + 1)
  IN  /\ r.role = "Leader"
      /\ (change.type = "LeaveJoint") = is_joint(config(r.log))
      /\ \A k \in DOMAIN uncommitted : ~IsConfig(uncommitted[k])

propose_config(r, change) ==
  broadcast_append(reset_progress_for_config(append_to_own_log(r, change)))

CanRead(r) == r.role = "Leader" /\ r.committed_own_term

\* The heartbeat's commit index is capped by what the peer is known to share.
HeartbeatReq(r, p, ctx) ==
  LET matched == IF p \in tracked(r) THEN r.progress[p].matched ELSE 0
  IN  [type |-> "HeartbeatReq", ctx |-> ctx,
       commit |-> IF r.commit < matched THEN r.commit ELSE matched]

\* Variant: answers from local state without asking a quorum.
read_index_local(r) ==
  [r EXCEPT !.read_ctx = @ + 1,
            !.reads = @ \cup {[ctx |-> r.read_ctx + 1, index |-> r.commit]}]

read_index(r) ==
  LET ctx == r.read_ctx + 1
      read == [ctx |-> ctx, index |-> r.commit, acks |-> {r.id}]
  IN  IF has_quorum(config(r.log), {r.id})
      THEN [r EXCEPT !.read_ctx = ctx,
                     !.reads = @ \cup {[ctx |-> ctx, index |-> r.commit]}]
      ELSE [r EXCEPT !.read_ctx = ctx,
                     !.pending_reads = @ \cup {read},
                     !.messages = @ \cup
                       {Message(r.id, p, r.term, HeartbeatReq(r, p, ctx)) :
                          p \in peers(r)}]

transfer_leadership(r, target) == send(r, target, [type |-> "TimeoutNow"])

-----------------------------------------------------------------------------
(* Message handlers.  observe_term is the term rule at the head of step; the
   handlers below it run on its result, for a message that is not stale. *)

observe_term(r, m) ==
  IF m.term > r.term /\ ~is_pre_vote(m)
  THEN become_follower(r, m.term,
         IF m.body.type \in {"VoteReq", "VoteResp"} THEN None ELSE m.from)
  ELSE r

\* What step answers to a message of an older term.
reject_stale(r, m) ==
  CASE m.body.type \in {"AppendReq", "HeartbeatReq"}
         -> send(r, m.from, AppendResp(FALSE, 0, 0, 0))
    [] m.body.type = "PreVoteReq" -> send(r, m.from, PreVoteResp(FALSE))
    [] OTHER -> r

\* recent: the last word from the leader is younger than an election timeout.
handle_pre_vote_req(r, m, recent) ==
  LET granted == /\ m.term > r.term
                 /\ is_up_to_date(r.log, m.body.last_term, m.body.last_index)
                 /\ ~(r.leader # None /\ recent)
  IN  [r EXCEPT !.messages = @ \cup
         {Message(r.id, m.from, m.term, PreVoteResp(granted))}]

\* Variant: takes every answer to a poll for a grant.
handle_pre_vote_resp_blind(r, m) ==
  LET v == insert_vote(r, m.from, TRUE)
  IN  IF r.role # "PreCandidate" THEN r
      ELSE IF tally(v) THEN campaign(v) ELSE v

handle_pre_vote_resp(r, m) ==
  LET v == insert_vote(r, m.from, m.body.granted)
  IN  CASE r.role # "PreCandidate" -> r
        [] r.role = "PreCandidate" /\ ~m.body.granted /\ m.term > r.term + 1
             -> become_follower(r, m.term, None)
        [] OTHER -> IF tally(v) THEN campaign(v)
                    ELSE IF lost(v) THEN [v EXCEPT !.role = "Follower"] ELSE v

\* Variant: does not mark the hard state for writing.
handle_vote_req_unsaved(r, m) ==
  LET granted == /\ r.vote \in {None, m.from}
                 /\ is_up_to_date(r.log, m.body.last_term, m.body.last_index)
  IN  send(IF granted THEN [r EXCEPT !.vote = m.from] ELSE r,
           m.from, VoteResp(granted))

\* Variant: votes again for the next candidate of its term.
handle_vote_req_again(r, m) ==
  LET granted == is_up_to_date(r.log, m.body.last_term, m.body.last_index)
      voted == IF granted
               THEN [r EXCEPT !.vote = m.from, !.hard_state_dirty = TRUE]
               ELSE r
  IN  send(voted, m.from, VoteResp(granted))

handle_vote_req(r, m) ==
  LET granted == /\ r.vote \in {None, m.from}
                 /\ is_up_to_date(r.log, m.body.last_term, m.body.last_index)
      voted == IF granted
               THEN [r EXCEPT !.vote = m.from, !.hard_state_dirty = TRUE]
               ELSE r
  IN  send(voted, m.from, VoteResp(granted))

handle_vote_resp(r, m) ==
  LET v == insert_vote(r, m.from, m.body.granted)
  IN  CASE r.role # "Candidate" -> r
        [] r.role = "Candidate" /\ tally(v) -> become_leader(v)
        [] OTHER -> IF lost(v) THEN become_follower(v, r.term, None) ELSE v

\* A live leader at our term: defer to it.
follow(r, from) ==
  [IF r.role # "Follower" THEN become_follower(r, r.term, from) ELSE r
     EXCEPT !.leader = from]

\* Variant: takes the leader's commit index as it comes, even a lower one.
accept_append_any_commit(r, m) ==
  LET es == m.body.entries
      merged == merge(r.log, m.body.prev_index, es)
      last_new == m.body.prev_index + Len(es)
      dirtied == IF es = <<>> THEN r ELSE mark_dirty(r, m.body.prev_index + 1)
      known == IF m.body.commit < last_new THEN m.body.commit ELSE last_new
  IN  send([dirtied EXCEPT !.log = merged, !.commit = known,
                           !.hard_state_dirty = @ \/ known # r.commit],
           m.from, AppendResp(TRUE, last_new, 0, 0))

\* Variant: does not mark the adopted entries for writing.
accept_append_clean(r, m) ==
  LET merged == merge(r.log, m.body.prev_index, m.body.entries)
      last_new == m.body.prev_index + Len(m.body.entries)
  IN  send([r EXCEPT !.log = merged], m.from, AppendResp(TRUE, last_new, 0, 0))

\* Adopt the entries after the consistency check passed, and acknowledge the
\* last of them.
accept_append(r, m) ==
  LET es == m.body.entries
      merged == merge(r.log, m.body.prev_index, es)
      last_new == m.body.prev_index + Len(es)
      dirtied == IF es = <<>> THEN r ELSE mark_dirty(r, m.body.prev_index + 1)
      known == IF m.body.commit < last_new THEN m.body.commit ELSE last_new
      raised == IF known > r.commit THEN known ELSE r.commit
      commit == IF raised > last_index(merged) THEN last_index(merged)
                ELSE raised
  IN  send([dirtied EXCEPT !.log = merged, !.commit = commit,
                           !.hard_state_dirty = @ \/ commit # r.commit],
           m.from, AppendResp(TRUE, last_new, 0, 0))

\* Variant: checks that the previous entry exists, not its term.
handle_append_unchecked(r, m) ==
  LET f == follow(r, m.from)
  IN  IF term_at(f.log, m.body.prev_index) # NoTerm THEN accept_append(f, m)
      ELSE send(f, m.from, AppendResp(FALSE, 0, last_index(f.log) + 1, 0))

handle_append(r, m) ==
  LET f == follow(r, m.from)
      prev == m.body.prev_index
      t == term_at(f.log, prev)
  IN  CASE prev < f.log.snapshot_index ->
             send(f, m.from, AppendResp(TRUE, f.log.snapshot_index, 0, 0))
        [] prev >= f.log.snapshot_index /\ t = m.body.prev_term ->
             accept_append(f, m)
        [] prev >= f.log.snapshot_index /\ t = NoTerm ->
             send(f, m.from, AppendResp(FALSE, 0, last_index(f.log) + 1, 0))
        [] OTHER ->
             send(f, m.from,
                  AppendResp(FALSE, 0, find_conflict_by_term(f.log, prev, t), t))

\* The follower's log matches the leader's through match_index.
append_acked(r, from, match) ==
  LET p == r.progress[from]
      q == IF match >= p.matched
           THEN [p EXCEPT !.matched = match, !.next = match + 1,
                          !.state = "Replicate", !.pending_snapshot = FALSE,
                          !.active = TRUE]
           ELSE [p EXCEPT !.active = TRUE]
      advanced == maybe_advance_commit([r EXCEPT !.progress[from] = q])
  IN  IF q.matched < last_index(r.log) THEN send_append_to(advanced, {from})
      ELSE advanced

\* The follower refused: back up to where its hint says, never below what it
\* has acknowledged nor past the end of the log.
append_refused(r, from, conflict_index, conflict_term) ==
  LET p == r.progress[from]
      hint == IF conflict_term > 0
              THEN find_conflict_by_term(r.log, conflict_index, conflict_term) + 1
              ELSE IF conflict_index > 1 THEN conflict_index ELSE 1
      low == IF hint > p.matched + 1 THEN hint ELSE p.matched + 1
      next == IF low < last_index(r.log) + 1 THEN low ELSE last_index(r.log) + 1
      q == [p EXCEPT !.next = next, !.state = "Probe", !.active = TRUE]
  IN  send_append_to([r EXCEPT !.progress[from] = q], {from})

handle_append_resp(r, m) ==
  CASE r.role # "Leader" \/ m.from \notin tracked(r) -> r
    [] r.role = "Leader" /\ m.from \in tracked(r) /\ m.body.success ->
         append_acked(r, m.from, m.body.match_index)
    [] OTHER ->
         append_refused(r, m.from, m.body.conflict_index, m.body.conflict_term)

\* Variant: leaves the applied index where it was.
handle_snapshot_unapplied(r, m) ==
  LET f == follow(r, m.from)
      snap == m.body.snapshot
  IN  IF snap.last_index <= f.commit
      THEN send(f, m.from, SnapshotResp(TRUE, f.commit))
      ELSE send([f EXCEPT !.log = install_snapshot(@, snap),
                          !.commit = snap.last_index,
                          !.hard_state_dirty = TRUE, !.dirty_from = 0,
                          !.snapshot = snap],
                m.from, SnapshotResp(TRUE, snap.last_index))

handle_snapshot(r, m) ==
  LET f == follow(r, m.from)
      snap == m.body.snapshot
      l == install_snapshot(f.log, snap)
  IN  IF snap.last_index <= f.commit
      THEN send(f, m.from, SnapshotResp(TRUE, f.commit))
      ELSE send([f EXCEPT !.log = l, !.commit = snap.last_index,
                          !.applied = snap.last_index,
                          !.hard_state_dirty = TRUE,
                          !.dirty_from = IF last_index(l) > snap.last_index
                                         THEN snap.last_index + 1 ELSE 0,
                          !.snapshot = snap],
                m.from, SnapshotResp(TRUE, snap.last_index))

handle_snapshot_resp(r, m) ==
  LET p == r.progress[m.from]
      matched == IF m.body.index > p.matched THEN m.body.index ELSE p.matched
      answered == [p EXCEPT !.active = TRUE, !.pending_snapshot = FALSE,
                            !.state = "Probe"]
  IN  CASE r.role # "Leader" \/ m.from \notin tracked(r) -> r
        [] r.role = "Leader" /\ m.from \in tracked(r) /\ m.body.success ->
             maybe_advance_commit([r EXCEPT !.progress[m.from] =
               [answered EXCEPT !.matched = matched, !.next = matched + 1]])
        [] OTHER -> [r EXCEPT !.progress[m.from] = answered]

handle_heartbeat(r, m) ==
  LET f == follow(r, m.from)
      safe == IF m.body.commit < last_index(f.log) THEN m.body.commit
              ELSE last_index(f.log)
  IN  send([f EXCEPT !.commit = IF safe > @ THEN safe ELSE @,
                     !.hard_state_dirty = @ \/ safe > f.commit],
           m.from, [type |-> "HeartbeatResp", ctx |-> m.body.ctx])

handle_heartbeat_resp(r, m) ==
  LET heard == IF m.from \in tracked(r)
               THEN [r EXCEPT !.progress[m.from].active = TRUE] ELSE r
      confirms(p) == m.body.ctx \in {p.ctx, 0}
      acked == {IF confirms(p) THEN [p EXCEPT !.acks = @ \cup {m.from}] ELSE p :
                  p \in r.pending_reads}
      done == {p \in acked : confirms(p) /\ has_quorum(config(r.log), p.acks)}
  IN  IF r.role # "Leader" THEN r
      ELSE [heard EXCEPT !.pending_reads = acked \ done,
                         !.reads = @ \cup
                            {[ctx |-> p.ctx, index |-> p.index] : p \in done}]

\* Variant: takes over at once, without an election.
handle_timeout_now_at_once(r) == IF promotable(r) THEN become_leader(r) ELSE r

handle_timeout_now(r) == IF promotable(r) THEN campaign(r) ELSE r

-----------------------------------------------------------------------------
(* The Ready hand-over between the state machine and its driver *)

\* Raft::ready, what the driver is given.  first is the index of the first of
\* the entries to write.
ready(r) ==
  LET first == IF r.dirty_from < first_index(r.log) THEN first_index(r.log)
               ELSE r.dirty_from
      commit == IF r.commit < last_index(r.log) THEN r.commit
                ELSE last_index(r.log)
      must_persist == /\ r.hard_state_dirty
                      /\ [term |-> r.term, vote |-> r.vote] # r.persisted_hs
  IN  [hard_state |-> IF must_persist THEN HardState(r.term, r.vote, r.commit)
                      ELSE None,
       first |-> first,
       entries |-> IF r.dirty_from = 0 THEN <<>> ELSE entries_from(r.log, first),
       snapshot |-> r.snapshot,
       messages |-> r.messages,
       committed |-> slice(r.log, r.applied + 1, commit + 1),
       reads |-> r.reads]

\* Raft::ready, what it leaves behind.
after_ready(r) ==
  LET last == last_index(r.log)
  IN  [r EXCEPT !.messages = {}, !.snapshot = None, !.reads = {},
                !.dirty_from = IF @ # 0 /\ @ < first_index(r.log)
                               THEN first_index(r.log) ELSE @,
                !.hard_state_dirty = FALSE,
                !.commit = IF @ < last THEN @ ELSE last,
                !.persisted = IF @ < last THEN @ ELSE last]

\* Variant: off by one.
set_persisted_short(r, index) ==
  [r EXCEPT !.persisted = IF index < last_index(r.log) THEN index - 1
                          ELSE last_index(r.log) - 1]

set_persisted(r, index) ==
  [r EXCEPT !.persisted = IF index < last_index(r.log) THEN index
                          ELSE last_index(r.log)]

advance(r, rd) ==
  LET saved == IF rd.hard_state = None THEN r
               ELSE [r EXCEPT !.persisted_hs =
                       [term |-> rd.hard_state.term, vote |-> rd.hard_state.vote]]
      mine == IF r.id \in tracked(r)
              THEN [saved EXCEPT !.progress[r.id] =
                      [@ EXCEPT !.matched = r.persisted, !.next = r.persisted + 1]]
              ELSE saved
      led == IF r.role = "Leader" THEN maybe_advance_commit(mine) ELSE mine
  IN  [led EXCEPT !.applied = IF rd.committed = <<>> THEN @ ELSE r.commit,
                  !.dirty_from = 0]

-----------------------------------------------------------------------------
(* Snapshots and the end of a joint transition, driven by the housekeeping *)

snapshot_at_applied(r, data) ==
  [last_index |-> r.applied, last_term |-> term_at(r.log, r.applied),
   config |-> config(r.log), data |-> data]

compact(r, snap) ==
  [r EXCEPT !.log =
     compact_through(@, snap.last_index, snap.last_term, snap.config)]

should_snapshot(r) == r.applied - r.log.snapshot_index >= SnapshotInterval

followers_needing_snapshot(r) ==
  {s \in tracked(r) \ {r.id} :
     r.progress[s].state = "Snapshot" /\ ~r.progress[s].pending_snapshot}

\* send_snapshot, to each of a set of peers.
send_snapshot(r, ps, snap) ==
  send_all([r EXCEPT !.progress = [s \in Server |->
              IF s \in ps THEN [@[s] EXCEPT !.pending_snapshot = TRUE,
                                            !.state = "Snapshot"]
              ELSE @[s]]],
           ps, [type |-> "SnapshotReq", snapshot |-> snap])

maybe_finish_config_change(r) ==
  LET held == slice(r.log, first_index(r.log), r.commit + 1)
      joint_committed == \E k \in DOMAIN held : held[k].kind.type = "EnterJoint"
  IN  IF joint_committed /\ CanPropose(r, LeaveJoint)
      THEN propose_config(r, LeaveJoint) ELSE r
=============================================================================
