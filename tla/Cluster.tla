------------------------------- MODULE Cluster -------------------------------
(***************************************************************************)
(* A cluster of nodes: the driver loop of chronolog/src/node.rs around each *)
(* Raft state machine, the disks it writes, and the network between them.   *)
(*                                                                         *)
(* A node turns events (ticks, messages, requests) into a new raft[i], and  *)
(* after a batch of them runs one cycle: persist, reconcile, send, apply,   *)
(* advance, housekeeping.  The batch loop has no await in it and nothing of *)
(* a batch is visible to another node before the cycle's sends, so a node   *)
(* in the middle of a batch runs alone (variable batch), and a cycle is one *)
(* step, except where a crash or a full disk cuts it short.                 *)
(*                                                                         *)
(* Messages stay in net for ever: a message may be delivered late, twice,   *)
(* out of order, or never.                                                  *)
(***************************************************************************)
EXTENDS Types

CONSTANTS
  InitialVoters,   \* the bootstrap configuration's voters
  Changes,         \* the EnterJoint changes an administrator may ask for
  Links,           \* <<from, to>> pairs; messages on other links are lost
  Candidates,      \* <<i, k>>: the k-th election timeout to fire may be i's
  Readers,         \* the nodes clients send their reads to
  MaxElections,    \* election timeouts that fire
  MaxBeats,        \* heartbeat ticks of leaders
  MaxChecks,       \* quorum checks of leaders
  MaxWrites, MaxReads, MaxReconfigs, MaxTransfers,   \* requests
  MaxCrashes,      \* crashes, each followed by a restart
  MaxFull,         \* writes that find the disk full
  MaxBatch         \* events per cycle

ASSUME ClusterAssumption ==
  /\ InitialVoters \subseteq Server /\ InitialVoters # {}
  /\ Candidates \subseteq Server \X (Nat \ {0}) /\ Readers \subseteq Server
  /\ Links \subseteq Server \X Server
  /\ \A c \in Changes : \E V, L \in SUBSET Server : c = EnterJoint(V, L)
  /\ MaxBatch \in Nat \ {0}
  /\ {MaxElections, MaxBeats, MaxChecks, MaxWrites, MaxReads, MaxReconfigs,
      MaxTransfers, MaxCrashes, MaxFull} \subseteq Nat

VARIABLES
  raft,       \* raft[i]: the Raft state machine of node i
  disk,       \* disk[i]: what node i has made durable
  kv,         \* kv[i]: the entries applied to i's state machine, in order
  alive,      \* alive[i]: i's driver has not stopped with an error
  led,        \* led[i]: was_leader, i led at the end of its last batch
  waiting,    \* waiting[i]: reads not yet answered, [ctx, floor]
  net,        \* every message ever sent
  batch,      \* [node, size]: the node in the middle of a batch, and how far
  used        \* how much of each bound is consumed

\* History, read by the properties only.
VARIABLES
  elected,    \* <<term, node>> for every leadership that sent messages
  committed,  \* [index, entry, term]: first seen committed, in which term
  durable,    \* durable[i]: the highest index published as durable and
              \* committed by i (the durability oracle's high-water mark)
  forgot,     \* a restart came back without an entry that memory still held
              \* and that had been acknowledged as durable
  served      \* [floor, seen] for every linearizable read answered

history == <<elected, committed, durable, forgot, served>>
vars == <<raft, disk, kv, alive, led, waiting, net, batch, used, history>>

boot == simple(InitialVoters)

Unspent ==
  [elections |-> 0, beats |-> 0, checks |-> 0, writes |-> 0, reads |-> 0,
   reconfigs |-> 0, transfers |-> 0, crashes |-> 0, full |-> 0]

\* Every node has just started on the given disks.
InitFrom(disks, spent) ==
  /\ disk = disks
  /\ raft = [i \in Server |-> recover(i, disks[i], boot)]
  /\ kv = [i \in Server |-> recovered_kv(disks[i])]
  /\ alive = [i \in Server |-> TRUE]
  /\ led = [i \in Server |-> FALSE]
  /\ waiting = [i \in Server |-> {}]
  /\ net = {}
  /\ batch = [node |-> None, size |-> 0]
  /\ used = spent
  /\ elected = {} /\ committed = {} /\ served = {}
  /\ durable = [i \in Server |-> 0]
  /\ forgot = FALSE

FreshDisks == [i \in Server |-> FreshDisk]

Init == InitFrom(FreshDisks, Unspent)

-----------------------------------------------------------------------------
(* Events.  An event gives node i a new state machine r and new unanswered
   reads w; u is what remains of the bounds. *)

Idle == [node |-> None, size |-> 0]

\* The nodes whose driver takes events now.
Listening ==
  {i \in Server : alive[i] /\ batch.node \in {None, i} /\ batch.size < MaxBatch}

Inbox(i) == {m \in net : m.to = i}

Event(i, r, w, u) ==
  /\ raft' = [raft EXCEPT ![i] = r]
  /\ waiting' = [waiting EXCEPT ![i] = w]
  /\ batch' = [node |-> i, size |-> batch.size + 1]
  /\ used' = u
  /\ UNCHANGED <<disk, kv, alive, led, net, history>>

Step(i, r) == Event(i, r, waiting[i], used)

-----------------------------------------------------------------------------
(* Ticks *)

LeaderTick(i) ==
  /\ raft[i].role = "Leader"
  /\ \E beat, check \in BOOLEAN, expired \in SUBSET InFlight(raft[i]) :
       /\ beat => used.beats < MaxBeats
       /\ check => used.checks < MaxChecks
       /\ Event(i, leader_tick(raft[i], beat, check, expired), waiting[i],
                [used EXCEPT !.beats = IF beat THEN @ + 1 ELSE @,
                             !.checks = IF check THEN @ + 1 ELSE @])

ElectionTimeout(i) ==
  /\ <<i, used.elections + 1>> \in Candidates
  /\ raft[i].role # "Leader"
  /\ promotable(raft[i])
  /\ used.elections < MaxElections
  /\ Event(i, start_election(raft[i]), waiting[i],
           [used EXCEPT !.elections = @ + 1])

\* A tick that finds no timer due still ends in a cycle.
QuietTick(i) == raft[i].role # "Leader" /\ Step(i, raft[i])

-----------------------------------------------------------------------------
(* Messages: Raft::step, one action per kind of message *)

Receives(i, m, type) == m.body.type = type /\ m.term >= raft[i].term

StaleTerm(i, m) ==
  /\ m.term < raft[i].term
  /\ Step(i, reject_stale(raft[i], m))

PreVoteRequest(i, m) ==
  /\ Receives(i, m, "PreVoteReq")
  /\ \E recent \in BOOLEAN : Step(i, handle_pre_vote_req(raft[i], m, recent))

PreVoteResponse(i, m) ==
  /\ Receives(i, m, "PreVoteResp")
  /\ Step(i, handle_pre_vote_resp(raft[i], m))

VoteRequest(i, m) ==
  /\ Receives(i, m, "VoteReq")
  /\ Step(i, handle_vote_req(observe_term(raft[i], m), m))

VoteResponse(i, m) ==
  /\ Receives(i, m, "VoteResp")
  /\ Step(i, handle_vote_resp(observe_term(raft[i], m), m))

AppendRequest(i, m) ==
  /\ Receives(i, m, "AppendReq")
  /\ Step(i, handle_append(observe_term(raft[i], m), m))

AppendResponse(i, m) ==
  /\ Receives(i, m, "AppendResp")
  /\ Step(i, handle_append_resp(observe_term(raft[i], m), m))

SnapshotRequest(i, m) ==
  /\ Receives(i, m, "SnapshotReq")
  /\ Step(i, handle_snapshot(observe_term(raft[i], m), m))

SnapshotResponse(i, m) ==
  /\ Receives(i, m, "SnapshotResp")
  /\ Step(i, handle_snapshot_resp(observe_term(raft[i], m), m))

HeartbeatRequest(i, m) ==
  /\ Receives(i, m, "HeartbeatReq")
  /\ Step(i, handle_heartbeat(observe_term(raft[i], m), m))

HeartbeatResponse(i, m) ==
  /\ Receives(i, m, "HeartbeatResp")
  /\ Step(i, handle_heartbeat_resp(observe_term(raft[i], m), m))

TimeoutNow(i, m) ==
  /\ Receives(i, m, "TimeoutNow")
  /\ Step(i, handle_timeout_now(observe_term(raft[i], m)))

-----------------------------------------------------------------------------
(* Requests *)

ClientWrite(i) ==
  /\ raft[i].role = "Leader"
  /\ used.writes < MaxWrites
  /\ Event(i, propose(raft[i], Normal(used.writes + 1)), waiting[i],
           [used EXCEPT !.writes = @ + 1])

\* A linearizable read; floor is the last index any client could have been
\* told about when it was asked.
ClientRead(i) ==
  LET r == read_index(raft[i])
      floor == Max({0} \cup {c.index : c \in committed})
  IN  /\ i \in Readers
      /\ CanRead(raft[i])
      /\ used.reads < MaxReads
      /\ Event(i, r, waiting[i] \cup {[ctx |-> r.read_ctx, floor |-> floor]},
               [used EXCEPT !.reads = @ + 1])

Admin(i) ==
  \E change \in Changes \cup {LeaveJoint} :
    /\ CanPropose(raft[i], change)
    /\ used.reconfigs < MaxReconfigs
    /\ Event(i, propose_config(raft[i], change), waiting[i],
             [used EXCEPT !.reconfigs = @ + 1])

TransferLeadership(i) ==
  /\ raft[i].role = "Leader"
  /\ used.transfers < MaxTransfers
  /\ \E target \in Server \ {i} :
       /\ is_voter(config(raft[i].log), target)
       /\ Event(i, transfer_leadership(raft[i], target), waiting[i],
                [used EXCEPT !.transfers = @ + 1])

-----------------------------------------------------------------------------
(* The cycle that ends a batch *)

Carried(ms) == {m \in ms : <<m.from, m.to>> \in Links}

\* Reads still waiting once the loss of leadership was noticed.
Kept(i) == IF led[i] /\ raft[i].role # "Leader" THEN {} ELSE waiting[i]

\* The entries of log l that r knows committed and nobody knew before.  The log
\* is the one the cycle began with: housekeeping may compact it.
SeenCommitted(l, r) ==
  {[index |-> k, entry |-> l.entries[k - l.snapshot_index], term |-> r.term] :
      k \in {k \in first_index(l) .. last_index(l) :
               /\ k <= r.commit
               /\ \A c \in committed :
                    ~(c.index = k /\ c.entry = l.entries[k - l.snapshot_index])}}

\* A leadership counts from the first cycle whose messages leave the node.
Led(i) ==
  elected' = elected \cup
    (IF raft[i].role = "Leader" THEN {<<raft[i].term, i>>} ELSE {})

\* publish: what the oracles are shown.
Publish(i, r) ==
  /\ Led(i)
  /\ committed' = committed \cup SeenCommitted(raft[i].log, r)
  /\ durable' = [durable EXCEPT ![i] =
       Max({@, IF r.persisted < r.commit THEN r.persisted ELSE r.commit})]

Cycle(i) ==
  LET rd == ready(raft[i])
      answered == {q \in Kept(i) : \E x \in rd.reads : x.ctx = q.ctx}
  IN  /\ batch.node = i
      /\ ~append_gap(disk[i], rd, raft[i].dirty_from)
      /\ \E c \in {cycle(raft[i], disk[i], kv[i])} :
           /\ raft' = [raft EXCEPT ![i] = c.raft]
           /\ disk' = [disk EXCEPT ![i] = c.disk]
           /\ kv' = [kv EXCEPT ![i] = c.kv]
           /\ served' = served \cup
                {[floor |-> q.floor, seen |-> Len(c.kv)] : q \in answered}
           /\ Publish(i, c.raft)
      /\ led' = [led EXCEPT ![i] = raft[i].role = "Leader"]
      /\ waiting' = [waiting EXCEPT ![i] = Kept(i) \ answered]
      /\ net' = net \cup Carried(rd.messages)
      /\ batch' = Idle
      /\ UNCHANGED <<alive, used, forgot>>

\* A refused append stops the driver for good.
DriverStops(i) ==
  LET rd == ready(raft[i])
  IN  /\ batch.node = i
      /\ append_gap(disk[i], rd, raft[i].dirty_from)
      /\ raft' = [raft EXCEPT ![i] = after_ready(@)]
      /\ disk' = [disk EXCEPT ![i] = voted(@, rd, raft[i].dirty_from)]
      /\ kv' = [kv EXCEPT ![i] = installed_kv(@, rd)]
      /\ alive' = [alive EXCEPT ![i] = FALSE]
      /\ batch' = Idle
      /\ UNCHANGED <<led, waiting, net, used, history>>

\* Variant: a full disk stops the driver.
DiskFullStops(i) ==
  /\ batch.node = i
  /\ used.full < MaxFull
  /\ FullDisks(disk[i], ready(raft[i]), raft[i].dirty_from, raft[i].log,
               kv[i]) # {}
  /\ alive' = [alive EXCEPT ![i] = FALSE]
  /\ batch' = Idle /\ used' = [used EXCEPT !.full = @ + 1]
  /\ UNCHANGED <<raft, disk, kv, led, waiting, net, history>>

\* ENOSPC: nothing is sent or advanced, a leader stands down, free_space may
\* or may not succeed, and what ready() handed over is gone.
DiskFull(i) ==
  LET rd == ready(raft[i])
      r1 == step_down(after_ready(raft[i]))
      freed(f) == IF can_snapshot(r1) /\ safe_to_compact(r1, f.disk)
                  THEN {take_snapshot(r1, f.disk, f.kv)} ELSE {}
  IN  /\ batch.node = i
      /\ used.full < MaxFull
      /\ ~append_gap(disk[i], rd, raft[i].dirty_from)
      /\ \E f \in FullDisks(disk[i], rd, raft[i].dirty_from, r1.log, kv[i]) :
           \E h \in {[raft |-> r1, disk |-> f.disk]} \cup freed(f) :
             /\ raft' = [raft EXCEPT ![i] = h.raft]
             /\ disk' = [disk EXCEPT ![i] = h.disk]
             /\ kv' = [kv EXCEPT ![i] = f.kv]
      /\ led' = [led EXCEPT ![i] = raft[i].role = "Leader"]
      /\ waiting' = [waiting EXCEPT ![i] = Kept(i)]
      /\ batch' = Idle /\ used' = [used EXCEPT !.full = @ + 1]
      /\ UNCHANGED <<alive, net, history>>

-----------------------------------------------------------------------------
(* Crashes *)

\* The restart of node i from disk d: everything volatile starts afresh.
Restart(i, d) ==
  /\ used.crashes < MaxCrashes
  /\ used' = [used EXCEPT !.crashes = @ + 1]
  /\ disk' = [disk EXCEPT ![i] = d]
  /\ raft' = [raft EXCEPT ![i] = recover(i, d, boot)]
  /\ kv' = [kv EXCEPT ![i] = recovered_kv(d)]
  /\ alive' = [alive EXCEPT ![i] = recoverable(d)]
  /\ led' = [led EXCEPT ![i] = FALSE]
  /\ waiting' = [waiting EXCEPT ![i] = {}]
  /\ batch' = Idle
  /\ UNCHANGED <<committed, durable, served>>

\* Disk d holds the entry that log l has at index k.
OnDisk(d, l, k) ==
  \/ k <= snap_index(d)
  \/ /\ k > d.wal.base /\ k <= wal_last_index(d.wal)
     /\ d.wal.entries[k - d.wal.base].term = term_at(l, k)

\* Disk d lacks an entry that i's log holds and that i counts as durable; in
\* the middle of a batch, one that the batch did not itself replace.
Forgets(i, d) ==
  LET l == raft[i].log
  IN  \E k \in first_index(l) .. raft[i].persisted :
        ~OnDisk(d, l, k) /\ (batch.node = i => OnDisk(disk[i], l, k))

\* A power loss while the driver waits for events, or has stopped.
Crash(i) ==
  /\ batch.node = None
  /\ Restart(i, disk[i])
  /\ forgot' = (forgot \/ Forgets(i, disk[i]))
  /\ UNCHANGED <<net, elected>>

\* Variant: messages leave before the writes they promise.
CrashAfterSend(i) ==
  /\ batch.node = i
  /\ \E d \in TornDisks(disk[i], ready(raft[i]), raft[i].dirty_from,
                        raft[i].log) :
       /\ Restart(i, d)
       /\ forgot' = (forgot \/ Forgets(i, d))
  /\ net' = net \cup Carried(ready(raft[i]).messages)
  /\ UNCHANGED elected

\* A power loss in the batch or its cycle, before anything is sent.
CrashInPersist(i) ==
  /\ batch.node = i
  /\ \E d \in TornDisks(disk[i], ready(raft[i]), raft[i].dirty_from,
                        raft[i].log) :
       /\ Restart(i, d)
       /\ forgot' = (forgot \/ Forgets(i, d))
  /\ UNCHANGED <<net, elected>>

\* A power loss after the sends, before the housekeeping saved a snapshot.
CrashInHousekeeping(i) ==
  /\ batch.node = i
  /\ ~append_gap(disk[i], ready(raft[i]), raft[i].dirty_from)
  /\ \E c \in {cycle(raft[i], disk[i], kv[i])} :
       /\ c.written # c.disk
       /\ Restart(i, c.written)
  /\ net' = net \cup Carried(ready(raft[i]).messages)
  /\ Led(i)
  /\ UNCHANGED forgot

-----------------------------------------------------------------------------
Deliver(i, m) ==
  \/ StaleTerm(i, m)
  \/ PreVoteRequest(i, m)    \/ PreVoteResponse(i, m)
  \/ VoteRequest(i, m)       \/ VoteResponse(i, m)
  \/ AppendRequest(i, m)     \/ AppendResponse(i, m)
  \/ SnapshotRequest(i, m)   \/ SnapshotResponse(i, m)
  \/ HeartbeatRequest(i, m)  \/ HeartbeatResponse(i, m)
  \/ TimeoutNow(i, m)

Next ==
  \/ \E i \in Listening :
       \/ LeaderTick(i) \/ ElectionTimeout(i) \/ QuietTick(i)
       \/ \E m \in Inbox(i) : Deliver(i, m)
       \/ ClientWrite(i) \/ ClientRead(i) \/ Admin(i) \/ TransferLeadership(i)
  \/ \E i \in Server :
       \/ Cycle(i) \/ DriverStops(i) \/ DiskFull(i)
       \/ Crash(i) \/ CrashInPersist(i) \/ CrashInHousekeeping(i)

Spec == Init /\ [][Next]_vars

-----------------------------------------------------------------------------
(* Properties *)

Node == NodeOf(Entry, Config(Server))
Disk == DiskOf(Entry, Config(Server))
Msg == MsgOf(Entry, Config(Server))

\* The fields of every node, disk and message have their types.
TypeOK ==
  /\ raft \in [Server -> Node] /\ \A i \in Server : raft[i].id = i
  /\ disk \in [Server -> Disk]
  /\ kv \in [Server -> Seq(Entry)]
  /\ alive \in [Server -> BOOLEAN] /\ led \in [Server -> BOOLEAN]
  /\ waiting \in [Server -> SUBSET [ctx : Nat, floor : Nat]]
  /\ net \subseteq Msg
  /\ batch \in [node : Server \cup {None}, size : 0 .. MaxBatch]
  /\ used \in [elections : 0 .. MaxElections, beats : 0 .. MaxBeats,
               checks : 0 .. MaxChecks, writes : 0 .. MaxWrites, reads : 0 .. MaxReads,
               reconfigs : 0 .. MaxReconfigs, transfers : 0 .. MaxTransfers,
               crashes : 0 .. MaxCrashes, full : 0 .. MaxFull]
  /\ elected \subseteq Nat \X Server
  /\ committed \subseteq [index : Nat, entry : Entry, term : Nat]
  /\ durable \in [Server -> Nat]
  /\ forgot \in BOOLEAN
  /\ served \subseteq [floor : Nat, seen : Nat]

\* Election Safety: no two nodes ever lead in the same term, whatever crashes
\* and full disks come between a vote and its answer.
ElectionSafety ==
  \A e, f \in elected : e[1] = f[1] => e[2] = f[2]

EntryAt(l, k) == l.entries[k - l.snapshot_index]

Holds(l, k, e) == k <= l.snapshot_index \/ (k <= last_index(l) /\ EntryAt(l, k) = e)

\* Leader Completeness: an entry once committed is in the log of every leader
\* of a later term, as long as no restart has forgotten an acknowledged entry.
LeaderCompleteness ==
  ~forgot =>
    \A i \in Server, c \in committed :
      raft[i].role = "Leader" /\ raft[i].term > c.term
        => Holds(raft[i].log, c.index, c.entry)

\* Log Matching: logs that agree on the term of an index agree on every entry
\* both hold up to it.
LogMatching ==
  \A i, j \in Server :
    LET a == raft[i].log
        b == raft[j].log
        low == Max({first_index(a), first_index(b)})
        high == Min({last_index(a), last_index(b)})
    IN  \A k \in low .. high :
          term_at(a, k) = term_at(b, k)
            => \A n \in low .. k : EntryAt(a, n) = EntryAt(b, n)

\* State Machine Safety: what two nodes have applied agrees, position by
\* position, whether it came from the log or from a snapshot.
StateMachineSafety ==
  ~forgot => \A i, j \in Server :
    \A k \in DOMAIN kv[i] \cap DOMAIN kv[j] : kv[i][k] = kv[j][k]

\* The state machine holds exactly the entries through the applied index.
KvMatchesApplied ==
  \A i \in Server : batch.node # i /\ alive[i] => Len(kv[i]) = raft[i].applied

\* What a node counts as durable is what a restart would bring back.
PersistedIsOnDisk ==
  \A i \in Server :
    batch.node # i /\ alive[i] =>
      LET l == raft[i].log
          back == recover(i, disk[i], boot).log
      IN  \A k \in first_index(l) .. raft[i].persisted :
            k <= back.snapshot_index \/ term_at(back, k) = term_at(l, k)

\* What a leader counts towards a quorum for a follower of its term is on
\* that follower's disk, entry for entry.
MatchedIsDurable ==
  \A i, j \in Server :
    /\ ~forgot /\ raft[i].role = "Leader" /\ j \in tracked(raft[i]) \ {i}
    /\ raft[j].term = raft[i].term /\ batch.node = None /\ alive[j]
    => LET l == raft[i].log
           back == recover(j, disk[j], boot).log
       IN  \A k \in first_index(l) .. raft[i].progress[j].matched :
             k <= back.snapshot_index \/ term_at(back, k) = term_at(l, k)

\* A node's log never ends before what it published as durable and committed.
Durability ==
  \A i \in Server : last_index(raft[i].log) >= durable[i]

\* No driver ever stops with an error.
DriverAlive == \A i \in Server : alive[i]

\* A linearizable read is answered from a state that contains everything
\* committed when it was asked.
ReadsAreCurrent == \A s \in served : s.seen >= s.floor

\* The nodes that granted a poll of i for a term no earlier than t.
GrantedSince(i, t) ==
  {m.from : m \in {m \in net : /\ m.body.type = "PreVoteResp"
                               /\ m.body.granted
                               /\ m.to = i /\ m.term >= t}}

\* With PreVote, and unless told to by the leader it succeeds, a node that
\* campaigns has been granted a poll by a quorum: the poll for the term it
\* campaigns in, one for the term before, or one for a later term that a crash
\* has made it forget.  Answers are not matched with polls (raft.rs:1065).
CampaignsAreGranted ==
  \A m \in net :
    m.body.type = "VoteReq"
      => has_quorum(boot, {m.from} \cup GrantedSince(m.from, m.term - 1))

\* The commit index of a running process never moves backwards.
CommitMonotone ==
  [][\A i \in Server :
       used'.crashes = used.crashes => raft'[i].commit >= raft[i].commit]_vars
=============================================================================
