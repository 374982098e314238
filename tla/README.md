# ChronoLog and ChronoScope in TLA+

ChronoLog is a replicated key-value store on Raft; ChronoScope is the
deterministic simulator, with its oracles, that tests it. The modules here model
both, from the Rust sources under `src/crates/`. TLC checks them on small
instances, and TLAPS proves the central safety results for every number of
servers and every bound.

## The system and its modules

A server is a pure state machine (`raft.rs`) inside a driver (`node.rs`). Feeder
tasks put ticks, messages and requests on a queue (`chan.rs`). The driver takes a
batch of them through the state machine, asks it for a `Ready`, writes that to the
write-ahead log (`wal.rs`), sends the messages, applies committed entries to the
store (`kv.rs`), answers clients (`client.rs`), and advances. The simulator
(`kernel.rs`) runs these tasks under virtual time, with partitions, pauses, crashes
and power loss. The harness (`scenario.rs`) looks at the cluster after every slice
of time, shows it to the safety oracles (`invariants.rs`) and to the liveness
watchdog (`liveness.rs`), and gives the clients' history to the linearizability
checker (`linearizability.rs`).

| Module | Code | State and actions |
| --- | --- | --- |
| `Membership` | `types.rs`, `log.rs` | configurations, joint or not, as records; quorums and the quorum index as operators |
| `RaftLog` | `log.rs` | a log as a record; append, merge, truncate, compact, install, replay as operators |
| `RaftNode` | `raft.rs`, `msg.rs` | a node as a record `r`; every method of `Raft` is an operator from `r` to `r`, and keeps its name |
| `Driver` | `node.rs`, `wal.rs` | disks as records; the parts of `persist`, `reconcile`, housekeeping and recovery as operators |
| `Types` | `types.rs`, `msg.rs` | the types of all of these, over a set of entries and a set of configurations |
| `Cluster` | `node.rs`, `raft.rs` | the composition: nodes, disks and a network; one action per event, and the ways a cycle of the driver ends |
| `Voting` | | what elections rest on, as an abstract specification: terms, votes, ballots and the hard state on disk; and the trail of votes, the invariant behind Election Safety |
| `Elections` | | `Voting` instantiated for a cluster with a fixed membership |
| `Wal` | `wal.rs`, `kernel.rs` | files with unsynced operations; one step per storage call, power loss between any two |
| `DurableLog` | | what the log promises its caller, as a specification of its own |
| `Sessions` | `client.rs`, `kv.rs`, `node.rs` | clients with deadlines, retries and hints; replicas with pending tables and session tables |
| `Kernel` | `kernel.rs`, `chan.rs`, `node.rs`, `scenario.rs` | tasks, wakers, timers and faults; one step per poll, per fired timer and per decision of the harness |
| `Linearizability` | `linearizability.rs`, `history.rs` | the recording of a history, and the search as a stack machine |
| `Watchdog` | `liveness.rs`, `invariants.rs`, `scenario.rs` | the clocks of the watchdog; one action, `observe` |

`MC…` modules give constants their values. `…Proofs` modules hold the proofs, and
`Handling` the laws by which the proofs about a cluster know its nodes.
Definitions named like another with a suffix (`majority_half`, `repair_none`) and
commented as a *variant* are plausible mistakes in that definition. Nothing of the
specifications uses them; substituted for the definition, each makes one property
fail, which shows that the property depends on it.

### How the models correspond to the code

*Cluster.* The batch loop of the driver has no await in it, and nothing a batch
does is visible elsewhere before the sends of its cycle. So events of a node change
only `raft[i]`, `batch` says which node is in the middle of a batch, and a cycle is
one step, `Cycle`. Where a crash or a full disk cuts a cycle short there are actions
of their own: `CrashInPersist`, `CrashInHousekeeping`, `DiskFull`, `DriverStops`.
Messages stay in `net` for ever, which covers loss, repetition, delay and
reordering; `Links` says which pairs can talk. `elected`, `committed`, `durable`,
`forgot` and `served` are history that only properties read.

Abstractions: tick counters become the choice whether a timeout is due; the byte
budget of an append is folded into `MaxEntriesPerAppend`; the state machine is the
sequence of applied entries; the log on disk is one segment, with hard state and
snapshot written atomically (what justifies that is module `Wal`); a `save_snapshot`
that fails in housekeeping is the same as one not due; `lease_valid` only reads and
is left out.

*Wal.* An operation of the log is the sequence of storage calls it still has to
make. A crash keeps any allowed part of what no fsync covered, as `power_loss` does:
whole operations, torn writes, or nothing. A record within one sector tears by being
lost; the sector size is a parameter of the simulator, so any record may tear here. Sizes
are counted in records, with one exception: a hard state with a vote in it is longer than
one without, which decides whether a full disk can refuse it. `open` and
`remove` are durable at once, as they are in the simulator, where `sync_dir` only
takes time. What the driver may ask for, and when, is taken from `persist` and
`reconcile`.

*Sessions.* Consensus is external here: `become_leader` gives any replica a log that
holds everything committed, and a leader commits and applies in one step. A leadership lost and
regained between two looks of the driver keeps the pending table, as in the code.
Requests and replies are sets, so the order of a client's inbox is any order. Replies
to calls that have ended are dropped when sent. A hint names the current leader. The
end of a client's inbox is not modelled, and neither are reads. A snapshot lists only the clients that are in
the session table, and `restored` rebuilds the table from that list.

*Kernel.* A poll runs a task up to its next wait, in one step; each draw of the
generator is a choice. Mailboxes and queues are counted, since contents do not
matter. Timers that are due together fire in any order, and the sequence number that
breaks ties is left out. Clock skew and steps, corrupted payloads, clients, servers
that join later, the livelock budget and panicking tasks are left out.

*Linearizability.* The window of operations placed ahead (`AHEAD`) and the budget
(`max_states`) are parameters; in the code they are 63 and a limit. The properties
compare the verdict with a definition that tries every order that real time allows, in
which an operation without an answer may take effect at any time after its invocation, or
never.

*Watchdog.* Slices have length one. In the recovery phase the harness passes
"healthy" without asking; there every server is up and no link is cut
(`RecoveryIsCalm`), so those views are among the ones modelled.

## What TLC checks

| Run | Instance | Properties |
| --- | --- | --- |
| `elections` | three voters, PreVote, two rivals, a crash, a full disk; or one node that polls three times | `VotesAreKept`, `ElectionSafety`, `CampaignsAreGranted`, `DriverAlive`, `ImplementsVoting` |
| `replication` | three voters that compact at every entry, in four scenes: conflicting logs; a joint transition to one voter; a read and a new leader; a learner reached by snapshot, and a crash | `TypeOK`, `LogMatching`, `LeaderCompleteness`, `StateMachineSafety`, `KvMatchesApplied`, `PersistedIsOnDisk`, `Durability`, `ReadsAreCurrent` |
| `crash` | two nodes, batches of two events, a write, a transfer, a crash | `MatchedIsDurable`, `DriverAlive`, `ElectionSafety`, `CommitMonotone` |
| `wal` | four indices, segments of two, truncation; five saves of the hard state; four snapshots; two full disks, two crashes | `ImplementsDurableLog`, `MemoryIsDisk`, `HardStateKept`, `SnapshotKept`, `Reconnects` |
| `sessions` | two replicas; a client whose first request is delayed, a request of another client; two elections, crashes or snapshots | `ExactlyOnce`, `AnswersAreTrue`, `LiveCallNotRefused`, `CallsReturn` |
| `kernel` | two servers, two faults of one or two slices, two slices and a recovery | `NoLostWakeup`, `OneIncarnation`, `FaultsEnd`, `RecoveryIsCalm`, `RunReturns` |
| `linearizability` | two clients, four operations, times 0 to 4, a window of two, twelve states | `NoFalseAlarm`, `ViolationsAreFound` |
| `watchdog` | three servers, four views of eighteen kinds, budgets of one slice | `AlarmsNeedCalm`, `StallsAreReported` |
| `restored_joint` | a restart during the first membership change | `ElectionSafety`, violated |
| `torn_reset` | a reset over two segments, a crash | `Reconnects`, violated |
| `late_effect` | three operations, one without an answer | `ViolationsAreReal`, violated |
| `missed_violation` | three operations, one within another | `AcceptedIsLinearizable`, violated |

Each property is stated in words above its definition. The deeper ones:
`VotesAreKept` follows a vote through memory, disk and network; `MatchedIsDurable`
relates what a leader counts to what another node's disk would bring back;
`ImplementsDurableLog` is refinement, step by step, across torn writes;
`AnswersAreTrue` compares what clients were told with the committed log;
`RecoveryIsCalm` says that no timer left from a fault disturbs the phase in which the
harness demands progress; `ViolationsAreFound` compares a bounded search with all orders.

### Bounds

Every counter is bounded by a constant named in its guard. The bounds are the least
at which the case of interest occurs. Two rivals and one common voter give split,
repeated and conflicting votes; two crashes let a second recovery read what the first
one repaired; segments of two records with four indices give rollover, truncation
across a segment and a reset; two overlapping faults are what partition counts and
stale `Resume` timers need; a window of two with four operations moves the frontier over
operations placed ahead and shifts the rest. The star topology of
three runs keeps two rivals apart and every quorum possible. Symmetry is used only
where no constant and no liveness property tells servers apart.

Several runs consist of *scenes*: behaviours start from one of several states, each with
part of the bounds already spent, so that each scene goes deep in one direction. Where a
scene starts from disks that are not fresh (`RivalDisks`, `EagerDisks`, `ShrunkDisks`,
`AheadDisks`), these are reachable from fresh ones in more elections than can be searched.
`Candidates` says whose the k-th election timeout may be; the count starts where the
scene says, so every scene has its own candidates. The scenes of `replication` are listed
above. In the second one of `elections` a node polls, hears of a later term, fails to
write it down, crashes, and polls again, so that answers to all its polls are around. In
`wal` the log grows and is cut; hard states are saved while the disk fills up; snapshots
follow each other until each slot is used again.

`wal` resets over one segment and keeps batches within a segment: with more,
`Reconnects` fails, as `torn_reset` shows.

`wal`, `sessions`, `kernel`, `linearizability` and `watchdog` do not check for
deadlock, because they end by design: the bounds are spent, every call has returned,
or the verdict is given.

### Fairness

Two modules state fairness, and only what the code's own scheduling gives.
`Kernel`: the run loop takes a step as long as there is one (`WF_vars(Next)`), since
`run_until` is a loop of one thread; no poll and no timer is favoured. `Sessions`:
weak fairness of a client's attempts, of giving up and of its deadlines, which are a
runnable task and a timer of the client's host; none for servers or messages. `Cluster`
has none: whether a leader is elected depends on randomised
timeouts, and under any fairness two candidates may split votes for ever.

## What is proved

For any finite set of servers, any bounds, any links, batch sizes and snapshot
intervals (the assumptions are `ServerAssumption`, `OptionsAssumption`,
`NoneAssumption` and `ClusterAssumption`):

* `QuorumsMeet`, `JointQuorumsMeet`, `QuorumIndexIsHighest` (`RaftProofs`): quorums of a
  configuration share a voter, so do quorums across a joint transition, and
  `quorum_index` is the highest index a quorum has matched.
* `TypeCorrect` (`RaftProofs`): `Spec => []TypeOK`.
* `ClusterImplementsVoting` (`RaftProofs`): with a fixed membership (`MaxReconfigs = 0`),
  `Spec => ImplementsVoting`: every step of the cluster is one of `Voting` or leaves its
  part of the state alone.
* `VotingKeepsVotes` and `VotingElectsOne` (`VotingProofs`): of `Voting`, for any set of
  nodes, `[]VotesAreKept`, and `[]ElectionSafety` where any two quorums meet.
* `VotesKept` and `OneLeaderPerTerm` (`RaftProofs`): hence, with a fixed membership,
  `Spec => []VotesAreKept` and `Spec => []ElectionSafety`, through crashes at any point
  of a cycle, restarts, full disks, and lost, repeated or reordered messages.

For any number of clients, servers, calls and attempts (`SessionsAssumption`):

* `RequestsRunOnce`, `AnswersTrue`, `LiveCallsServed` (`SessionProofs`):
  `Spec => []ExactlyOnce`, `[]AnswersAreTrue` and `[]LiveCallNotRefused`.

For any number of nodes, faults and lengths of the spells:

* `WakeupsNeverLost`, `IncarnationsDisjoint`, `FaultsAlwaysEnd`, `RecoveryStaysCalm`
  (`KernelProofs`): the four safety properties of the `kernel` run.

For any budgets and any number of views (`WatchdogAssumption`):

* `AlarmsInCalm` and `StallsReported` (`ContractProofs`): the two properties of the
  `watchdog` run.
* `DurableLogSafe` and `DurableLogStays` (`ContractProofs`): the abstract log has no
  hole and keeps what was acknowledged, and no step changes an entry that is still owed.

### The arguments

*One leader per term.* `ElectionSafety` is not inductive, since it
says nothing about votes not yet counted. `VotesAreKept` adds that the disk is between
what was acknowledged and what is in memory, that a vote is on disk before anyone can
see it and marked for writing until then, that a node's votes in a term agree, that
grants answer requests, that a candidate counts only votes sent to it, and that every
leadership rests on a quorum of such votes. Two leaders of a term then share a voter
(`QuorumsMeet`), whose votes agree. All this is about a few fields of the state, so it
is stated and proved of `Voting`, which has the steps a node can take as far as those
fields show them (stay, stand, answer a request, count an answer; end a batch with
everything written and sent, or before), and the cluster is shown to implement it. Types are the other half of the induction:
`Typed(E, C)` is the type invariant over any closed universe of entries `E` and
configurations `C`, used once for `TypeOK` and once with plain entries and the boot
configuration alone.

*Sessions.* The answers a client has seen say nothing about the replies still on their
way, nor about what a replica will answer to a retry. `SessionsInv` adds that every
store is what executing a prefix of the committed log gives, session table included,
that a leader's log holds everything committed, that calls of a client are numbered in
order, and that every reply in flight is true of the committed log.

*Kernel.* `WakeInv` says at which of its stages each task is, which wakers and which
timers exist for it there, and that a task that has been woken is ready; `FaultInv`
that every partition, freeze and crash has exactly the timers that end it, told
apart by their ids, and that none is added once the recovery has begun. Each step
keeps `FaultInv` as long as nodes and timers have their types (`FaultProofs`), which is
part of `WakeInv` (`KernelProofs`).

*Watchdog.* `ClocksInv` says of each clock which view it stands at and what was seen
from there on, whether the cluster was healthy in between or not.

The proofs about servers are layered like the code. `NodeProofs`: operations on logs;
helpers of `raft.rs`; each handler keeps types, and says what it does to term, vote and
ballots (`Calm`: none of these change); the same for the parts of a driver's cycle. It
ends with the laws of `Handling` (`LawsHold`). `ClusterProofs` knows nodes by these laws
only: each event, each way a batch ends, crashes; the type invariant; and the step of
`Voting` that each of them is. `RaftProofs` puts them together, and has the facts about
quorums.

Only model-checked: everything else. Liveness (`CallsReturn`, `RunReturns`) and what recursive definitions compute (the reference definitions of
`Linearizability`) are outside the prover's reach. That `Wal` implements `DurableLog`
is checked on its instance; for `LogMatching`, `LeaderCompleteness`,
`PersistedIsOnDisk`, `MatchedIsDurable` and `KvMatchesApplied` no inductive invariant
has been worked out, and some of them hold only under the conditions below.

## Disagreements met while modelling

Four are kept as runs that end in a violation.

* `restored_joint`: a node that restarts without a snapshot after its first
  `EnterJoint` replays it on an empty configuration and comes back without the outgoing
  half (`raft.rs:351`). Two nodes then lead in one term.
* `torn_reset`: `reset_to` removes segments oldest first (`wal.rs:604`), and a crash in
  between leaves a segment that recovery accepts, because the check for a gap is
  skipped while nothing has been read (`wal.rs:254`). `Log::restore` asserts the
  opposite. A batch larger than a segment, written from an empty first segment, leads to
  the same state.
* `late_effect`: an operation with an unknown outcome is taken to end when its client gave
  up (`linearizability.rs:366`), although "a checker must be allowed to linearize it
  anywhere, or not at all" (`history.rs:68`). A write that takes effect later is reported as
  a violation. `NoFalseAlarm` holds where nothing is invoked after an unanswered operation
  on its key was given up (`UnknownsStayOpen`).
* `missed_violation`: candidates are compared with the return of the frontier operation
  only, so an operation may be placed before one that had returned when it was invoked, and
  a history that is not linearizable is accepted, against `linearizability.rs:315`.
  `ViolationsAreFound` holds where no operation encloses two others of
  its key in sequence (`NothingEnclosed`).

The others were found with the same modules and different bounds.

* A follower that is sent entries it already holds cuts them off the disk and writes
  them again (`node.rs:643`); a crash in between loses entries that were durable and
  committed. `BUGS.md` has the symptom as CS-018. Properties that depend on it carry the
  condition `~forgot`, and `Durability` is checked in `replication`, where no
  crash falls on a rewritten log.
* `snapshot_at_applied` takes the configuration of the whole log (`raft.rs:810`), so a
  snapshot may carry an uncommitted change; after a replay on top of it a leader may
  lack a committed entry.
* A full disk while a received snapshot is saved loses the snapshot: `ready()` has
  handed it over and cleared it, and it is not regenerated (`node.rs:448`). The store
  then misses what `applied` says it has.
* A crash between saving a received snapshot and restarting the log after it leaves a
  log below the snapshot; with a delayed append the next write is a gap, and the driver
  stops (`node.rs:648`).
* `state_seq` advances before a write that can fail (`wal.rs:496`), so the save after a
  failed one overwrites the live copy; torn there, it leaves no readable hard state, the
  accident that the two slots are there to prevent (`wal.rs:490-494`). One failed
  save is enough: the file grows when a slot is first written, and by the bytes of a vote
  when a hard state without one is overwritten by one with. `HardStateKept` excludes just
  this case: an odd number of failed saves since the last that returned. With the sector
  sizes in use, 512 and 4096, a hard state lies within a sector, and the loss cannot happen.
* The watchdog's commit clock also runs while no client waits or no leader is there, so
  the first waiting client after an idle time longer than the budget raises an alarm: two
  idle views and one with work are enough. `liveness.rs:94` says "while work is offered", and
  `:163` that an idle cluster is not a stall. A follower is judged by the highest end its log
  ever had, so one whose log was cut is reported while it grows back, against
  `liveness.rs:256`. `AlarmsNeedCalm` says what remains: no clock runs through a disruption.
* Answers to a poll are not matched with it (`raft.rs:1065`), although the comment at
  `raft.rs:1048` says the answer carries its term "so the candidate can match it up". Three
  polls, a full disk and a crash let an election rest on answers to several of them;
  `CampaignsAreGranted` says that a quorum granted them between them, for this term, the
  one before or a later one since forgotten.
* `fire` sets the kernel's sequence number back to that of the timer (`kernel.rs:1592`),
  so pairs of time and sequence number are not unique.
* A deadline does not clear the leader hint (`client.rs:571`), so a call may spend every
  attempt on a server that is down.
* The comment at `wal.rs:233` announces that covered segments are dropped; no code does.

## Not modelled

* `codec.rs` and the encodings in `msg.rs`: pure data; a frame that does not decode is a
  lost message or an unreadable record here.
* `real.rs`: threads, sockets and files of the production host; what it has to
  guarantee is what `Cluster` and `Wal` assume.
* `trace.rs`, `rng.rs` and probabilities in `fault.rs`: observation, and the sampling of
  what is a choice here.
* The sampling of the safety oracles between slices, the membership controller and the
  report of `scenario.rs`, and the command lines.
* Eventual election and the automatic end of a joint transition: see Fairness.
