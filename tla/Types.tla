------------------------------- MODULE Types -------------------------------
(***************************************************************************)
(* The sets the values of a node range over.  E is the set of log entries   *)
(* and C the set of configurations that occur: every entry and every        *)
(* configuration over Server in general, and fewer where membership never   *)
(* changes.                                                                 *)
(***************************************************************************)
EXTENDS Driver

\* What the log can hold.
PlainKind == [type : {"Noop"}] \cup [type : {"Normal"}, data : Nat]

ConfigKind ==
  [type : {"EnterJoint"}, incoming : SUBSET Server, learners : SUBSET Server]
  \cup [type : {"LeaveJoint"}]

PlainEntry == [term : Nat, kind : PlainKind]

Entry == [term : Nat, kind : PlainKind \cup ConfigKind]

LogOf(E, C) ==
  [snapshot_index : Nat, snapshot_term : Nat, snapshot_config : C,
   entries : Seq(E)]

SnapshotOf(E, C) ==
  [last_index : Nat, last_term : Nat, config : C, data : Seq(E)]

BodyOf(E, C) ==
  [type : {"VoteReq", "PreVoteReq"}, last_index : Nat, last_term : Nat]
  \cup [type : {"VoteResp", "PreVoteResp"}, granted : BOOLEAN]
  \cup [type : {"AppendReq"}, prev_index : Nat, prev_term : Nat,
        entries : Seq(E), commit : Nat]
  \cup [type : {"AppendResp"}, success : BOOLEAN, match_index : Nat,
        conflict_index : Nat, conflict_term : Nat]
  \cup [type : {"SnapshotReq"}, snapshot : SnapshotOf(E, C)]
  \cup [type : {"SnapshotResp"}, success : BOOLEAN, index : Nat]
  \cup [type : {"HeartbeatReq"}, commit : Nat, ctx : Nat]
  \cup [type : {"HeartbeatResp"}, ctx : Nat]
  \cup [type : {"TimeoutNow"}]

MsgOf(E, C) == [from : Server, to : Server, term : Nat, body : BodyOf(E, C)]

Slot == [next : Nat \ {0}, matched : Nat,
         state : {"Probe", "Replicate", "Snapshot"},
         pending_snapshot : BOOLEAN, active : BOOLEAN]

Vote == Server \cup {None}

NodeOf(E, C) ==
  [id : Server, term : Nat, vote : Vote, log : LogOf(E, C),
   commit : Nat, applied : Nat, persisted : Nat,
   role : {"Follower", "PreCandidate", "Candidate", "Leader"},
   leader : Vote, granted : SUBSET Server, refused : SUBSET Server,
   progress : [Server -> Slot \cup {None}],
   pending_reads : SUBSET [ctx : Nat, index : Nat, acks : SUBSET Server],
   read_ctx : Nat, committed_own_term : BOOLEAN,
   messages : SUBSET MsgOf(E, C), snapshot : SnapshotOf(E, C) \cup {None},
   reads : SUBSET [ctx : Nat, index : Nat],
   hard_state_dirty : BOOLEAN, persisted_hs : [term : Nat, vote : Vote],
   dirty_from : Nat]

DiskOf(E, C) ==
  [hs : [term : Nat, vote : Vote, commit : Nat],
   snap : SnapshotOf(E, C) \cup {None},
   wal : [base : Nat, entries : Seq(E)]]

\* None is none of the records whose absence it marks.
ASSUME NoneAssumption ==
  /\ None \notin [term : Nat, vote : Vote, commit : Nat]
  /\ None \notin SnapshotOf(Entry, Config(Server))
  /\ None \notin Slot
=============================================================================
