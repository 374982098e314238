----------------------------- MODULE Membership -----------------------------
(***************************************************************************)
(* The membership of a cluster, possibly in the middle of a joint-consensus *)
(* transition: struct Config of chronolog/src/types.rs and apply_change of  *)
(* chronolog/src/log.rs.  All of it is pure; the operators are shared by    *)
(* the log, the Raft state machine and the quorum theorems.                 *)
(***************************************************************************)
EXTENDS Integers, FiniteSets

\* The possible configurations over a set S of nodes.
Config(S) == [voters : SUBSET S, outgoing : SUBSET S, learners : SUBSET S]

simple(V) == [voters |-> V, outgoing |-> {}, learners |-> {}]

is_joint(cfg) == cfg.outgoing # {}

all_nodes(cfg) == cfg.voters \cup cfg.outgoing \cup cfg.learners

is_voter(cfg, id) == id \in cfg.voters \cup cfg.outgoing

\* Variant: half of the group, rounded down, is enough.
majority_half(group, votes) ==
  group = {} \/ Cardinality(group \cap votes) >= Cardinality(group) \div 2

\* A strict majority of the group; an empty half does not constrain.
majority(group, votes) ==
  group = {} \/ 2 * Cardinality(group \cap votes) > Cardinality(group)

has_quorum(cfg, votes) ==
  /\ cfg.voters \cup cfg.outgoing # {}
  /\ majority(cfg.voters, votes)
  /\ is_joint(cfg) => majority(cfg.outgoing, votes)

\* idx[n/2] of the matched indices sorted in descending order: the value with
\* at most n/2 larger ones and more than n/2 at least as large.
quorum_of(group, matched) ==
  LET half == Cardinality(group) \div 2
  IN  CHOOSE v \in {matched[id] : id \in group} :
        /\ Cardinality({id \in group : matched[id] > v}) <= half
        /\ Cardinality({id \in group : matched[id] >= v}) > half

quorum_index(cfg, matched) ==
  LET a == quorum_of(cfg.voters, matched)
      b == quorum_of(cfg.outgoing, matched)
  IN  CASE cfg.voters # {} /\ cfg.outgoing # {} -> IF a <= b THEN a ELSE b
        [] cfg.voters # {} /\ cfg.outgoing = {} -> a
        [] cfg.voters = {} /\ cfg.outgoing # {} -> b
        [] OTHER -> 0

\* The two configuration changes a log entry can carry.
EnterJoint(incoming, learners) ==
  [type |-> "EnterJoint", incoming |-> incoming, learners |-> learners]

LeaveJoint == [type |-> "LeaveJoint"]

apply_change(cfg, change) ==
  IF change.type = "EnterJoint"
  THEN [voters |-> change.incoming, outgoing |-> cfg.voters,
        learners |-> change.learners]
  ELSE [cfg EXCEPT !.outgoing = {}]
=============================================================================
