----------------------------- MODULE RaftProofs -----------------------------
(***************************************************************************)
(* The theorems about the Raft cluster: quorums meet and the quorum index  *)
(* is the highest, for every finite configuration; every step keeps the    *)
(* type invariant; and with a fixed membership every step keeps the votes, *)
(* so that a term has at most one leader.                                  *)
(***************************************************************************)
EXTENDS NodeProofs, ClusterProofs, FiniteSetTheorems, WellFoundedInduction

-----------------------------------------------------------------------------
(* Numbers *)

\* A nonempty set of naturals has a least element.
LEMMA LeastNatural ==
  ASSUME NEW S \in SUBSET Nat, S # {}
  PROVE  \E x \in S : \A y \in S : x <= y
<1> DEFINE less == {ss \in Nat \X Nat : ss[1] < ss[2]}
<1>1. less = OpToRel(<, Nat)
  BY Zenon DEF OpToRel
<1>2. IsWellFoundedOn(less, Nat)
  BY <1>1, NatLessThanWellFounded, Zenon
<1>3. \E x \in S : \A y \in S : ~(<<y, x>> \in less)
  BY Zenon, <1>2, WFMin
<1>4. ASSUME NEW x \in S, NEW y \in S, <<y, x>> \notin less
      PROVE  x <= y
  BY <1>4
<1> QED
  BY <1>3, <1>4, Zenon

\* A finite nonempty set of integers has a greatest element.
LEMMA GreatestInteger ==
  ASSUME NEW S \in SUBSET Int, IsFiniteSet(S), S # {}
  PROVE  \E x \in S : \A y \in S : x >= y
<1> DEFINE Bad == {n \in Nat : \E T \in SUBSET Int :
                     /\ IsFiniteSet(T) /\ T # {} /\ Cardinality(T) = n
                     /\ ~\E x \in T : \A y \in T : x >= y}
<1> SUFFICES ASSUME Bad # {} PROVE FALSE
  BY FS_CardinalityType
<1>1. PICK n \in Bad : \A k \in Bad : n <= k
  BY Zenon, LeastNatural
<1>2. PICK T \in SUBSET Int :
        /\ IsFiniteSet(T) /\ T # {} /\ Cardinality(T) = n
        /\ ~\E x \in T : \A y \in T : x >= y
  BY <1>1
<1>3. PICK a \in T : TRUE
  BY Zenon, <1>2
<1>4. IsFiniteSet(T \ {a}) /\ Cardinality(T \ {a}) = n - 1
  BY SMTT(30), <1>2, <1>3, FS_RemoveElement
<1>5. n \in Nat /\ n - 1 \in Nat
  BY <1>1, <1>4, FS_CardinalityType
<1>6. n - 1 \notin Bad
  BY <1>1, <1>5
<1>7. T \ {a} # {}
  BY <1>2, <1>3
<1>8. PICK b \in T \ {a} : \A y \in T \ {a} : b >= y
  BY Zenon, <1>4, <1>5, <1>6, <1>7
<1> QED
  BY <1>2, <1>3, <1>8

\* Max and Min return an element that bounds the set.
LEMMA MaxBounds ==
  ASSUME NEW S \in SUBSET Int, IsFiniteSet(S), S # {}
  PROVE  Max(S) \in S /\ \A y \in S : Max(S) >= y
  BY Zenon, GreatestInteger DEF Max

-----------------------------------------------------------------------------
(* Quorums *)

\* Two majorities of a nonempty finite group share a member of it.
LEMMA MajoritiesMeet ==
  ASSUME NEW G, IsFiniteSet(G), G # {}, NEW P, NEW Q,
         majority(G, P), majority(G, Q)
  PROVE  G \cap P \cap Q # {}
<1>1. /\ IsFiniteSet(G \cap P) /\ IsFiniteSet(G \cap Q)
      /\ Cardinality(G \cap P) \in Nat /\ Cardinality(G \cap Q) \in Nat
      /\ Cardinality(G) \in Nat
  BY Zenon, FS_Intersection, FS_CardinalityType
<1>2. Cardinality(G \cap P) + Cardinality(G \cap Q) > Cardinality(G)
  BY <1>1 DEF majority
<1>3. (G \cap P) \cap (G \cap Q) # {}
  BY <1>2, FS_MajoritiesIntersect
<1> QED
  BY <1>3

\* Any two quorums of one configuration, joint or not, share a voter: what
\* Election Safety and Leader Completeness rest on (Config::has_quorum).
THEOREM QuorumsMeet ==
  ASSUME NEW S, IsFiniteSet(S), NEW cfg \in Config(S), NEW P, NEW Q,
         has_quorum(cfg, P), has_quorum(cfg, Q)
  PROVE  P \cap Q \cap (cfg.voters \cup cfg.outgoing) # {}
<1>1. IsFiniteSet(cfg.voters) /\ IsFiniteSet(cfg.outgoing)
  BY FS_Subset DEF Config
<1>2. CASE cfg.voters # {}
  BY <1>1, <1>2, MajoritiesMeet DEF has_quorum
<1>3. CASE cfg.voters = {}
  BY <1>1, <1>3, MajoritiesMeet DEF has_quorum, is_joint
<1> QED
  BY <1>2, <1>3

\* A quorum of a joint configuration meets every quorum of the configuration
\* it came from and every quorum of the one it leads to, which is why the
\* transition may go through it (ConfigChange::EnterJoint, LeaveJoint).
THEOREM JointQuorumsMeet ==
  ASSUME NEW S, IsFiniteSet(S), NEW cfg \in Config(S), is_joint(cfg),
         cfg.voters # {}, NEW P, NEW Q, has_quorum(cfg, P),
         has_quorum(simple(cfg.voters), Q) \/ has_quorum(simple(cfg.outgoing), Q)
  PROVE  P \cap Q # {}
<1>1. IsFiniteSet(cfg.voters) /\ IsFiniteSet(cfg.outgoing)
  BY FS_Subset DEF Config
<1>2. CASE has_quorum(simple(cfg.voters), Q)
  BY <1>1, <1>2, MajoritiesMeet DEF has_quorum, is_joint, simple
<1>3. CASE has_quorum(simple(cfg.outgoing), Q)
  BY <1>1, <1>3, MajoritiesMeet DEF has_quorum, is_joint, simple
<1> QED
  BY <1>2, <1>3

-----------------------------------------------------------------------------
\* The voters whose matched index is at least k.
Reach(group, matched, k) == {id \in group : matched[id] >= k}

\* The choice in quorum_of is never empty: the median exists.
LEMMA QuorumOfChoice ==
  ASSUME NEW G, IsFiniteSet(G), G # {}, NEW matched,
         \A id \in G : matched[id] \in Nat
  PROVE  LET v == quorum_of(G, matched) IN
           /\ v \in {matched[id] : id \in G}
           /\ Cardinality({id \in G : matched[id] > v}) <= Cardinality(G) \div 2
           /\ Cardinality(Reach(G, matched, v)) > Cardinality(G) \div 2
<1> DEFINE half == Cardinality(G) \div 2
           values == {matched[id] : id \in G}
           High == {v \in values : Cardinality(Reach(G, matched, v)) > half}
<1>1. /\ Cardinality(G) \in Nat /\ Cardinality(G) > 0
      /\ half \in Nat /\ half < Cardinality(G)
  BY FS_CardinalityType, FS_EmptySet
<1>2. values \in SUBSET Nat /\ values # {} /\ IsFiniteSet(values)
  <2>1. [id \in G |-> matched[id]] \in Surjection(G, values)
    BY DEF Surjection
  <2> QED
    BY <2>1, FS_Surjection
<1>3. High # {}
  <2>1. PICK low \in values : \A y \in values : low <= y
    BY Zenon, <1>2, LeastNatural
  <2>2. Reach(G, matched, low) = G
    BY <2>1, <1>2 DEF Reach
  <2> QED
    BY <2>1, <2>2, <1>1
<1>4. IsFiniteSet(High) /\ High \in SUBSET Int
  BY <1>2, FS_Subset
<1>5. PICK v \in High : \A y \in High : v >= y
  BY <1>3, <1>4, GreatestInteger
<1> DEFINE above == {id \in G : matched[id] > v}
<1>6. v \in Nat
  BY <1>5, <1>2
<1>7. IsFiniteSet(above) /\ Cardinality(above) \in Nat
  BY FS_Subset, FS_CardinalityType
<1>8. Cardinality(above) <= half
  <2> SUFFICES ASSUME Cardinality(above) > half PROVE FALSE
    BY <1>1, <1>7
  <2>1. above # {}
    BY <1>1, FS_EmptySet
  <2> DEFINE higher == {matched[id] : id \in above}
  <2>2. higher \in SUBSET Nat /\ higher # {}
    BY Zenon, <2>1
  <2>3. PICK w \in higher : \A y \in higher : w <= y
    BY Zenon, <2>2, LeastNatural
  <2>4. w \in Nat /\ w > v /\ w \in values
    BY <2>3, <1>6
  <2>5. Reach(G, matched, w) = above
    BY <2>3, <2>4, <1>6 DEF Reach
  <2>6. w \in High
    BY <2>4, <2>5
  <2> QED
    BY <2>4, <2>6, <1>5, <1>6
<1>9. \E x \in values :
        /\ Cardinality({id \in G : matched[id] > x}) <= half
        /\ Cardinality({id \in G : matched[id] >= x}) > half
  BY Zenon, <1>5, <1>8 DEF Reach
<1> QED
  BY Zenon, <1>9 DEF quorum_of, Reach

\* quorum_of is the highest index that a strict majority of the group has.
LEMMA QuorumOfIsHighest ==
  ASSUME NEW G, IsFiniteSet(G), G # {}, NEW matched,
         \A id \in G : matched[id] \in Nat
  PROVE  /\ quorum_of(G, matched) \in Nat
         /\ \A k \in Nat :
              majority(G, Reach(G, matched, k)) <=> k <= quorum_of(G, matched)
<1> DEFINE v == quorum_of(G, matched)
           above == {id \in G : matched[id] > v}
<1>1. /\ v \in {matched[id] : id \in G}
      /\ Cardinality(above) <= Cardinality(G) \div 2
      /\ Cardinality(Reach(G, matched, v)) > Cardinality(G) \div 2
  BY QuorumOfChoice
<1>2. v \in Nat
  BY <1>1
<1> HIDE DEF v
<1>3. Cardinality(G) \in Nat /\ IsFiniteSet(above) /\ Cardinality(above) \in Nat
  BY FS_CardinalityType, FS_Subset
<1>4. ASSUME NEW k \in Nat
      PROVE  /\ G \cap Reach(G, matched, k) = Reach(G, matched, k)
             /\ IsFiniteSet(Reach(G, matched, k))
             /\ Cardinality(Reach(G, matched, k)) \in Nat
  BY FS_CardinalityType, FS_Subset DEF Reach
<1>5. ASSUME NEW k \in Nat, k <= v
      PROVE  majority(G, Reach(G, matched, k))
  <2>1. Reach(G, matched, v) \subseteq Reach(G, matched, k)
    BY <1>2, <1>5 DEF Reach
  <2>2. Cardinality(Reach(G, matched, v)) <= Cardinality(Reach(G, matched, k))
    BY <2>1, <1>4, FS_Subset
  <2>3. Cardinality(Reach(G, matched, k)) > Cardinality(G) \div 2
    BY <2>2, <1>1, <1>2, <1>3, <1>4
  <2>4. 2 * Cardinality(Reach(G, matched, k)) > Cardinality(G)
    BY <2>3, <1>3, <1>4
  <2> QED
    BY <2>4, <1>4, Zenon DEF majority
<1>6. ASSUME NEW k \in Nat, k > v
      PROVE  ~majority(G, Reach(G, matched, k))
  <2>1. Reach(G, matched, k) \subseteq above
    BY <1>2, <1>6 DEF Reach
  <2>2. Cardinality(Reach(G, matched, k)) <= Cardinality(above)
    BY <2>1, <1>3, FS_Subset
  <2>3. Cardinality(Reach(G, matched, k)) <= Cardinality(G) \div 2
    BY <2>2, <1>1, <1>3, <1>4
  <2>4. 2 * Cardinality(Reach(G, matched, k)) <= Cardinality(G)
    BY <2>3, <1>3, <1>4
  <2>5. ~(2 * Cardinality(Reach(G, matched, k)) > Cardinality(G))
    BY <2>4, <1>3, <1>4
  <2> QED
    BY <2>5, <1>4, Zenon DEF majority
<1> QED
  BY <1>2, <1>5, <1>6 DEF v

\* Config::quorum_index returns the highest index that a quorum holds: it is
\* what maybe_advance_commit may commit, and nothing above it is.
THEOREM QuorumIndexIsHighest ==
  ASSUME NEW S, IsFiniteSet(S), NEW cfg \in Config(S), NEW matched,
         \A id \in S : matched[id] \in Nat,
         cfg.voters \cup cfg.outgoing # {}
  PROVE  /\ quorum_index(cfg, matched) \in Nat
         /\ \A k \in Nat :
              has_quorum(cfg, Reach(cfg.voters \cup cfg.outgoing, matched, k))
                <=> k <= quorum_index(cfg, matched)
<1> DEFINE all == cfg.voters \cup cfg.outgoing
<1>1. /\ IsFiniteSet(cfg.voters) /\ IsFiniteSet(cfg.outgoing)
      /\ \A id \in all : matched[id] \in Nat
  BY FS_Subset DEF Config
<1>2. ASSUME NEW G \in {cfg.voters, cfg.outgoing}, G # {}
      PROVE  /\ quorum_of(G, matched) \in Nat
             /\ \A k \in Nat :
                  majority(G, Reach(all, matched, k))
                    <=> k <= quorum_of(G, matched)
  <2>1. \A k \in Nat : G \cap Reach(all, matched, k) = G \cap Reach(G, matched, k)
    BY DEF Reach
  <2>2. \A k \in Nat : majority(G, Reach(all, matched, k))
                          <=> majority(G, Reach(G, matched, k))
    BY Zenon, <2>1 DEF majority
  <2> QED
    BY <2>2, <1>1, <1>2, QuorumOfIsHighest
<1>3. CASE cfg.voters # {} /\ cfg.outgoing # {}
  BY <1>2, <1>3 DEF quorum_index, has_quorum, is_joint
<1>4. CASE cfg.voters # {} /\ cfg.outgoing = {}
  BY <1>2, <1>4 DEF quorum_index, has_quorum, is_joint
<1>5. CASE cfg.voters = {} /\ cfg.outgoing # {}
  BY <1>2, <1>5 DEF quorum_index, has_quorum, is_joint, majority
<1> QED
  BY <1>3, <1>4, <1>5

-----------------------------------------------------------------------------
(* What the proofs about the handlers take of numbers and quorums *)

\* The library's facts on finite sets give them.
LEMMA CountingHolds == Counting
<1>1. ASSUME NEW S \in SUBSET Nat, NEW n \in Nat, S # {}, \A y \in S : y <= n
      PROVE  Max(S) \in S /\ \A y \in S : Max(S) >= y
  <2>1. S \subseteq 0 .. n /\ S \in SUBSET Int
    BY <1>1
  <2>2. IsFiniteSet(0 .. n)
    BY FS_Interval
  <2>3. IsFiniteSet(S)
    BY Zenon, <2>1, <2>2, FS_Subset
  <2> QED
    BY Zenon, <1>1, <2>1, <2>3, MaxBounds
<1>2. ASSUME NEW cfg \in Config(Server), NEW matched,
             \A id \in Server : matched[id] \in Nat
      PROVE  quorum_index(cfg, matched) \in Nat
  <2>1. CASE cfg.voters \cup cfg.outgoing # {}
    BY Zenon, <1>2, <2>1, ServerAssumption, QuorumIndexIsHighest
  <2>2. CASE cfg.voters \cup cfg.outgoing = {}
    BY <2>2 DEF quorum_index
  <2> QED
    BY <2>1, <2>2
<1>3. ASSUME NEW cfg \in Config(Server), NEW P, NEW Q,
             has_quorum(cfg, P), has_quorum(cfg, Q)
      PROVE  P \cap Q \cap (cfg.voters \cup cfg.outgoing) # {}
  BY Zenon, <1>3, ServerAssumption, QuorumsMeet
<1>4. \A S \in SUBSET Nat : S # {} => Min(S) \in S /\ \A y \in S : Min(S) <= y
  BY Zenon, LeastNatural DEF Min
<1> QED
  BY Zenon, <1>1, <1>2, <1>3, <1>4 DEF Counting

-----------------------------------------------------------------------------
(* The cluster *)

\* Without reconfigurations no step leaves the universe of one configuration.
LEMMA PlainClosed ==
  ASSUME MaxReconfigs = 0
  PROVE  Closed(PlainEntry, {boot})
<1>1. boot \in Config(Server) /\ ~is_joint(boot)
  BY ClusterAssumption DEF boot, simple, Config, is_joint, ClusterAssumption
<1>2. Universe(PlainEntry, {boot})
  BY Zenon, <1>1, CountingHolds, PlainUniverse
<1>3. \A l \in LogOf(PlainEntry, {simple({})}) : config(l).voters = {}
  <2>1. \A l \in LogOf(PlainEntry, {simple({})}) : config(l) = simple({})
    BY Zenon, PlainConfig DEF LogOf
  <2> QED
    BY <2>1 DEF simple
<1>4. \A t, n \in Nat : [term |-> t, kind |-> Normal(n)] \in PlainEntry
  BY DEF PlainEntry, PlainKind, Normal
<1> QED
  BY Zenon, <1>2, <1>3, <1>4, LawsHold DEF Closed, Founded

\* No step leaves the universe of all entries and configurations.
LEMMA AllClosed == Closed(Entry, Config(Server))
<1>1. Universe(Entry, Config(Server))
  BY Zenon, CountingHolds, AnyUniverse
<1>2. boot \in Config(Server) /\ simple({}) \in Config(Server)
  BY Zenon, ClusterAssumption DEF boot, simple, Config, ClusterAssumption
<1>3. \A t, n \in Nat : [term |-> t, kind |-> Normal(n)] \in Entry
  BY DEF Entry, PlainKind, Normal
<1>4. ASSUME NEW t \in Nat, NEW change \in Changes \cup {LeaveJoint}
      PROVE  [term |-> t, kind |-> change] \in Entry
  <2>1. change \in ConfigKind
    BY ClusterAssumption DEF ClusterAssumption, ConfigKind, EnterJoint, LeaveJoint
  <2> QED
    BY <2>1 DEF Entry
<1> QED
  BY Zenon, <1>1, <1>2, <1>3, <1>4, LawsHold DEF Closed, Founded

\* Every step of a cluster keeps every node, disk and message within its type,
\* whatever crashes, full disks and membership changes there are.
THEOREM TypeCorrect == Spec => []TypeOK
<1> DEFINE Inv == Typed(Entry, Config(Server))
<1>1. Init => Inv
  BY Zenon, ClusterAssumption, AllClosed, InitTyped
<1>2. Inv /\ [Next]_vars => Inv'
  <2>1. Inv /\ Next => Inv'
    BY Zenon, ClusterAssumption, AllClosed, NextEffect
  <2>2. Inv /\ UNCHANGED vars => Inv'
    BY SMTT(30) DEF vars, history, Typed, Machines, Ledgers
  <2> QED
    BY SMTT(60), <2>1, <2>2
<1>3. Inv => TypeOK
  BY Zenon DEF Typed, Machines, Ledgers, TypeOK, Used, Waits, Node, Disk, Msg
<1> HIDE DEF Inv
<1> QED
  BY <1>1, <1>2, <1>3, PTL DEF Spec

-----------------------------------------------------------------------------
(* A fixed membership *)

\* The theorems about Voting, for this cluster.
VP == INSTANCE VotingProofs WITH
        Quorum <- {Q \in SUBSET Server : has_quorum(boot, Q)}

\* A cluster whose membership is fixed implements Voting: of every event and
\* every end of a batch, with crashes at any point of the cycle, restarts and
\* disks that fill up in the middle of one, Voting has a step that does the
\* same to terms, votes and ballots.
THEOREM ClusterImplementsVoting ==
  ASSUME MaxReconfigs = 0
  PROVE  Spec => ImplementsVoting
<1>1. Init => Fixed /\ V!Init
  BY Zenon, ClusterAssumption, PlainClosed, InitVotes
<1>2. Fixed /\ [Next]_vars => Fixed' /\ [V!Next]_(V!vars)
  BY Zenon, ClusterAssumption, PlainClosed, NextVotes
<1> QED
  BY <1>1, <1>2, PTL DEF Spec, ImplementsVoting, V!Spec

\* What is proved of Voting in its own module is proved of V.
LEMMA SameStart == V!Init => VP!Init
  BY Zenon DEF V!Init, V!Reborn, VP!Init, VP!Reborn

LEMMA SameStep == [V!Next]_(V!vars) => [VP!Next]_(VP!vars)
<1>1. V!Next => VP!Next
  BY Zenon DEF V!Next, V!Alone, V!Takes, V!Sends, V!Fails, V!Calm, V!Runs, V!Votes, V!Counts,
     V!Unwritten, V!NoBallots, V!Stays, V!Handed, V!Kept, V!Saved, V!Written, V!Rests,
     V!Reborn, V!Ballot, V!Electing,
     VP!Next, VP!Alone, VP!Takes, VP!Sends, VP!Fails, VP!Calm, VP!Runs, VP!Votes, VP!Counts,
     VP!Unwritten, VP!NoBallots, VP!Stays, VP!Handed, VP!Kept, VP!Saved, VP!Written, VP!Rests,
     VP!Reborn, VP!Ballot, VP!Electing
<1>2. UNCHANGED V!vars => UNCHANGED VP!vars
  BY Zenon DEF V!vars, VP!vars
<1> QED
  BY <1>1, <1>2

LEMMA SameTypes == V!Typed => VP!Typed
  BY Zenon DEF V!Typed, VP!Typed

LEMMA SameVotes == VP!VotesAreKept => VotesAreKept
  BY Zenon DEF VotesAreKept, V!VotesAreKept, V!HardStateOrder, V!VotesWritten, V!BallotsAnswer,
     V!Supported, V!Asked, V!Public, V!Pending, V!Ballots, V!Before, V!Electing, V!Ballot,
     VP!VotesAreKept, VP!HardStateOrder, VP!VotesWritten, VP!BallotsAnswer,
     VP!Supported, VP!Asked, VP!Public, VP!Pending, VP!Ballots, VP!Before, VP!Electing, VP!Ballot

\* Every behaviour of a cluster with a fixed membership is one of Voting.
LEMMA ClusterVotes ==
  ASSUME MaxReconfigs = 0
  PROVE  Spec => VP!Spec /\ []VP!Typed
<1>1. Init => Fixed /\ VP!Init
  BY Zenon, ClusterAssumption, PlainClosed, InitVotes, SameStart
<1>2. Fixed /\ [Next]_vars => Fixed' /\ [VP!Next]_(VP!vars)
  BY Zenon, ClusterAssumption, PlainClosed, NextVotes, SameStep
<1>3. Fixed => VP!Typed
  BY Zenon, ClusterAssumption, FixedTyped, SameTypes
<1> QED
  BY <1>1, <1>2, <1>3, PTL DEF Spec, VP!Spec

\* Votes are kept by every step of a cluster whose membership is fixed:
\* persist before send, through crashes at any point of the cycle, restarts,
\* and disks that fill up in the middle of one.
THEOREM VotesKept ==
  ASSUME MaxReconfigs = 0
  PROVE  Spec => []VotesAreKept
<1>1. None \notin Server
  BY ServerAssumption
<1> QED
  BY <1>1, ClusterVotes, SameVotes, VP!VotingKeepsVotes, PTL

\* Election Safety for every cluster with a fixed membership, of any size,
\* with any number of elections, messages, crashes and full disks: at most one
\* node leads in a term (the election_safety oracle).
THEOREM OneLeaderPerTerm ==
  ASSUME MaxReconfigs = 0
  PROVE  Spec => []ElectionSafety
<1> DEFINE Quorums == {Q \in SUBSET Server : has_quorum(boot, Q)}
<1>1. None \notin Server
  BY ServerAssumption
<1>2. \A P, Q \in Quorums : P \cap Q \cap Server # {}
  <2>1. boot \in Config(Server)
    BY Zenon, ClusterAssumption DEF boot, simple, Config, ClusterAssumption
  <2>2. \A P, Q \in Quorums : P \cap Q \cap (boot.voters \cup boot.outgoing) # {}
    BY Zenon, <2>1, CountingHolds DEF Counting
  <2> QED
    BY Zenon, <2>2
<1>3. VP!ElectionSafety => ElectionSafety
  BY Zenon DEF VP!ElectionSafety, ElectionSafety
<1> QED
  BY <1>1, <1>2, <1>3, ClusterVotes, VP!VotingElectsOne, PTL
=============================================================================
