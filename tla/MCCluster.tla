----------------------------- MODULE MCCluster -----------------------------
(***************************************************************************)
(* Cluster for TLC: servers are model values, and behaviours may start from *)
(* disks that an earlier part of the cluster's life has left, where the way *)
(* there from fresh disks would be too long to search.                      *)
(***************************************************************************)
EXTENDS Elections, TLC

CONSTANTS n1, n2, n3

\* Voters are interchangeable where no constant tells them apart.
Symmetry == Permutations(Server)
SwapTwo == Permutations({n1, n2})

\* The network: whole, or a star around one node, the others being cut off
\* from each other.
Full == Server \X Server
Hub(c) == {l \in Full : c \in {l[1], l[2]}}
HubThree == Hub(n3)

\* Whose election timeouts fire.
AnyTime(S) == S \X (1 .. MaxElections)
OneOrTwo == AnyTime({n1, n2})

NoChanges == {}
ToOne == {EnterJoint({n1}, {})}
ToOneAndLearner == {EnterJoint({n1}, {n3})}

Leftover(term, vote, commit, snap, entries) ==
  [hs |-> HardState(term, vote, commit), snap |-> snap,
   wal |-> [base |-> 0, entries |-> entries]]

NoopOf(term) == [term |-> term, kind |-> Noop]

\* n1 led term 1 and n2 led term 2, both elected by n3, and neither's first
\* entry left it; n1 has since campaigned in vain at term 2.
RivalDisks ==
  (n1 :> Leftover(2, n1, 0, None, <<NoopOf(1)>>)) @@
  (n2 :> Leftover(2, n2, 0, None, <<NoopOf(2)>>)) @@
  (n3 :> Leftover(2, n2, 0, None, <<>>))

\* n2 has campaigned once, and nobody heard it.
EagerDisks ==
  (n1 :> FreshDisk) @@ (n2 :> Leftover(1, n2, 0, None, <<>>)) @@
  (n3 :> FreshDisk)

\* n1 and n2 have made n1 the only member and snapshotted that; n3 slept through
\* it and still has the bootstrap configuration.
Shrunk ==
  [last_index |-> 3, last_term |-> 1, config |-> simple({n1}),
   data |-> <<NoopOf(1), [term |-> 1, kind |-> EnterJoint({n1}, {})],
              [term |-> 1, kind |-> LeaveJoint]>>]

ShrunkDisk == [Leftover(1, n1, 3, Shrunk, <<>>) EXCEPT !.wal = reset_to(3)]

ShrunkDisks == (n1 :> ShrunkDisk) @@ (n2 :> ShrunkDisk) @@ (n3 :> FreshDisk)

\* n3 has campaigned twice, and nobody heard it.
AheadDisks ==
  (n1 :> FreshDisk) @@ (n2 :> FreshDisk) @@
  (n3 :> Leftover(2, n3, 0, None, <<>>))

\* Behaviours may start in one of several scenes, each with its share of the
\* bounds: the rest counts as spent.
Spent ==
  [elections |-> MaxElections, beats |-> MaxBeats, checks |-> MaxChecks,
   writes |-> MaxWrites, reads |-> MaxReads, reconfigs |-> MaxReconfigs,
   transfers |-> MaxTransfers, crashes |-> MaxCrashes, full |-> MaxFull]

\* Rivals with conflicting logs; a voter that campaigns while the membership
\* changes; a leader that serves a read while another voter campaigns; a learner
\* that only a snapshot can reach, with a crash of it or of its leader.
Succession == {n1, n2} \X {1, 2, 3} \cup {<<n1, 5>>, <<n3, 6>>}

ReplicationScenes ==
  \/ InitFrom(RivalDisks, [Spent EXCEPT !.elections = 0, !.checks = 0])
  \/ InitFrom(EagerDisks, [Spent EXCEPT !.elections = 1, !.reconfigs = 0])
  \/ InitFrom(FreshDisks, [Spent EXCEPT !.elections = 4, !.reads = 0])
  \/ InitFrom(ShrunkDisks, [Unspent EXCEPT !.elections = 2, !.checks = MaxChecks,
                                           !.reads = MaxReads])

SpecReplication == ReplicationScenes /\ [][Next]_vars

\* Two rivals on fresh disks, who campaign twice between them; or one node that
\* polls three times, and is told on the way of a term it fails to write down.
TwiceOrThrice == {n1, n2} \X {1, 2} \cup {n1} \X {4, 5, 6}

ElectionScenes ==
  \/ Init
  \/ InitFrom(AheadDisks, [Unspent EXCEPT !.elections = 3])

SpecElections == ElectionScenes /\ [][Next]_vars
=============================================================================
