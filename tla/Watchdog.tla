------------------------------ MODULE Watchdog ------------------------------
(***************************************************************************)
(* The liveness watchdog (chrono-oracle/src/liveness.rs): after every slice *)
(* of virtual time the harness shows it the cluster, and it raises an alarm *)
(* when a healthy cluster has no leader, commits nothing or leaves a        *)
(* follower behind for too long.                                           *)
(*                                                                         *)
(* Slices have length one, so the k-th view is of time k.  When the cluster *)
(* became healthy is only kept for the wording of a report, and left out.   *)
(***************************************************************************)
EXTENDS Integers, Sequences, FiniteSetsExt, Functions, TLC

CONSTANTS Node,            \* server ids
          Views,           \* what a slice may end in
          elect_within, commit_within, converge_within,
          MaxViews

\* A log ends at an index, and a budget is a length of time.
Measured ==
  /\ {elect_within, commit_within, converge_within} \subseteq Nat
  /\ \A v \in Views, n \in Node : v.node[n].last \in Nat

ASSUME WatchdogAssumption == Measured

VARIABLES seen,            \* the views so far
          best_commit, commit_moved_at, saw_leader_at,
          progress,        \* node -> its highest last_index, and since when
          stalls           \* the kinds of alarm raised

vars == <<seen, best_commit, commit_moved_at, saw_leader_at, progress, stalls>>

-----------------------------------------------------------------------------
(* A view: whether links are cut, whether a client waits, and the state each *)
(* node last published, with whether it is up.                              *)

leaders_up(v) == {n \in Node : v.node[n].up /\ v.node[n].leader}

\* ClusterView::members: by the first leader's configuration, else by anyone's.
members(v) ==
  LET asked == {n \in leaders_up(v) : v.node[n].voters # {}}
  IN  IF asked # {} THEN v.node[Min(asked)].voters
      ELSE UNION {v.node[n].voters : n \in Node}

quorum_alive(v) ==
  LET voters == IF members(v) = {} THEN Node ELSE members(v)
  IN  2 * Cardinality({n \in voters : v.node[n].up}) > Cardinality(voters)

healthy(v) == ~ v.partitioned /\ quorum_alive(v)

live(v) == {n \in Node : v.node[n].up /\ (members(v) = {} \/ n \in members(v))}

leaders(v) == live(v) \cap leaders_up(v)

best(v) == Max({0} \cup {v.node[n].commit : n \in live(v)})

-----------------------------------------------------------------------------
(* observe *)

now == Len(seen) + 1

\* Variant: a disruption does not restart the clock of elections.
disrupted_keeping(v) ==
  /\ commit_moved_at' = now
  /\ progress' = [n \in DOMAIN progress |-> [progress[n] EXCEPT !.at = now]]
  /\ UNCHANGED <<saw_leader_at, best_commit, stalls>>

\* While the environment does not cooperate every clock is kept at zero.
disrupted(v) ==
  /\ saw_leader_at' = now /\ commit_moved_at' = now
  /\ progress' = [n \in DOMAIN progress |-> [progress[n] EXCEPT !.at = now]]
  /\ UNCHANGED <<best_commit, stalls>>

leaderless(v) == leaders(v) = {} /\ now - saw_leader_at > elect_within

not_committing(v) ==
  /\ best(v) = best_commit
  /\ v.work /\ leaders(v) # {}
  /\ now - commit_moved_at > commit_within

\* Variant: being seen counts as progress.
progressed_if_seen(v) ==
  [n \in DOMAIN progress \cup live(v) |->
     IF n \in live(v) THEN [last |-> v.node[n].last, at |-> now] ELSE progress[n]]

\* A node progresses when its log ends higher than it ever did.
progressed(v) ==
  [n \in DOMAIN progress \cup live(v) |->
     IF n \in live(v) /\ (n \notin DOMAIN progress \/ v.node[n].last > progress[n].last)
     THEN [last |-> v.node[n].last, at |-> now] ELSE progress[n]]

\* Behind the first leader, and no progress for too long.
laggards(v) ==
  {n \in live(v) :
     /\ leaders(v) # {} /\ v.node[n].last < v.node[Min(leaders(v))].last
     /\ now - progressed(v)[n].at > converge_within}

cooperating(v) ==
  /\ saw_leader_at' = IF leaders(v) = {} THEN saw_leader_at ELSE now
  /\ commit_moved_at' = IF best(v) = best_commit THEN commit_moved_at ELSE now
  /\ best_commit' = best(v)
  /\ progress' = progressed(v)
  /\ stalls' = stalls \cup (IF leaderless(v) THEN {"NoLeader"} ELSE {})
                      \cup (IF not_committing(v) THEN {"NoCommitProgress"} ELSE {})
                      \cup (IF laggards(v) # {} THEN {"NoConvergence"} ELSE {})

observe(v) ==
  /\ Len(seen) < MaxViews
  /\ seen' = Append(seen, v)
  /\ IF healthy(v) THEN cooperating(v) ELSE disrupted(v)

Init ==
  /\ seen = <<>>
  /\ best_commit = 0 /\ commit_moved_at = 0 /\ saw_leader_at = 0
  /\ progress = <<>>
  /\ stalls = {}

Next == \E v \in Views : observe(v)

Spec == Init /\ [][Next]_vars

-----------------------------------------------------------------------------
(* What alarms have to mean, in terms of the views alone. *)

\* Throughout the views after the i-th, up to the j-th, P holds of the view.
Throughout(i, j, P(_)) == \A k \in i + 1 .. j : P(k)

Healthy(k) == healthy(seen[k])

\* Node n is up in view k, and its log ends no higher than it has before.
Frozen(n, k) ==
  n \in live(seen[k]) =>
    \E m \in 1 .. k - 1 : n \in live(seen[m]) /\ seen[m].node[n].last >= seen[k].node[n].last

Behind(n, v) == leaders(v) # {} /\ n \in live(v) /\ v.node[n].last < v.node[Min(leaders(v))].last

Windows(budget) == {w \in (0 .. Len(seen)) \X (0 .. Len(seen)) : w[2] - w[1] > budget}

\* The clock only runs while the environment is cooperating (liveness.rs:175):
\* whatever disruptions came before, an alarm follows an unbroken stretch of
\* healthy views longer than its budget in which what it complains of did not
\* change.  Before NoLeader no view had a leader; before NoCommitProgress all
\* showed one commit index, and the last a leader and a waiting client; before
\* NoConvergence a follower that is behind in the last view never passed an
\* earlier end of its log.  It does not say that a client waited, or the follower
\* was behind, all that time: commit_moved_at also runs while the cluster is
\* idle, against the budget's "while work is offered" (liveness.rs:94), and the
\* clock of a follower whose log was cut runs while it grows back, against
\* "while its own last_index advances" (liveness.rs:256).
AlarmsNeedCalm ==
  /\ "NoLeader" \in stalls =>
       \E w \in Windows(elect_within) :
         Throughout(w[1], w[2], LAMBDA k : Healthy(k) /\ leaders(seen[k]) = {})
  /\ "NoCommitProgress" \in stalls =>
       \E w \in Windows(commit_within) :
         /\ Throughout(w[1], w[2], LAMBDA k : Healthy(k) /\ best(seen[k]) = best(seen[w[2]]))
         /\ seen[w[2]].work /\ leaders(seen[w[2]]) # {}
  /\ "NoConvergence" \in stalls =>
       \E w \in Windows(converge_within), n \in Node :
         /\ Throughout(w[1], w[2], LAMBDA k : Healthy(k) /\ Frozen(n, k))
         /\ Behind(n, seen[w[2]])

\* No stall goes unreported (observe): a window of healthy views longer than the
\* budget, all of them without leader; or all with a leader, a waiting client and
\* one commit index; or all with one follower behind whose log does not grow.
StallsAreReported ==
  /\ (\E w \in Windows(elect_within) :
        w[1] > 0 /\ \A k \in w[1] .. w[2] : Healthy(k) /\ leaders(seen[k]) = {})
     => "NoLeader" \in stalls
  /\ (\E w \in Windows(commit_within) :
        w[1] > 0 /\ \A k \in w[1] .. w[2] :
          /\ Healthy(k) /\ leaders(seen[k]) # {} /\ seen[k].work
          /\ best(seen[k]) = best(seen[w[1]]))
     => "NoCommitProgress" \in stalls
  /\ (\E w \in Windows(converge_within), n \in Node :
        w[1] > 0 /\ \A k \in w[1] .. w[2] :
          /\ Healthy(k) /\ Behind(n, seen[k])
          /\ seen[k].node[n].last <= seen[w[1]].node[n].last)
     => "NoConvergence" \in stalls

-----------------------------------------------------------------------------
(* What the clocks show, in terms of the views alone: the inductive invariant *)
(* behind both properties.                                                    *)

ClocksTyped ==
  /\ seen \in Seq(Views)
  /\ saw_leader_at \in 0 .. Len(seen) /\ commit_moved_at \in 0 .. Len(seen)
  /\ DOMAIN progress \subseteq Node
  /\ \A n \in DOMAIN progress :
       progress[n] = [last |-> progress[n].last, at |-> progress[n].at]
         /\ progress[n].last \in Nat /\ progress[n].at \in 1 .. Len(seen)

\* The views after saw_leader_at are healthy and without leader, and it is the
\* first instant of which that is true.
ElectionClock ==
  /\ \A k \in saw_leader_at + 1 .. Len(seen) : Healthy(k) /\ leaders(seen[k]) = {}
  /\ saw_leader_at > 0 /\ Healthy(saw_leader_at) => leaders(seen[saw_leader_at]) # {}

\* The views after commit_moved_at are healthy and show best_commit, and the one
\* at commit_moved_at, if it and the one before are healthy, shows a change.
CommitClock ==
  /\ \A k \in commit_moved_at + 1 .. Len(seen) : Healthy(k) /\ best(seen[k]) = best_commit
  /\ Len(seen) > 0 /\ Healthy(Len(seen)) => best_commit = best(seen[Len(seen)])
  /\ commit_moved_at > 1 /\ Healthy(commit_moved_at) /\ Healthy(commit_moved_at - 1)
       => best(seen[commit_moved_at]) # best(seen[commit_moved_at - 1])

\* Node n was seen at time k by a watchdog whose clocks ran.
Counted(n, k) == Healthy(k) /\ n \in live(seen[k])

\* progress[n] is the highest end of n's log, and since it was reached or the
\* cluster was last disrupted n's log has not grown.
ProgressClock ==
  /\ \A k \in 1 .. Len(seen) : Healthy(k) => live(seen[k]) \subseteq DOMAIN progress
  /\ \A n \in DOMAIN progress :
       /\ \A k \in progress[n].at + 1 .. Len(seen) : Healthy(k) /\ Frozen(n, k)
       /\ \E m \in 1 .. progress[n].at :
            n \in live(seen[m]) /\ seen[m].node[n].last = progress[n].last
       /\ \A k \in 1 .. Len(seen) : Counted(n, k) => seen[k].node[n].last <= progress[n].last
       /\ Healthy(progress[n].at) =>
            /\ n \in live(seen[progress[n].at])
            /\ \A k \in 1 .. progress[n].at - 1 :
                 Counted(n, k) => seen[k].node[n].last < seen[progress[n].at].node[n].last

ClocksInv == ClocksTyped /\ ElectionClock /\ CommitClock /\ ProgressClock
=============================================================================
