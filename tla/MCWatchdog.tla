----------------------------- MODULE MCWatchdog -----------------------------
(* A leader and a follower, in every state that the watchdog tells apart. *)
EXTENDS Watchdog

Published(up, leader, commit, last) ==
  [up |-> up, leader |-> leader, commit |-> commit, last |-> last, voters |-> Node]

View(cut, work, one, two, three) ==
  [work |-> work, partitioned |-> cut, node |-> (1 :> one) @@ (2 :> two) @@ (3 :> three)]

\* Server 1 may lead, server 2 may be down or behind, and server 3 keeps the
\* quorum; links may be cut, or the quorum lost.
SmallViews ==
  LET One(led, commit) == Published(TRUE, led, commit, 2)
      Twos == {Published(TRUE, FALSE, 0, last) : last \in 0 .. 2}
                \cup {Published(FALSE, FALSE, 0, 0)}
      Three(up) == Published(up, FALSE, 0, 2)
  IN  {View(FALSE, x[1], x[2], two, Three(TRUE))
         : x \in {<<FALSE, One(FALSE, 0)>>, <<FALSE, One(TRUE, 0)>>,
                  <<TRUE, One(TRUE, 0)>>, <<TRUE, One(TRUE, 1)>>}, two \in Twos}
      \cup {View(TRUE, TRUE, One(TRUE, 1), Published(TRUE, FALSE, 0, 1), Three(TRUE)),
            View(FALSE, TRUE, One(TRUE, 0), Published(FALSE, FALSE, 0, 0), Three(FALSE))}
=============================================================================
