------------------------------- MODULE MCWal -------------------------------
(***************************************************************************)
(* Instances of the write-ahead log for TLC.                                *)
(***************************************************************************)
EXTENDS Wal

\* Behaviours start in one of several scenes, each with its share of the
\* bounds: the rest counts as spent.
Spent ==
  [appends |-> MaxAppends, cuts |-> MaxCuts, snapshots |-> MaxSnapshots,
   saves |-> MaxSaves, full |-> MaxFull, crashes |-> MaxCrashes]

\* A log that grows, is cut and compacted, with one full disk; hard states
\* whose saves fail; snapshots in a row, so that each slot is used again.
Scenes ==
  \/ InitFrom([Unspent EXCEPT !.snapshots = MaxSnapshots - 2, !.saves = MaxSaves - 1,
                              !.full = MaxFull - 1])
  \/ InitFrom([Spent EXCEPT !.saves = 0, !.full = 0, !.crashes = 0])
  \/ InitFrom([Spent EXCEPT !.appends = MaxAppends - 1, !.snapshots = 0, !.full = 0,
                            !.crashes = 0])

SpecScenes == Scenes /\ [][Next]_vars
=============================================================================
