----------------------------- MODULE DurableLog -----------------------------
(***************************************************************************)
(* What the write-ahead log promises its caller, chronolog/tests/wal.rs:    *)
(* after any crash the recovered log is a prefix of what was appended, and  *)
(* that prefix includes everything a completed fsync acknowledged.          *)
(*                                                                         *)
(* log is what Wal::open would return, entries with consecutive indices;    *)
(* safe is the index through which sync has returned and the caller has not *)
(* asked for a cut; snap is the index of the newest saved snapshot, which   *)
(* stands for the entries up to it.                                         *)
(***************************************************************************)
EXTENDS Integers, Sequences

CONSTANT Value

VARIABLES log, safe, snap

vars == <<log, safe, snap>>

Entry == [seq : Nat, value : Value]

Init == log = <<>> /\ safe = 0 /\ snap = 0

\* One record reaches the end of the log; the first one is where the snapshot
\* ends, or before it.
Write ==
  LET n == Len(log) IN
  /\ Len(log') = n + 1
  /\ log' = Append(log, log'[n + 1]) /\ log'[n + 1] \in Entry
  /\ IF log = <<>> THEN log'[n + 1].seq <= snap + 1
     ELSE log'[n + 1].seq = log[n].seq + 1
  /\ UNCHANGED <<safe, snap>>

\* A barrier returns: everything in the log is promised.
Promise ==
  /\ safe' = IF log = <<>> THEN safe ELSE log[Len(log)].seq
  /\ safe' >= safe
  /\ UNCHANGED <<log, snap>>

\* The caller gives up a suffix before it has it cut.
Withdraw ==
  /\ safe' \in Nat /\ safe' < safe
  /\ UNCHANGED <<log, snap>>

\* A snapshot takes the place of the entries up to its index.
Snapshot ==
  /\ snap' \in Nat /\ snap' >= snap
  /\ UNCHANGED <<log, safe>>

\* Every promised entry that no snapshot stands for is among the first n.
Covers(n) ==
  \A i \in (snap + 1) .. safe : \E k \in 1 .. n : log[k].seq = i

\* A cut or a crash leaves a prefix, and never less than what was promised.
Lose ==
  \E n \in 0 .. Len(log) :
    /\ Covers(n)
    /\ log' = SubSeq(log, 1, n)
    /\ UNCHANGED <<safe, snap>>

\* Compaction removes entries from the front, all of them below the snapshot.
Compact ==
  \E n \in 1 .. Len(log) :
    /\ \A k \in 1 .. n : log[k].seq < snap
    /\ log' = SubSeq(log, n + 1, Len(log))
    /\ UNCHANGED <<safe, snap>>

Next ==
  \/ Write
  \/ Promise
  \/ Withdraw
  \/ Snapshot
  \/ Lose
  \/ Compact

Spec == Init /\ [][Next]_vars

\* A log that skips an index is undetectably wrong: the entries have
\* consecutive indices, and the first is at most one above the snapshot.
NoHole ==
  /\ \A k \in 1 .. Len(log) : log[k].seq = log[1].seq + k - 1
  /\ log # <<>> => log[1].seq <= snap + 1

\* Everything a completed fsync acknowledged is there: each promised index is
\* in the log unless a snapshot stands for it.
PromisesKept == Covers(Len(log))

\* Every step, a crash included, leaves the entry at a promised index as it is,
\* until the caller withdraws the promise or saves a snapshot above it.
PromisedEntriesStay ==
  [][\A k \in 1 .. Len(log) :
       log[k].seq \in (snap' + 1) .. safe' /\ log[k].seq <= safe =>
         \E j \in 1 .. Len(log') : log'[j] = log[k]]_vars
=============================================================================
