------------------------------- MODULE Driver -------------------------------
(***************************************************************************)
(* The driver of a node, chronolog/src/node.rs: what one turn of its loop   *)
(* does with the Ready it collects from the state machine, and what the     *)
(* disk holds at every point of that turn where a crash or a full disk can  *)
(* interrupt it.                                                            *)
(*                                                                         *)
(* A disk is a record: hs the hard state, snap the newest snapshot, and wal *)
(* the entries after index wal.base.  The log is one segment here; the      *)
(* segments are the subject of module Wal.                                  *)
(***************************************************************************)
EXTENDS RaftNode

-----------------------------------------------------------------------------
(* The durable log as the driver sees it *)

wal_last_index(w) == w.base + Len(w.entries)

reset_to(index) == [base |-> index, entries |-> <<>>]

wal_truncate_from(w, from) ==
  CASE from > wal_last_index(w) -> w
    [] from <= wal_last_index(w) /\ from <= w.base + 1 -> reset_to(from - 1)
    [] OTHER -> [w EXCEPT !.entries = SubSeq(@, 1, from - 1 - w.base)]

wal_append(d, es) == [d EXCEPT !.wal.entries = @ \o es]

FreshDisk == [hs |-> HardState(0, None, 0), snap |-> None, wal |-> reset_to(0)]

snap_index(d) == IF d.snap = None THEN 0 ELSE d.snap.last_index

\* A crash after the segments were removed and before the new one was made:
\* Wal::open starts a segment right after the snapshot.
wal_removed(d) == [d EXCEPT !.wal = reset_to(snap_index(d))]

\* Variant: the entry right above the snapshot is taken to be covered by it.
recovered_entries_short(d) ==
  IF d.wal.base >= snap_index(d) THEN d.wal.entries
  ELSE SubSeq(d.wal.entries, snap_index(d) - d.wal.base + 2, Len(d.wal.entries))

\* Wal::open returns the entries above the snapshot.
recovered_entries(d) ==
  IF d.wal.base >= snap_index(d) THEN d.wal.entries
  ELSE SubSeq(d.wal.entries, snap_index(d) - d.wal.base + 1, Len(d.wal.entries))

\* Log::restore asserts that they start right after the snapshot.
recoverable(d) == recovered_entries(d) = <<>> \/ d.wal.base <= snap_index(d)

recover(id, d, boot) == restore(id, d.hs, d.snap, recovered_entries(d), boot)

recovered_kv(d) == IF d.snap = None THEN <<>> ELSE d.snap.data

-----------------------------------------------------------------------------
(* persist, step by step: cut the dirty suffix, save the snapshot, restart
   the log after it, save the hard state, append.  cut is 0 for None. *)

truncated(d, cut) ==
  IF cut = 0 THEN d ELSE [d EXCEPT !.wal = wal_truncate_from(@, cut)]

snapshotted(d, rd, cut) ==
  IF rd.snapshot = None THEN truncated(d, cut)
  ELSE [truncated(d, cut) EXCEPT !.snap = rd.snapshot]

rebased(d, rd, cut) ==
  IF rd.snapshot = None THEN snapshotted(d, rd, cut)
  ELSE [snapshotted(d, rd, cut) EXCEPT !.wal = reset_to(rd.snapshot.last_index)]

voted(d, rd, cut) ==
  IF rd.hard_state = None THEN rebased(d, rd, cut)
  ELSE [rebased(d, rd, cut) EXCEPT !.hs = rd.hard_state]

persist(d, rd, cut) == wal_append(voted(d, rd, cut), rd.entries)

\* The append that Wal::append_inner refuses, which stops the driver.
append_gap(d, rd, cut) ==
  /\ rd.entries # <<>>
  /\ rd.first # wal_last_index(voted(d, rd, cut).wal) + 1

installed_kv(s, rd) == IF rd.snapshot = None THEN s ELSE rd.snapshot.data

\* reconcile: the log is rebased when it is ahead of memory or not adjacent to
\* it, then extended with what it lacks.
reconciled_base(d, l) ==
  LET last == wal_last_index(d.wal)
  IN  IF last > last_index(l) \/ last + 1 < first_index(l)
      THEN [d EXCEPT !.wal = reset_to(first_index(l) - 1)] ELSE d

missing(d, l) ==
  entries_from(l, wal_last_index(reconciled_base(d, l).wal) + 1)

reconcile(d, l) == wal_append(reconciled_base(d, l), missing(d, l))

-----------------------------------------------------------------------------
(* Interruptions *)

Prefixes(es) == {SubSeq(es, 1, k) : k \in 0 .. Len(es)}

\* What a power loss between ready() and the first send can leave: the result
\* of any prefix of the writes, the last append torn anywhere.
TornDisks(d, rd, cut, l) ==
  LET p == persist(d, rd, cut)
      resets == cut # 0 /\ cut <= wal_last_index(d.wal) /\ cut <= d.wal.base + 1
  IN  {d, truncated(d, cut), snapshotted(d, rd, cut), rebased(d, rd, cut),
       voted(d, rd, cut)}
      \cup (IF resets THEN {wal_removed(d)} ELSE {})
      \cup (IF append_gap(d, rd, cut) THEN {}
            ELSE {wal_append(voted(d, rd, cut), es) : es \in Prefixes(rd.entries)}
                 \cup {wal_append(reconciled_base(p, l), es) :
                         es \in Prefixes(missing(p, l))}
                 \cup (IF reconciled_base(p, l) = p THEN {} ELSE {wal_removed(p)}))

\* Where a write can find the disk full, with the disk and the state machine
\* as they are left: a failed append is rolled back.
FullDisks(d, rd, cut, l, s) ==
  LET p == persist(d, rd, cut)
      at(disk, kv, writes) ==
        IF writes THEN {[disk |-> disk, kv |-> kv]} ELSE {}
      s1 == installed_kv(s, rd)
  IN  at(truncated(d, cut), s, rd.snapshot # None)
      \cup at(rebased(d, rd, cut), s1, rd.hard_state # None)
      \cup at(voted(d, rd, cut), s1, rd.entries # <<>>)
      \cup at(reconciled_base(p, l), s1, missing(p, l) # <<>>)

-----------------------------------------------------------------------------
(* After the sends *)

\* A snapshot at the applied index may discard entries only if it is news and
\* the durable log reaches it.
safe_to_compact(r, d) ==
  /\ r.applied > r.log.snapshot_index
  /\ r.applied <= wal_last_index(d.wal)

can_snapshot(r) == term_at(r.log, r.applied) # NoTerm

\* The leader's duties: end a joint transition, ship snapshots.
lead(r, s) ==
  LET f == maybe_finish_config_change(r)
  IN  IF can_snapshot(f)
      THEN send_snapshot(f, followers_needing_snapshot(f),
                         snapshot_at_applied(f, s))
      ELSE f

\* Save a snapshot and compact; also what free_space does.
take_snapshot(r, d, s) ==
  LET snap == snapshot_at_applied(r, s)
  IN  [raft |-> compact(r, snap), disk |-> [d EXCEPT !.snap = snap]]

housekeeping(r, d, s) ==
  LET h == IF r.role = "Leader" THEN lead(r, s) ELSE r
  IN  IF should_snapshot(h) /\ can_snapshot(h) /\ safe_to_compact(h, d)
      THEN take_snapshot(h, d, s) ELSE [raft |-> h, disk |-> d]

\* One uninterrupted turn: persist, reconcile, send, apply, advance, housekeep.
cycle(r, d, s) ==
  LET rd == ready(r)
      r1 == after_ready(r)
      d1 == reconcile(persist(d, rd, r.dirty_from), r1.log)
      s1 == installed_kv(s, rd) \o rd.committed
      r2 == advance(set_persisted(r1, wal_last_index(d1.wal)), rd)
      h == housekeeping(r2, d1, s1)
  IN  [raft |-> h.raft, disk |-> h.disk, kv |-> s1, written |-> d1]
=============================================================================
