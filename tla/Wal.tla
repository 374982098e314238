-------------------------------- MODULE Wal --------------------------------
(***************************************************************************)
(* The segmented write-ahead log, chronolog/src/wal.rs, one step for each   *)
(* storage call it awaits, over the disk of the simulator                   *)
(* (chrono-sim/src/kernel.rs), which may lose power between any two calls.  *)
(*                                                                         *)
(* A file is what is durable plus the operations that no fsync has covered. *)
(* Its contents are cells: a record, which carries its index or sequence    *)
(* number in seq, or Bad, which is what a checksum refuses: a torn record   *)
(* or the zeros of a record that never landed.  An operation of the log is  *)
(* the sequence of calls it still has to make; the driver starts one at a   *)
(* time.  Sizes are counted in records, except that a hard state with a     *)
(* vote in it is longer than one without.                                   *)
(***************************************************************************)
EXTENDS Integers, SequencesExt, FiniteSetsExt

CONSTANTS SegmentEntries,    \* segment_bytes
          CompactSlack,      \* compact_slack_bytes
          MaxBatch, MaxIndex, MaxAppends, MaxCuts, MaxSnapshots, MaxSaves,
          Voted,             \* which saves of the hard state carry a vote
          MaxFull, MaxCrashes,
          MaxResetSegments   \* the segments a reset_to may find

VARIABLES disk,    \* file name -> file
          wal,     \* the fields of Wal, and whether the node is up
          op,      \* the operation in progress
          calls,   \* the storage calls it still has to make
          acked,   \* what the driver has been told is durable; skewed when an
                   \* odd number of saves of the hard state failed since
          used,    \* how much of each bound is spent
          log      \* what Wal::open would read from the files now

vars == <<disk, wal, op, calls, acked, used, log>>

\* An entry holds the number of the append that wrote it.
Value == 1 .. MaxAppends

-----------------------------------------------------------------------------
(* The simulated disk *)

Bad == [seq |-> 0, value |-> 0]

Empty == [durable |-> <<>>, pending |-> <<>>]

seg(first) == <<"wal", first>>
state_file == <<"state", 0>>
snapshot_file(slot) == <<"snapshot", slot>>

Call(do, file, at, cell) == [do |-> do, file |-> file, at |-> at, cell |-> cell]

\* What a write or a truncate does to the contents c of a file.
Effect(c, o) ==
  IF o.do = "truncate" THEN SubSeq(c, 1, Min({o.at, Len(c)}))
  ELSE [i \in 1 .. Max({Len(c), o.at + 1}) |->
          IF i = o.at + 1 THEN o.cell ELSE IF i <= Len(c) THEN c[i] ELSE Bad]

View(f) == FoldLeft(Effect, f.durable, f.pending)

\* Each operation that no fsync covered is lost, lands, or, if it is a write,
\* tears at a sector boundary.  A record that lies within one sector tears by
\* being lost, but the sector size is the policy's to choose.
Survivors(f) ==
  LET land(cs, o) ==
        cs \cup {Effect(c, o) : c \in cs}
           \cup {Effect(c, [o EXCEPT !.cell = Bad]) : c \in cs}
  IN  FoldLeft(land, {f.durable}, f.pending)

Unsynced == {n \in DOMAIN disk : disk[n].pending # <<>>}

\* power_loss
PowerLoss ==
  LET all == UNION {Survivors(disk[n]) : n \in Unsynced}
      picks == {g \in [Unsynced -> all] : \A n \in Unsynced : g[n] \in Survivors(disk[n])}
  IN  {[n \in DOMAIN disk |->
          IF n \in Unsynced THEN [durable |-> g[n], pending |-> <<>>] ELSE disk[n]]
       : g \in picks}

-----------------------------------------------------------------------------
(* The log in memory *)

Segment(first) == [first |-> first, last |-> first - 1, dirty |-> FALSE]

size(s) == s.last - s.first + 1

Active(w) == w.segments[Len(w.segments)]

first_index(w) == w.segments[1].first

last_index(w) == Active(w).last

Down == [up |-> FALSE, segments |-> <<>>, state_seq |-> 0,
         snapshot_slot |-> 0, snapshot_seq |-> 0]

\* What memory keeps of the segment in a file: how many records it holds, and
\* whether some are not synced.  Other files have no such entry.
with_records(w, file, count) ==
  [w EXCEPT !.segments =
     [i \in DOMAIN @ |-> IF seg(@[i].first) = file
                         THEN [@[i] EXCEPT !.last = w.segments[i].first + count - 1]
                         ELSE @[i]]]

with_dirty(w, file, dirty) ==
  [w EXCEPT !.segments =
     [i \in DOMAIN @ |-> IF seg(@[i].first) = file
                         THEN [@[i] EXCEPT !.dirty = dirty] ELSE @[i]]]

-----------------------------------------------------------------------------
(* The storage calls of each operation *)

open_segment(first) == <<Call("open", seg(first), first, Bad)>>

\* append_inner: a segment that is full makes room for the next one.
append_calls(w, values) ==
  LET put(b, v) ==
        LET full == b.size >= SegmentEntries
            index == b.last + 1
            first == IF full THEN index ELSE b.first
            at == IF full THEN 0 ELSE b.size
        IN  [calls |-> b.calls \o (IF full THEN open_segment(index) ELSE <<>>)
                         \o <<Call("write", seg(first), at, [seq |-> index, value |-> v])>>,
             first |-> first, last |-> index, size |-> at + 1]
      start == [calls |-> <<>>, first |-> Active(w).first, last |-> last_index(w),
                size |-> size(Active(w))]
  IN  FoldLeft(put, start, values).calls

\* Variant: the barrier covers the newest segment only.
sync_calls_active(w) ==
  IF Active(w).dirty THEN <<Call("fsync", seg(Active(w).first), 0, Bad)>> ELSE <<>>

sync_calls(w) ==
  LET dirty == SelectSeq(w.segments, LAMBDA s : s.dirty)
  IN  [i \in DOMAIN dirty |-> Call("fsync", seg(dirty[i].first), 0, Bad)]

removals(segments) ==
  [i \in DOMAIN segments |-> Call("remove", seg(segments[i].first), 0, Bad)]

reset_calls(w, index) == removals(w.segments) \o open_segment(index + 1)

truncate_calls(w, from) ==
  LET gone == SelectSeq(w.segments, LAMBDA s : s.first >= from)
      s == w.segments[Len(w.segments) - Len(gone)]
  IN  IF from > last_index(w) THEN <<>>
      ELSE IF from <= first_index(w) THEN reset_calls(w, from - 1)
      ELSE removals(Reverse(gone)) \o
           (IF from > s.last THEN <<>>
            ELSE <<Call("truncate", seg(s.first), from - s.first, Bad),
                   Call("fsync", seg(s.first), 0, Bad)>>)

\* Leading segments that end below through, the active one and the slack kept.
compact_calls(w, through) ==
  LET left(k) == last_index(w) - w.segments[k].last
      drop == {k \in 1 .. Len(w.segments) - 1 :
                 \A i \in 1 .. k : /\ w.segments[i].last < through
                                   /\ left(i) >= CompactSlack}
  IN  removals(SubSeq(w.segments, 1, Max({0} \cup drop)))

\* Variant: one slot, overwritten in place.
hard_state_slot_single(seq) == 0

hard_state_slot(seq) == seq % 2

hard_state_calls(seq, hs) ==
  <<Call("write", state_file, hard_state_slot(seq), [seq |-> seq, value |-> hs]),
    Call("fsync", state_file, 0, Bad)>>

snapshot_calls(slot, seq, index) ==
  LET f == snapshot_file(slot)
  IN  <<Call("truncate", f, 0, Bad), Call("write", f, 0, [seq |-> seq, value |-> index]),
        Call("fsync", f, 0, Bad)>>

-----------------------------------------------------------------------------
(* Recovery.  content gives the contents of every file. *)

\* scan_segment: the records up to the first bad one or the first gap.
scan_segment(c, expected) ==
  LET good == {n \in 0 .. Len(c) : \A i \in 1 .. n : c[i].seq = expected + i - 1}
  IN  SubSeq(c, 1, Max(good))

Names(content) == SetToSortSeq({n[2] : n \in {m \in DOMAIN content : m[1] = "wal"}}, <)

\* Variant: no check that a segment starts where the last one ended.
Follows_any(first, found, i) == TRUE

\* Nothing was found before segment i, or it starts where the last one ended.
Follows(first, found, i) ==
  \/ \A j \in 1 .. i - 1 : found[j] = <<>>
  \/ first[i] = first[i - 1] + Len(found[i - 1])

\* Variant: the bad tail of a segment is left in place.
repair_none(file, n) == <<>>

\* A bad tail is cut off, so that the next append does not land behind it.
repair(file, n) == <<Call("truncate", file, n, Bad), Call("fsync", file, 0, Bad)>>

\* The segments of Wal::open, oldest first.  The first one that does not
\* follow, or comes after one with a bad tail, is removed with all later ones.
recover_segments(content) ==
  LET first == Names(content)
      cells(i) == content[seg(first[i])]
      found == [i \in DOMAIN first |-> scan_segment(cells(i), first[i])]
      kept == Max({n \in 0 .. Len(first) :
                     \A i \in 1 .. n : i = 1 \/ /\ found[i - 1] = cells(i - 1)
                                                /\ Follows(first, found, i)})
      clean == kept = 0 \/ found[kept] = cells(kept)
  IN  [entries |-> FlattenSeq(SubSeq(found, 1, kept)),
       clean |-> clean /\ kept = Len(first),
       segments |-> [i \in 1 .. kept |-> [Segment(first[i]) EXCEPT !.last = @ + Len(found[i])]],
       calls |-> (IF clean THEN <<>>
                  ELSE repair(seg(first[kept]), Len(found[kept])))
                 \o removals([i \in 1 .. Len(first) - kept |-> Segment(first[kept + i])])]

\* The newest of the good cells; Bad, whose seq is 0, when there is none.
Newest(cells) == CHOOSE c \in cells \cup {Bad} : \A d \in cells : d.seq <= c.seq

read_hard_state(content) == Newest(Range(content[state_file]))

read_snapshot(content, slot) ==
  IF content[snapshot_file(slot)] = <<>> THEN Bad ELSE content[snapshot_file(slot)][1]

newest_snapshot(content) == Newest({read_snapshot(content, slot) : slot \in 0 .. 1})

recovered_snapshot_slot(content) ==
  LET best == newest_snapshot(content)
  IN  IF best = Bad THEN 0
      ELSE 1 - CHOOSE slot \in 0 .. 1 : read_snapshot(content, slot) = best

Durable == [n \in DOMAIN disk |-> disk[n].durable]

Visible == [n \in DOMAIN disk |-> View(disk[n])]

-----------------------------------------------------------------------------
(* Actions *)

Reread == log' = recover_segments(Visible').entries

Op(name, at) == [name |-> name, at |-> at]

Nothing == Op("none", 0)

Unspent == [appends |-> 0, cuts |-> 0, snapshots |-> 0, saves |-> 0, full |-> 0, crashes |-> 0]

InitFrom(spent) ==
  /\ disk = [n \in {state_file, snapshot_file(0), snapshot_file(1)} |-> Empty]
  /\ wal = Down /\ op = Nothing /\ calls = <<>>
  /\ acked = [safe |-> 0, snap |-> 0, hs |-> 0, skewed |-> FALSE]
  /\ used = spent
  /\ log = <<>>

Init == InitFrom(Unspent)

Spend(bound, max) == used[bound] < max /\ used' = [used EXCEPT ![bound] = @ + 1]

open ==
  /\ ~wal.up
  /\ LET b == recover_segments(Durable)
         snap == newest_snapshot(Durable)
     IN  /\ wal' = [up |-> TRUE, segments |-> b.segments,
                    state_seq |-> read_hard_state(Durable).seq,
                    snapshot_slot |-> recovered_snapshot_slot(Durable),
                    snapshot_seq |-> snap.seq]
         /\ op' = Op("open", 0)
         /\ calls' = b.calls \o
              (IF b.segments = <<>> THEN open_segment(snap.value + 1) ELSE <<>>)
         /\ acked' = [acked EXCEPT !.snap = snap.value, !.hs = read_hard_state(Durable).value,
                                    !.skewed = FALSE]
  /\ UNCHANGED <<disk, used, log>>

Idle == wal.up /\ op = Nothing

\* persist appends a batch and then syncs.
append ==
  /\ Idle /\ last_index(wal) >= acked.snap
  /\ Spend("appends", MaxAppends)
  /\ \E n \in 1 .. MaxBatch :
       /\ last_index(wal) + n <= MaxIndex
       /\ calls' = append_calls(wal, [i \in 1 .. n |-> used'.appends])
  /\ op' = Op("append", last_index(wal))
  /\ UNCHANGED <<disk, wal, acked, log>>

truncate_from ==
  /\ Idle
  /\ Spend("cuts", MaxCuts)
  /\ \E from \in acked.snap + 1 .. last_index(wal) :
       /\ from <= first_index(wal) => Len(wal.segments) <= MaxResetSegments
       /\ calls' = truncate_calls(wal, from)
       /\ acked' = [acked EXCEPT !.safe = Min({@, from - 1})]
  /\ op' = Op("truncate_from", 0)
  /\ UNCHANGED <<disk, wal, log>>

save_hard_state ==
  /\ Idle
  /\ Spend("saves", MaxSaves)
  /\ wal' = [wal EXCEPT !.state_seq = @ + 1]
  /\ calls' = hard_state_calls(wal'.state_seq, used'.saves)
  /\ op' = Op("save_hard_state", used'.saves)
  /\ UNCHANGED <<disk, acked, log>>

\* The driver saves a snapshot of what it has applied, which is durable, and
\* compacts; or one its leader sent, and restarts the log after it.
save_snapshot ==
  /\ Idle
  /\ Spend("snapshots", MaxSnapshots)
  /\ wal' = [wal EXCEPT !.snapshot_seq = @ + 1]
  /\ \E index \in acked.snap + 1 .. MaxIndex :
       /\ calls' = snapshot_calls(wal.snapshot_slot, wal'.snapshot_seq, index)
       /\ \/ /\ index <= acked.safe /\ op' = Op("own_snapshot", index)
             /\ UNCHANGED acked
          \/ /\ Len(wal.segments) <= MaxResetSegments /\ op' = Op("leader_snapshot", index)
             /\ acked' = [acked EXCEPT !.safe = Min({@, index})]
  /\ UNCHANGED <<disk, log>>

\* reconcile, after a crash between a leader's snapshot and reset_to.
reconcile ==
  /\ Idle /\ last_index(wal) < acked.snap
  /\ calls' = reset_calls(wal, acked.snap)
  /\ op' = Op("reset_to", acked.snap)
  /\ UNCHANGED <<disk, wal, acked, used, log>>

-----------------------------------------------------------------------------
(* The storage calls *)

Making(do) == calls # <<>> /\ Head(calls).do = do /\ calls' = Tail(calls)

open_call ==
  /\ Making("open")
  /\ LET c == Head(calls)
         old == IF c.file \in DOMAIN disk THEN disk[c.file] ELSE Empty
         cut == [old EXCEPT !.pending = Append(@, Call("truncate", c.file, 0, Bad))]
     IN  /\ disk' = [n \in DOMAIN disk \cup {c.file} |-> IF n = c.file THEN cut ELSE disk[n]]
         /\ wal' = [wal EXCEPT !.segments = Append(@, Segment(c.at))]
  /\ Reread
  /\ UNCHANGED <<op, acked, used>>

write_at ==
  /\ Making("write")
  /\ LET c == Head(calls)
     IN  /\ disk' = [disk EXCEPT ![c.file].pending = Append(@, c)]
         /\ wal' = with_dirty(with_records(wal, c.file, c.at + 1), c.file, TRUE)
  /\ Reread
  /\ UNCHANGED <<op, acked, used>>

truncate ==
  /\ Making("truncate")
  /\ LET c == Head(calls)
     IN  /\ disk' = [disk EXCEPT ![c.file].pending = Append(@, c)]
         /\ wal' = with_records(wal, c.file, c.at)
  /\ Reread
  /\ UNCHANGED <<op, acked, used>>

fsync ==
  /\ Making("fsync")
  /\ LET c == Head(calls)
     IN  /\ disk' = [disk EXCEPT ![c.file] = [durable |-> View(@), pending |-> <<>>]]
         /\ wal' = with_dirty(wal, c.file, FALSE)
  /\ Reread
  /\ UNCHANGED <<op, acked, used>>

remove ==
  /\ Making("remove")
  /\ LET c == Head(calls)
     IN  /\ disk' = [n \in DOMAIN disk \ {c.file} |-> disk[n]]
         /\ wal' = [wal EXCEPT !.segments = SelectSeq(@, LAMBDA s : seg(s.first) # c.file)]
  /\ Reread
  /\ UNCHANGED <<op, acked, used>>

\* Write c reaches beyond the end of its file, by a record or by the bytes of
\* a vote.
Grows(c) ==
  LET v == View(disk[c.file])
  IN  \/ c.at >= Len(v)
      \/ /\ c.file = state_file /\ c.at = Len(v) - 1
         /\ c.cell.value \in Voted /\ v[Len(v)].value \notin Voted

\* A write that would grow its file finds the disk full.  append cuts back
\* what it wrote of the batch; the other operations just fail, and a failed
\* save of the hard state has used up its sequence number.
full ==
  /\ calls # <<>> /\ Head(calls).do = "write"
  /\ LET c == Head(calls)
         dirtied == with_dirty(wal, c.file, TRUE)
     IN  /\ Grows(c)
         /\ wal' = dirtied
         /\ acked' = [acked EXCEPT !.skewed = IF c.file = state_file THEN ~@ ELSE @]
         /\ \/ /\ op.name = "append" /\ op' = Op("rollback", 0)
               /\ calls' = truncate_calls(dirtied, op.at + 1)
            \/ /\ op.name # "append" /\ op' = Nothing
               /\ calls' = <<>>
  /\ Spend("full", MaxFull)
  /\ UNCHANGED <<disk, log>>

-----------------------------------------------------------------------------
(* The operation returns *)

Returning(names) == op.name \in names /\ calls = <<>>

append_returns ==
  /\ Returning({"append"})
  /\ op' = Op("sync", 0) /\ calls' = sync_calls(wal)
  /\ UNCHANGED <<disk, wal, acked, used, log>>

sync_returns ==
  /\ Returning({"sync"})
  /\ op' = Nothing
  /\ acked' = [acked EXCEPT !.safe = last_index(wal)]
  /\ UNCHANGED <<disk, wal, calls, used, log>>

hard_state_returns ==
  /\ Returning({"save_hard_state"})
  /\ op' = Nothing
  /\ acked' = [acked EXCEPT !.hs = op.at, !.skewed = FALSE]
  /\ UNCHANGED <<disk, wal, calls, used, log>>

\* Variant: the next snapshot goes to the slot this one used.
next_snapshot_slot_same(slot) == slot

next_snapshot_slot(slot) == 1 - slot

\* What the driver calls next: compact_through, or reset_to.
snapshot_returns ==
  /\ Returning({"own_snapshot", "leader_snapshot"})
  /\ wal' = [wal EXCEPT !.snapshot_slot = next_snapshot_slot(@)]
  /\ acked' = [acked EXCEPT !.snap = op.at]
  /\ \/ op.name = "own_snapshot" /\ calls' = compact_calls(wal, op.at)
     \/ op.name = "leader_snapshot" /\ calls' = reset_calls(wal, op.at)
  /\ op' = Op("after_snapshot", 0)
  /\ UNCHANGED <<disk, used, log>>

returns ==
  /\ Returning({"open", "truncate_from", "reset_to", "rollback", "after_snapshot"})
  /\ op' = Nothing
  /\ UNCHANGED <<disk, wal, calls, acked, used, log>>

crash ==
  /\ wal.up
  /\ Spend("crashes", MaxCrashes)
  /\ disk' \in PowerLoss
  /\ wal' = Down /\ op' = Nothing /\ calls' = <<>>
  /\ Reread
  /\ UNCHANGED acked

Next ==
  \/ open \/ append \/ truncate_from \/ save_hard_state \/ save_snapshot \/ reconcile
  \/ open_call \/ write_at \/ truncate \/ fsync \/ remove \/ full
  \/ append_returns \/ sync_returns \/ hard_state_returns \/ snapshot_returns \/ returns
  \/ crash

Spec == Init /\ [][Next]_vars

-----------------------------------------------------------------------------
(* Properties *)

\* The log, as Wal::open would read it from the files, implements what
\* tests/wal.rs says of it: a crash at any storage call leaves a prefix that
\* includes everything a completed sync acknowledged.
Abstract == INSTANCE DurableLog WITH safe <- acked.safe, snap <- acked.snap

ImplementsDurableLog == Abstract!Spec

\* After a crash, what Wal::open hands to Log::restore starts right after the
\* snapshot and skips no index, the assertion of log.rs.
Reconnects ==
  ~wal.up =>
    LET snap == newest_snapshot(Durable).value
        entries == SelectSeq(recover_segments(Durable).entries, LAMBDA e : e.seq > snap)
    IN  \A k \in 1 .. Len(entries) : entries[k].seq = snap + k

\* Between operations the segments in memory are the files: the same first
\* and last indices that a scan of the files finds, so the next append lands
\* right after the last record.
MemoryIsDisk ==
  Idle => LET found == recover_segments(Visible)
          IN  /\ found.clean
              /\ Len(found.segments) = Len(wal.segments)
              /\ \A i \in DOMAIN wal.segments :
                   /\ wal.segments[i].first = found.segments[i].first
                   /\ wal.segments[i].last = found.segments[i].last

\* A node does not forget a term or vote it was told is saved: after a crash
\* the newest good slot holds the last acknowledged hard state or a later one.
\* Saves that fail for want of space count, because they raise state_seq before
\* they write (wal.rs:496): after one of them the next save overwrites the slot
\* of the live copy, and a crash that tears it there leaves nothing to read, the
\* accident that the two slots are there to prevent (wal.rs:490-494).  After
\* two of them the slots are in step again.
HardStateKept ==
  ~wal.up /\ ~acked.skewed => read_hard_state(Durable).value >= acked.hs

\* Nor does it forget a snapshot, whose segments may be gone already: a save
\* empties a slot only while the other one holds the last acknowledged snapshot,
\* whatever saves failed in between.
SnapshotKept == ~wal.up => newest_snapshot(Durable).value >= acked.snap
=============================================================================
