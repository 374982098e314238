------------------------------- MODULE RaftLog -------------------------------
(***************************************************************************)
(* The in-memory Raft log of chronolog/src/log.rs.  Entry k of l.entries    *)
(* has index l.snapshot_index + k, so an entry carries its term and kind    *)
(* only.  Index 0 is the sentinel before the first entry, with term 0.      *)
(***************************************************************************)
EXTENDS Membership, Sequences, FiniteSetsExt

NoTerm == -1

\* What an entry carries: the no-op of a new leader, a client command, or a
\* configuration change.
Noop == [type |-> "Noop"]
Normal(v) == [type |-> "Normal", data |-> v]
IsConfig(e) == e.kind.type \in {"EnterJoint", "LeaveJoint"}

bootstrap(cfg) ==
  [snapshot_index |-> 0, snapshot_term |-> 0, snapshot_config |-> cfg,
   entries |-> <<>>]

first_index(l) == l.snapshot_index + 1

last_index(l) == l.snapshot_index + Len(l.entries)

last_term(l) ==
  IF l.entries = <<>> THEN l.snapshot_term ELSE l.entries[Len(l.entries)].term

\* The term of an index, NoTerm where the code returns None.
term_at(l, index) ==
  CASE index = 0 -> 0
    [] index = l.snapshot_index /\ index # 0 -> l.snapshot_term
    [] index > l.snapshot_index /\ index <= last_index(l)
         -> l.entries[index - l.snapshot_index].term
    [] OTHER -> NoTerm

\* Entries with index in from..(to-1), clamped to what exists.
slice(l, from, to) ==
  LET lo == (IF from < first_index(l) THEN first_index(l) ELSE from)
                - l.snapshot_index
      hi == (IF to > last_index(l) THEN last_index(l) ELSE to - 1)
                - l.snapshot_index
  IN  SubSeq(l.entries, lo, hi)

entries_from(l, from) == slice(l, from, last_index(l) + 1)

\* Variant: an empty log will do.
is_up_to_date_or_empty(l, term, index) ==
  index = 0 \/ term > last_term(l) \/ (term = last_term(l) /\ index >= last_index(l))

is_up_to_date(l, term, index) ==
  \/ term > last_term(l)
  \/ term = last_term(l) /\ index >= last_index(l)

append(l, es) == [l EXCEPT !.entries = @ \o es]

\* Drop every entry with index >= from.
truncate_from(l, from) ==
  IF from > last_index(l) THEN l
  ELSE [l EXCEPT !.entries =
          SubSeq(@, 1, IF from > l.snapshot_index
                       THEN from - l.snapshot_index - 1 ELSE 0)]

\* The positions of es, which start right after prev, that the log lacks or
\* holds with another term.
Differing(l, prev, es) ==
  {k \in DOMAIN es : term_at(l, prev + k) # es[k].term}

\* Keep the agreeing prefix of es; from the first difference on, es replaces
\* whatever the log holds.
merge(l, prev, es) ==
  IF Differing(l, prev, es) = {} THEN l
  ELSE LET k == Min(Differing(l, prev, es))
       IN  append(truncate_from(l, prev + k), SubSeq(es, k, Len(es)))

compact_through(l, through, term, cfg) ==
  IF through <= l.snapshot_index THEN l
  ELSE LET keep == IF through < last_index(l) THEN through ELSE last_index(l)
       IN  [snapshot_index |-> keep, snapshot_term |-> term,
            snapshot_config |-> cfg,
            entries |-> SubSeq(l.entries, keep - l.snapshot_index + 1,
                               Len(l.entries))]

install_snapshot(l, snap) ==
  IF term_at(l, snap.last_index) = snap.last_term
  THEN compact_through(l, snap.last_index, snap.last_term, snap.config)
  ELSE [snapshot_index |-> snap.last_index, snapshot_term |-> snap.last_term,
        snapshot_config |-> snap.config, entries |-> <<>>]

\* The configuration the log implies: every config entry replayed, in order,
\* on the snapshot's configuration.  Only the last EnterJoint, the voters it
\* displaced, and whether a LeaveJoint follows it still show in the result.
config(l) ==
  LET at(type) == {k \in DOMAIN l.entries : l.entries[k].kind.type = type}
      enters == at("EnterJoint")
      leaves == at("LeaveJoint")
      incoming(k) == l.entries[k].kind.incoming
      last == Max(enters)
      earlier == enters \ {last}
  IN  IF enters = {}
      THEN IF leaves = {} THEN l.snapshot_config
           ELSE apply_change(l.snapshot_config, LeaveJoint)
      ELSE [voters   |-> incoming(last),
            outgoing |-> IF \E k \in leaves : k > last THEN {}
                         ELSE IF earlier = {} THEN l.snapshot_config.voters
                         ELSE incoming(Max(earlier)),
            learners |-> l.entries[last].kind.learners]

\* The highest index at or below the given one whose term is at most term.
find_conflict_by_term(l, index, term) ==
  LET top == IF index < last_index(l) THEN index ELSE last_index(l)
      fit == {k \in first_index(l) .. top : term_at(l, k) <= term}
  IN  CASE top <= l.snapshot_index -> top
        [] top > l.snapshot_index /\ fit = {} -> l.snapshot_index
        [] OTHER -> Max(fit)
=============================================================================
