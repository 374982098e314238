----------------------------- MODULE NodeProofs -----------------------------
(***************************************************************************)
(* What the operations on a log, the operators and handlers of the Raft    *)
(* state machine and the driver's turn of the loop return, completed or    *)
(* interrupted; and what they do to terms, votes and ballots, in memory and*)
(* on disk.  E and C are any universe of entries and configurations.       *)
(***************************************************************************)
EXTENDS Handling, TLAPS

-----------------------------------------------------------------------------
(* Logs *)

\* The indices of a log are numbers, in the order they are meant.
LEMMA LogIndices ==
  ASSUME NEW E, NEW C, NEW l \in LogOf(E, C)
  PROVE  /\ l.snapshot_index \in Nat /\ l.entries \in Seq(E)
         /\ first_index(l) \in Nat \ {0} /\ first_index(l) = l.snapshot_index + 1
         /\ last_index(l) \in Nat
         /\ last_index(l) = l.snapshot_index + Len(l.entries)
         /\ Len(l.entries) \in Nat
  BY DEF LogOf, first_index, last_index

\* A slice of a sequence is one, of the expected length.
LEMMA SubSeqType ==
  ASSUME NEW E, NEW s \in Seq(E), NEW lo \in Nat \ {0}, NEW hi \in Int,
         hi <= Len(s)
  PROVE  /\ SubSeq(s, lo, hi) \in Seq(E)
         /\ Len(SubSeq(s, lo, hi)) = IF lo <= hi THEN hi - lo + 1 ELSE 0
  OBVIOUS

\* Two sequences one after the other are one.
LEMMA ConcatType ==
  ASSUME NEW E, NEW s \in Seq(E), NEW t \in Seq(E)
  PROVE  s \o t \in Seq(E) /\ Len(s \o t) = Len(s) + Len(t)
  OBVIOUS

\* Max of a set that has an upper bound among the naturals.
LEMMA MaxBounded ==
  ASSUME Counting, NEW n \in Nat, NEW S \in SUBSET Nat, S # {}, \A y \in S : y <= n
  PROVE  Max(S) \in S /\ \A y \in S : Max(S) >= y
  BY Zenon DEF Counting

\* Min of a set of naturals.
LEMMA MinBounds ==
  ASSUME Counting, NEW S \in SUBSET Nat, S # {}
  PROVE  Min(S) \in S /\ \A y \in S : Min(S) <= y
  BY Zenon DEF Counting

\* term_at is a term wherever the log covers the index.
LEMMA TermAtType ==
  ASSUME NEW E, NEW C, NEW l \in LogOf(E, C), NEW k \in Int,
         \A e \in E : e.term \in Nat
  PROVE  /\ term_at(l, k) \in Nat \cup {NoTerm}
         /\ k \in l.snapshot_index .. last_index(l) => term_at(l, k) \in Nat
  BY LogIndices DEF term_at, NoTerm, LogOf

\* last_term is a term.
LEMMA LastTermType ==
  ASSUME NEW E, NEW C, NEW l \in LogOf(E, C), \A e \in E : e.term \in Nat
  PROVE  last_term(l) \in Nat
<1>1. CASE l.entries = <<>>
  BY <1>1 DEF last_term, LogOf
<1>2. CASE l.entries # <<>>
  <2>1. Len(l.entries) \in 1 .. Len(l.entries)
    BY <1>2, LogIndices
  <2> QED
    BY <1>2, <2>1, LogIndices DEF last_term
<1> QED
  BY <1>1, <1>2

\* slice returns entries of the log.
LEMMA SliceType ==
  ASSUME NEW E, NEW C, NEW l \in LogOf(E, C), NEW from \in Int, NEW to \in Int
  PROVE  slice(l, from, to) \in Seq(E)
  BY SMTT(60), LogIndices, SubSeqType DEF slice

\* entries_from returns entries of the log.
LEMMA EntriesFromType ==
  ASSUME NEW E, NEW C, NEW l \in LogOf(E, C), NEW from \in Int
  PROVE  entries_from(l, from) \in Seq(E)
  BY SliceType, LogIndices DEF entries_from

\* Replacing the entries keeps the log's type and its snapshot.
LEMMA EntriesReplaced ==
  ASSUME NEW E, NEW C, NEW l \in LogOf(E, C), NEW es \in Seq(E)
  PROVE  /\ [l EXCEPT !.entries = es] \in LogOf(E, C)
         /\ [l EXCEPT !.entries = es].entries = es
         /\ [l EXCEPT !.entries = es].snapshot_index = l.snapshot_index
  BY DEF LogOf

\* append keeps the type and moves the last index by what it appended.
LEMMA AppendType ==
  ASSUME NEW E, NEW C, NEW l \in LogOf(E, C), NEW es \in Seq(E)
  PROVE  /\ append(l, es) \in LogOf(E, C)
         /\ append(l, es).snapshot_index = l.snapshot_index
         /\ last_index(append(l, es)) = last_index(l) + Len(es)
<1>1. l.entries \o es \in Seq(E) /\ Len(l.entries \o es) = Len(l.entries) + Len(es)
  BY LogIndices, ConcatType
<1>2. Len(es) \in Nat /\ Len(l.entries) \in Nat /\ l.snapshot_index \in Nat
  BY LogIndices
<1> DEFINE k == append(l, es)
           ns == l.entries \o es
<1>3. k \in LogOf(E, C) /\ k.snapshot_index = l.snapshot_index /\ k.entries = ns
  <2>1. k = [l EXCEPT !.entries = ns]
    BY DEF append
  <2>2. ns \in Seq(E)
    BY <1>1
  <2> HIDE DEF k, ns
  <2> QED
    BY <2>1, <2>2, EntriesReplaced
<1> HIDE DEF k
<1>4. last_index(k) = l.snapshot_index + (Len(l.entries) + Len(es))
  BY <1>1, <1>3 DEF last_index
<1>5. last_index(k) = last_index(l) + Len(es)
  BY <1>2, <1>4 DEF last_index
<1> QED
  BY <1>3, <1>5 DEF k

\* truncate_from keeps the type of the log.
LEMMA TruncateFromType ==
  ASSUME NEW E, NEW C, NEW l \in LogOf(E, C), NEW from \in Nat
  PROVE  truncate_from(l, from) \in LogOf(E, C)
<1> DEFINE hi == IF from > l.snapshot_index THEN from - l.snapshot_index - 1 ELSE 0
<1>1. from <= last_index(l) => SubSeq(l.entries, 1, hi) \in Seq(E)
  BY LogIndices, SubSeqType
<1> HIDE DEF hi
<1>2. CASE from <= last_index(l)
  BY Zenon, <1>1, <1>2, LogIndices, EntriesReplaced DEF truncate_from, hi
<1>3. CASE from > last_index(l)
  BY <1>3 DEF truncate_from
<1> QED
  BY <1>2, <1>3, LogIndices

\* merge, the conflict rule of handle_append, keeps the type of the log.
LEMMA MergeType ==
  ASSUME NEW E, NEW C, Universe(E, C), NEW l \in LogOf(E, C), NEW prev \in Nat,
         NEW es \in Seq(E)
  PROVE  merge(l, prev, es) \in LogOf(E, C)
<1> DEFINE D == Differing(l, prev, es)
           k == Min(D)
<1>1. CASE D = {}
  BY <1>1 DEF merge
<1>2. CASE D # {}
  <2>1. D \in SUBSET Nat /\ D \subseteq 1 .. Len(es)
    BY DEF Differing
  <2>2. k \in 1 .. Len(es)
    BY <1>2, <2>1, MinBounds DEF Universe
  <2>3. SubSeq(es, k, Len(es)) \in Seq(E)
    BY <2>2, SubSeqType
  <2>4. truncate_from(l, prev + k) \in LogOf(E, C)
    BY <2>2, TruncateFromType
  <2>5. merge(l, prev, es) = append(truncate_from(l, prev + k), SubSeq(es, k, Len(es)))
    BY <1>2 DEF merge
  <2> QED
    BY Zenon, <2>3, <2>4, <2>5, AppendType
<1> QED
  BY <1>1, <1>2

\* compact_through keeps the type of the log.
LEMMA CompactThroughType ==
  ASSUME NEW E, NEW C, NEW l \in LogOf(E, C), NEW through \in Nat,
         NEW term \in Nat, NEW cfg \in C
  PROVE  compact_through(l, through, term, cfg) \in LogOf(E, C)
<1> DEFINE keep == IF through < last_index(l) THEN through ELSE last_index(l)
<1>1. ASSUME through > l.snapshot_index
      PROVE  /\ keep \in Nat
             /\ SubSeq(l.entries, keep - l.snapshot_index + 1, Len(l.entries))
                  \in Seq(E)
  BY <1>1, LogIndices, SubSeqType
<1> QED
  BY <1>1, LogIndices DEF compact_through, LogOf

\* install_snapshot keeps the type of the log.
LEMMA InstallSnapshotType ==
  ASSUME NEW E, NEW C, NEW l \in LogOf(E, C), NEW snap \in SnapshotOf(E, C)
  PROVE  install_snapshot(l, snap) \in LogOf(E, C)
<1>1. /\ snap.last_index \in Nat /\ snap.last_term \in Nat /\ snap.config \in C
  BY DEF SnapshotOf
<1>2. compact_through(l, snap.last_index, snap.last_term, snap.config)
        \in LogOf(E, C)
  BY <1>1, CompactThroughType
<1>3. [snapshot_index |-> snap.last_index, snapshot_term |-> snap.last_term,
       snapshot_config |-> snap.config, entries |-> <<>>] \in LogOf(E, C)
  BY <1>1 DEF LogOf
<1> QED
  BY <1>2, <1>3 DEF install_snapshot

\* find_conflict_by_term returns an index.
LEMMA FindConflictType ==
  ASSUME NEW E, NEW C, Universe(E, C), NEW l \in LogOf(E, C),
         NEW index \in Nat, NEW term \in Nat
  PROVE  find_conflict_by_term(l, index, term) \in Nat
<1> DEFINE top == IF index < last_index(l) THEN index ELSE last_index(l)
           fit == {k \in first_index(l) .. top : term_at(l, k) <= term}
<1>1. top \in Nat /\ first_index(l) \in Nat /\ l.snapshot_index \in Nat
  BY LogIndices
<1>2. fit # {} => Max(fit) \in Nat
  <2> HIDE DEF top
  <2>1. fit \in SUBSET Nat /\ \A k \in fit : k <= top
    BY <1>1
  <2>2. fit # {} => Max(fit) \in fit
    BY Zenon, <1>1, <2>1, MaxBounded DEF Universe
  <2> QED
    BY <2>1, <2>2
<1> HIDE DEF fit, top
<1>3. find_conflict_by_term(l, index, term) =
        CASE top <= l.snapshot_index -> top
          [] top > l.snapshot_index /\ fit = {} -> l.snapshot_index
          [] OTHER -> Max(fit)
  BY DEF find_conflict_by_term, top, fit
<1> QED
  BY <1>1, <1>2, <1>3

-----------------------------------------------------------------------------
(* The two universes of interest *)

\* Replaying a log yields a configuration over Server.
LEMMA ConfigType ==
  ASSUME Counting, NEW l \in LogOf(Entry, Config(Server))
  PROVE  config(l) \in Config(Server)
<1> DEFINE enters == {k \in DOMAIN l.entries : l.entries[k].kind.type = "EnterJoint"}
           leaves == {k \in DOMAIN l.entries : l.entries[k].kind.type = "LeaveJoint"}
           last == Max(enters)
           earlier == enters \ {last}
<1>1. /\ DOMAIN l.entries = 1 .. Len(l.entries) /\ Len(l.entries) \in Nat
      /\ l.snapshot_config \in Config(Server)
  BY DEF LogOf
<1>2. ASSUME NEW k \in enters
      PROVE  /\ l.entries[k].kind.incoming \in SUBSET Server
             /\ l.entries[k].kind.learners \in SUBSET Server
  <2>1. l.entries[k] \in Entry
    BY <1>2 DEF LogOf
  <2> QED
    BY <1>2, <2>1 DEF Entry, PlainKind, ConfigKind
<1>3. ASSUME NEW S \in SUBSET (1 .. Len(l.entries)), S # {}
      PROVE  Max(S) \in S
  <2>1. S \in SUBSET Nat /\ \A k \in S : k <= Len(l.entries)
    BY <1>1
  <2> QED
    BY Zenon, <1>1, <1>3, <2>1, MaxBounded
<1>4. CASE enters = {}
  BY <1>1, <1>4 DEF config, apply_change, LeaveJoint, Config
<1>5. CASE enters # {}
  <2>1. last \in enters
    BY Zenon, <1>1, <1>3, <1>5
  <2>2. earlier # {} => Max(earlier) \in enters
    BY ZenonT(60), <1>1, <1>3
  <2> DEFINE old == IF \E k \in leaves : k > last THEN {}
                    ELSE IF earlier = {} THEN l.snapshot_config.voters
                    ELSE l.entries[Max(earlier)].kind.incoming
  <2>3. config(l) = [voters   |-> l.entries[last].kind.incoming,
                     outgoing |-> old,
                     learners |-> l.entries[last].kind.learners]
    BY Zenon, <1>5 DEF config
  <2>4. old \in SUBSET Server
    BY ZenonT(60), <1>1, <1>2, <2>2 DEF Config
  <2> HIDE DEF old, last
  <2> QED
    BY <1>2, <2>1, <2>3, <2>4 DEF Config
<1> QED
  BY <1>4, <1>5

\* A log without configuration entries keeps the configuration of its base.
LEMMA PlainConfig ==
  ASSUME NEW C, NEW l \in LogOf(PlainEntry, C)
  PROVE  config(l) = l.snapshot_config
<1>1. \A k \in DOMAIN l.entries : l.entries[k].kind \in PlainKind
  <2>1. l.entries \in Seq(PlainEntry)
    BY DEF LogOf
  <2>2. \A k \in DOMAIN l.entries : l.entries[k] \in PlainEntry
    BY <2>1
  <2> QED
    BY <2>2 DEF PlainEntry
<1>2. \A k \in DOMAIN l.entries :
        l.entries[k].kind.type \notin {"EnterJoint", "LeaveJoint"}
  BY <1>1 DEF PlainKind
<1> QED
  BY Zenon, <1>2 DEF config

\* All entries over all configurations are a universe the proofs can work in.
LEMMA AnyUniverse ==
  ASSUME Counting
  PROVE  Universe(Entry, Config(Server))
<1>1. \A t \in Nat : [term |-> t, kind |-> Noop] \in Entry
  BY DEF Entry, PlainKind, Noop
<1>2. \A t \in Nat : [term |-> t, kind |-> LeaveJoint] \in Entry
  BY DEF Entry, ConfigKind, LeaveJoint
<1> QED
  BY Zenon, <1>1, <1>2, ConfigType DEF Universe, Entry

\* So are the entries that change no configuration, over a simple one.
LEMMA PlainUniverse ==
  ASSUME Counting, NEW cfg \in Config(Server), ~is_joint(cfg)
  PROVE  Universe(PlainEntry, {cfg})
<1>1. \A t \in Nat : [term |-> t, kind |-> Noop] \in PlainEntry
  BY DEF PlainEntry, PlainKind, Noop
<1>2. ASSUME NEW l \in LogOf(PlainEntry, {cfg})
      PROVE  config(l) \in {cfg}
  BY PlainConfig DEF LogOf
<1> QED
  BY Zenon, <1>1, <1>2 DEF Universe, PlainEntry

-----------------------------------------------------------------------------
(* The operators of the state machine *)

\* Two calm steps are one.
LEMMA CalmTransitive ==
  ASSUME NEW E, NEW C, NEW r \in NodeOf(E, C), NEW r1 \in NodeOf(E, C),
         NEW r2 \in NodeOf(E, C), Calm(r, r1), Calm(r1, r2)
  PROVE  Calm(r, r2)
<1>1. NoBallots(r, r2)
  BY DEF Calm, NoBallots
<1>2. r.term \in Nat /\ r1.term \in Nat /\ r2.term \in Nat
  BY DEF NodeOf
<1> QED
  BY <1>1, <1>2 DEF Calm

\* Doing nothing is calm.
LEMMA CalmReflexive ==
  ASSUME NEW r PROVE Calm(r, r)
  BY DEF Calm, NoBallots

-----------------------------------------------------------------------------
(* Messages *)

\* A message built from typed parts is a message.
LEMMA MessageType ==
  ASSUME NEW E, NEW C, NEW from \in Server, NEW to \in Server, NEW term \in Nat,
         NEW body \in BodyOf(E, C)
  PROVE  Message(from, to, term, body) \in MsgOf(E, C)
  BY DEF Message, MsgOf

\* Queueing messages that are no ballots is calm.
LEMMA PostCalm ==
  ASSUME NEW E, NEW C, NEW r \in NodeOf(E, C), NEW more \in SUBSET MsgOf(E, C),
         \A m \in more : m.body.type \notin {"VoteReq", "VoteResp"}
  PROVE  LET r1 == [r EXCEPT !.messages = @ \cup more] IN
           r1 \in NodeOf(E, C) /\ Calm(r, r1)
<1> DEFINE r1 == [r EXCEPT !.messages = @ \cup more]
<1>1. r1 \in NodeOf(E, C)
  BY DEF NodeOf
<1>2. Calm(r, r1)
  BY DEF Calm, NoBallots, NodeOf
<1> QED
  BY <1>1, <1>2

\* send_all is calm when the body is no ballot.
LEMMA SendAllCalm ==
  ASSUME NEW E, NEW C, NEW r \in NodeOf(E, C), NEW ps \in SUBSET Server,
         NEW body \in BodyOf(E, C), body.type \notin {"VoteReq", "VoteResp"}
  PROVE  send_all(r, ps, body) \in NodeOf(E, C) /\ Calm(r, send_all(r, ps, body))
<1> DEFINE more == {Message(r.id, p, r.term, body) : p \in ps}
<1>1. r.id \in Server /\ r.term \in Nat
  BY DEF NodeOf
<1>2. more \in SUBSET MsgOf(E, C)
  BY <1>1, MessageType
<1>3. \A m \in more : m.body = body
  BY DEF Message
<1> HIDE DEF more
<1>4. send_all(r, ps, body) = [r EXCEPT !.messages = @ \cup more]
  BY DEF send_all, more
<1> QED
  BY <1>2, <1>3, <1>4, PostCalm

\* send is calm when the body is no ballot.
LEMMA SendCalm ==
  ASSUME NEW E, NEW C, NEW r \in NodeOf(E, C), NEW to \in Server,
         NEW body \in BodyOf(E, C), body.type \notin {"VoteReq", "VoteResp"}
  PROVE  send(r, to, body) \in NodeOf(E, C) /\ Calm(r, send(r, to, body))
<1>1. send(r, to, body) = send_all(r, {to}, body)
  BY DEF send, send_all
<1> QED
  BY <1>1, SendAllCalm

\* The answers the handlers build are message bodies.
LEMMA ResponseTypes ==
  ASSUME NEW E, NEW C
  PROVE  /\ \A g \in BOOLEAN : /\ VoteResp(g) \in BodyOf(E, C)
                               /\ PreVoteResp(g) \in BodyOf(E, C)
         /\ \A s \in BOOLEAN, m, i, t \in Nat : AppendResp(s, m, i, t) \in BodyOf(E, C)
         /\ \A s \in BOOLEAN, i \in Nat : SnapshotResp(s, i) \in BodyOf(E, C)
         /\ \A x \in Nat : [type |-> "HeartbeatResp", ctx |-> x] \in BodyOf(E, C)
         /\ [type |-> "TimeoutNow"] \in BodyOf(E, C)
         /\ \A snap \in SnapshotOf(E, C) :
              [type |-> "SnapshotReq", snapshot |-> snap] \in BodyOf(E, C)
<1>1. \A g \in BOOLEAN : VoteResp(g) \in BodyOf(E, C) /\ PreVoteResp(g) \in BodyOf(E, C)
  BY DEF BodyOf, VoteResp, PreVoteResp
<1>2. \A s \in BOOLEAN, m, i, t \in Nat : AppendResp(s, m, i, t) \in BodyOf(E, C)
  BY DEF BodyOf, AppendResp
<1>3. \A s \in BOOLEAN, i \in Nat : SnapshotResp(s, i) \in BodyOf(E, C)
  BY DEF BodyOf, SnapshotResp
<1>4. /\ \A x \in Nat : [type |-> "HeartbeatResp", ctx |-> x] \in BodyOf(E, C)
      /\ [type |-> "TimeoutNow"] \in BodyOf(E, C)
  BY DEF BodyOf
<1>5. \A snap \in SnapshotOf(E, C) :
        [type |-> "SnapshotReq", snapshot |-> snap] \in BodyOf(E, C)
  BY DEF BodyOf
<1> QED
  BY <1>1, <1>2, <1>3, <1>4, <1>5

-----------------------------------------------------------------------------
(* Leader machinery *)

\* The configuration in force is one of the universe's, over known servers.
LEMMA ConfigInUniverse ==
  ASSUME NEW E, NEW C, Universe(E, C), NEW r \in NodeOf(E, C)
  PROVE  /\ r.log \in LogOf(E, C) /\ config(r.log) \in C
         /\ config(r.log) \in Config(Server)
         /\ all_nodes(config(r.log)) \in SUBSET Server
         /\ peers(r) \in SUBSET Server
<1>1. r.log \in LogOf(E, C)
  BY DEF NodeOf
<1>2. config(r.log) \in C /\ config(r.log) \in Config(Server)
  BY <1>1 DEF Universe
<1> QED
  BY <1>1, <1>2 DEF Config, all_nodes, peers

\* mark_dirty is calm.
LEMMA MarkDirtyCalm ==
  ASSUME NEW E, NEW C, NEW r \in NodeOf(E, C), NEW index \in Nat
  PROVE  mark_dirty(r, index) \in NodeOf(E, C) /\ Calm(r, mark_dirty(r, index))
  BY DEF mark_dirty, NodeOf, Calm, NoBallots

\* Replacing the log is calm.
LEMMA LogReplacedCalm ==
  ASSUME NEW E, NEW C, NEW r \in NodeOf(E, C), NEW l \in LogOf(E, C)
  PROVE  LET r1 == [r EXCEPT !.log = l] IN r1 \in NodeOf(E, C) /\ Calm(r, r1)
  BY DEF NodeOf, Calm, NoBallots

\* Replacing the progress table is calm.
LEMMA ProgressReplacedCalm ==
  ASSUME NEW E, NEW C, NEW r \in NodeOf(E, C),
         NEW f \in [Server -> Slot \cup {None}]
  PROVE  LET r1 == [r EXCEPT !.progress = f] IN r1 \in NodeOf(E, C) /\ Calm(r, r1)
  BY DEF NodeOf, Calm, NoBallots

\* append_to_own_log is calm.
LEMMA AppendToOwnLogCalm ==
  ASSUME NEW E, NEW C, NEW r \in NodeOf(E, C), NEW kind,
         [term |-> r.term, kind |-> kind] \in E
  PROVE  /\ append_to_own_log(r, kind) \in NodeOf(E, C)
         /\ Calm(r, append_to_own_log(r, kind))
<1> DEFINE d == mark_dirty(r, last_index(r.log) + 1)
           e == [term |-> r.term, kind |-> kind]
           l == append(d.log, <<e>>)
<1>1. last_index(r.log) + 1 \in Nat
  BY LogIndices DEF NodeOf
<1>2. d \in NodeOf(E, C) /\ Calm(r, d)
  BY <1>1, MarkDirtyCalm
<1>3. d.log \in LogOf(E, C)
  BY <1>2 DEF NodeOf
<1>4. l \in LogOf(E, C)
  <2>1. <<e>> \in Seq(E)
    OBVIOUS
  <2> QED
    BY Zenon, <1>3, <2>1, AppendType
<1>5. append_to_own_log(r, kind) = [d EXCEPT !.log = l]
  BY DEF append_to_own_log
<1> HIDE DEF d, l
<1> QED
  BY <1>2, <1>4, <1>5, LogReplacedCalm, CalmTransitive

\* A tracked peer has a progress slot.
LEMMA SlotFacts ==
  ASSUME NEW E, NEW C, NEW r \in NodeOf(E, C)
  PROVE  /\ r.progress \in [Server -> Slot \cup {None}]
         /\ tracked(r) \in SUBSET Server
         /\ \A p \in tracked(r) : r.progress[p] \in Slot
  BY DEF NodeOf, tracked

\* The AppendReq built for a peer is a message body.
LEMMA AppendReqType ==
  ASSUME NEW E, NEW C, Universe(E, C), NEW r \in NodeOf(E, C), NEW p \in tracked(r),
         p \notin NeedsSnapshot(r, {p})
  PROVE  AppendReq(r, p) \in BodyOf(E, C)
<1> DEFINE next == r.progress[p].next
<1>1. next \in Nat \ {0} /\ next - 1 \in Nat
  BY SlotFacts DEF Slot
<1>2. r.log \in LogOf(E, C) /\ r.commit \in Nat
  BY DEF NodeOf
<1>3. term_at(r.log, next - 1) \in Nat
  BY <1>1, <1>2, TermAtType DEF Universe, NeedsSnapshot
<1>4. slice(r.log, next, next + MaxEntriesPerAppend) \in Seq(E)
  BY <1>1, <1>2, SliceType, OptionsAssumption
<1> QED
  BY <1>1, <1>2, <1>3, <1>4 DEF AppendReq, BodyOf

\* send_append_to is calm.
LEMMA SendAppendToCalm ==
  ASSUME NEW E, NEW C, Universe(E, C), NEW r \in NodeOf(E, C),
         NEW ps \in SUBSET Server
  PROVE  /\ send_append_to(r, ps) \in NodeOf(E, C)
         /\ Calm(r, send_append_to(r, ps))
<1> DEFINE targets == Reachable(r, ps)
           needy == NeedsSnapshot(r, targets)
           f == [p \in Server |->
                   IF p \in needy THEN [r.progress[p] EXCEPT !.state = "Snapshot"]
                   ELSE r.progress[p]]
           more == {Message(r.id, p, r.term, AppendReq(r, p)) : p \in targets \ needy}
           r1 == [r EXCEPT !.progress = f]
<1>1. targets \subseteq tracked(r) /\ needy \subseteq tracked(r)
  BY DEF Reachable, NeedsSnapshot
<1>2. f \in [Server -> Slot \cup {None}]
  <2>1. ASSUME NEW p \in needy PROVE [r.progress[p] EXCEPT !.state = "Snapshot"] \in Slot
    BY <1>1, SlotFacts DEF Slot
  <2> HIDE DEF needy
  <2> QED
    BY <2>1, SlotFacts
<1>3. more \in SUBSET MsgOf(E, C)
  <2>1. ASSUME NEW p \in targets \ needy PROVE AppendReq(r, p) \in BodyOf(E, C)
    <3>1. p \notin NeedsSnapshot(r, {p})
      BY <2>1 DEF NeedsSnapshot
    <3> QED
      BY <3>1, <1>1, AppendReqType
  <2>2. r.id \in Server /\ r.term \in Nat
    BY DEF NodeOf
  <2>3. ASSUME NEW p \in targets \ needy
        PROVE  Message(r.id, p, r.term, AppendReq(r, p)) \in MsgOf(E, C)
    <3>1. p \in Server
      BY <1>1 DEF tracked
    <3> QED
      BY <2>1, <2>2, <3>1, MessageType
  <2> QED
    BY <2>3
<1>4. \A m \in more : m.body.type \notin {"VoteReq", "VoteResp"}
  BY DEF Message, AppendReq
<1>5. r1 \in NodeOf(E, C) /\ Calm(r, r1)
  BY Zenon, <1>2, ProgressReplacedCalm
<1>6. send_append_to(r, ps) = [r1 EXCEPT !.messages = @ \cup more]
  BY DEF send_append_to, NodeOf
<1> HIDE DEF r1, more
<1>7. send_append_to(r, ps) \in NodeOf(E, C) /\ Calm(r1, send_append_to(r, ps))
  BY <1>3, <1>4, <1>5, <1>6, PostCalm
<1> QED
  BY <1>5, <1>7, CalmTransitive

\* broadcast_append is calm.
LEMMA BroadcastAppendCalm ==
  ASSUME NEW E, NEW C, Universe(E, C), NEW r \in NodeOf(E, C)
  PROVE  broadcast_append(r) \in NodeOf(E, C) /\ Calm(r, broadcast_append(r))
  BY ConfigInUniverse, SendAppendToCalm DEF broadcast_append

\* reset_progress_for_config is calm.
LEMMA ResetProgressCalm ==
  ASSUME NEW E, NEW C, Universe(E, C), NEW r \in NodeOf(E, C)
  PROVE  /\ reset_progress_for_config(r) \in NodeOf(E, C)
         /\ Calm(r, reset_progress_for_config(r))
<1> DEFINE mine(p) == [p EXCEPT !.matched = r.persisted, !.next = r.persisted + 1,
                                !.state = "Replicate", !.active = TRUE]
           slot(s) == IF r.progress[s] # None THEN r.progress[s]
                      ELSE Progress(last_index(r.log) + 1)
           f == [s \in Server |->
                  CASE s \notin all_nodes(config(r.log)) -> None
                    [] s \in all_nodes(config(r.log)) /\ s = r.id -> mine(slot(s))
                    [] OTHER -> slot(s)]
<1>1. \A s \in Server : slot(s) \in Slot
  <2>1. last_index(r.log) + 1 \in Nat \ {0}
    BY LogIndices DEF NodeOf
  <2>2. Progress(last_index(r.log) + 1) \in Slot
    BY <2>1 DEF Progress, Slot
  <2> QED
    BY <2>2, SlotFacts
<1>2. \A s \in Server : mine(slot(s)) \in Slot
  <2>1. r.persisted \in Nat /\ r.persisted + 1 \in Nat \ {0}
    BY DEF NodeOf
  <2>2. ASSUME NEW p \in Slot PROVE mine(p) \in Slot
    BY Zenon, <2>1 DEF Slot
  <2> QED
    BY <1>1, <2>2, Zenon
<1> HIDE DEF mine, slot
<1>3. f \in [Server -> Slot \cup {None}]
  BY <1>1, <1>2
<1>4. reset_progress_for_config(r) = [r EXCEPT !.progress = f]
  BY DEF reset_progress_for_config, mine, slot
<1> HIDE DEF f
<1> QED
  BY <1>3, <1>4, ProgressReplacedCalm

\* quorum_index returns an index.
LEMMA QuorumIndexType ==
  ASSUME Counting, NEW cfg \in Config(Server), NEW matched,
         \A id \in Server : matched[id] \in Nat
  PROVE  quorum_index(cfg, matched) \in Nat
  BY Zenon DEF Counting

\* maybe_advance_commit is calm.
LEMMA AdvanceCommitCalm ==
  ASSUME NEW E, NEW C, Universe(E, C), NEW r \in NodeOf(E, C)
  PROVE  /\ maybe_advance_commit(r) \in NodeOf(E, C)
         /\ Calm(r, maybe_advance_commit(r))
<1> DEFINE matched == [s \in Server |->
                         CASE s = r.id -> r.persisted
                           [] s # r.id /\ s \in tracked(r) -> r.progress[s].matched
                           [] OTHER -> 0]
           candidate == quorum_index(config(r.log), matched)
           r1 == [r EXCEPT !.commit = candidate, !.committed_own_term = TRUE,
                           !.hard_state_dirty = TRUE]
<1>1. \A s \in Server : matched[s] \in Nat
  BY SlotFacts DEF Slot, NodeOf
<1> HIDE DEF matched
<1>2. candidate \in Nat
  BY <1>1, ConfigInUniverse, QuorumIndexType DEF Universe
<1> HIDE DEF candidate
<1>3. r1 \in NodeOf(E, C) /\ Calm(r, r1)
  BY Zenon, <1>2 DEF NodeOf, Calm, NoBallots
<1>4. maybe_advance_commit(r) \in {r, r1}
  BY DEF maybe_advance_commit, candidate, matched
<1> HIDE DEF r1
<1> QED
  BY <1>3, <1>4, CalmReflexive

-----------------------------------------------------------------------------
(* Role transitions *)

\* become_follower is calm.
LEMMA BecomeFollowerCalm ==
  ASSUME NEW E, NEW C, NEW r \in NodeOf(E, C), NEW term \in Nat,
         NEW leader \in Vote
  PROVE  /\ become_follower(r, term, leader) \in NodeOf(E, C)
         /\ Calm(r, become_follower(r, term, leader))
<1> DEFINE r1 == become_follower(r, term, leader)
<1>1. r.term \in Nat /\ NoProgress \in [Server -> Slot \cup {None}] /\ None \in Vote
  BY DEF NodeOf, NoProgress, Vote
<1>2. r1 \in NodeOf(E, C)
  <2> DEFINE t1 == IF term > r.term THEN term ELSE r.term
             v1 == IF term > r.term THEN None ELSE r.vote
             d1 == r.hard_state_dirty \/ term > r.term
  <2>1. t1 \in Nat /\ v1 \in Vote
    BY <1>1 DEF NodeOf
  <2>2. d1 \in BOOLEAN
    OBVIOUS
  <2>3. r1 = [r EXCEPT !.term = t1, !.vote = v1, !.hard_state_dirty = d1,
                !.role = "Follower", !.leader = leader,
                !.granted = {}, !.refused = {}, !.progress = NoProgress,
                !.pending_reads = {}, !.committed_own_term = FALSE]
    BY DEF become_follower, NodeOf
  <2> HIDE DEF r1, t1, v1, d1
  <2> QED
    BY ZenonT(60), <1>1, <2>1, <2>2, <2>3 DEF NodeOf
<1>3. Calm(r, r1)
  BY Zenon, <1>1 DEF become_follower, NodeOf, Calm, NoBallots, Electing
<1> QED
  BY <1>2, <1>3

\* step_down is calm.
LEMMA StepDownCalm ==
  ASSUME NEW E, NEW C, NEW r \in NodeOf(E, C)
  PROVE  step_down(r) \in NodeOf(E, C) /\ Calm(r, step_down(r))
<1>1. r.term \in Nat /\ None \in Vote
  BY DEF NodeOf, Vote
<1> QED
  BY <1>1, BecomeFollowerCalm, CalmReflexive DEF step_down

\* Winning: r1 leads in r's term, on r's votes, with ballots added by neither.
Wins(r, r1) ==
  /\ r1.id = r.id /\ r1.persisted_hs = r.persisted_hs
  /\ r.hard_state_dirty => r1.hard_state_dirty
  /\ NoBallots(r, r1)
  /\ r1.term = r.term /\ r1.vote = r.vote
  /\ r1.role = "Leader" /\ r1.granted = r.granted

\* become_leader makes the node leader in its own term and casts no vote.
LEMMA BecomeLeaderWins ==
  ASSUME NEW E, NEW C, Universe(E, C), NEW r \in NodeOf(E, C)
  PROVE  become_leader(r) \in NodeOf(E, C) /\ Wins(r, become_leader(r))
<1> DEFINE led == [r EXCEPT !.role = "Leader", !.leader = r.id,
                            !.committed_own_term = FALSE, !.pending_reads = {}]
           rp == reset_progress_for_config(led)
           al == append_to_own_log(rp, Noop)
<1>1. led \in NodeOf(E, C) /\ Wins(r, led)
  BY ZenonT(60) DEF NodeOf, Wins, NoBallots, Vote
<1> HIDE DEF led
<1>2. rp \in NodeOf(E, C) /\ Calm(led, rp) /\ rp.role = led.role /\ rp.term = led.term
      /\ rp.granted = led.granted
  <2>1. rp \in NodeOf(E, C) /\ Calm(led, rp)
    BY <1>1, ResetProgressCalm
  <2> QED
    BY Zenon, <2>1, <1>1 DEF reset_progress_for_config, NodeOf
<1> HIDE DEF rp
<1>3. al \in NodeOf(E, C) /\ Calm(rp, al) /\ al.role = rp.role /\ al.granted = rp.granted
      /\ al.term = rp.term
  <2>1. rp.term \in Nat
    BY <1>2 DEF NodeOf
  <2>2. [term |-> rp.term, kind |-> Noop] \in E
    BY <2>1 DEF Universe
  <2>3. al \in NodeOf(E, C) /\ Calm(rp, al)
    BY SMTT(60), <1>2, <2>2, AppendToOwnLogCalm
  <2> QED
    BY <2>3, <1>2 DEF append_to_own_log, mark_dirty, NodeOf
<1> HIDE DEF al
<1> DEFINE b == broadcast_append(al)
<1>4. b \in NodeOf(E, C) /\ Calm(al, b) /\ b.role = al.role /\ b.granted = al.granted
      /\ b.term = al.term
  <2>1. b \in NodeOf(E, C) /\ Calm(al, b)
    BY <1>3, BroadcastAppendCalm
  <2> QED
    BY Zenon, <2>1, <1>3 DEF broadcast_append, send_append_to, NodeOf
<1>5. become_leader(r) = b
  BY DEF become_leader, b, al, rp, led
<1> HIDE DEF b
<1>6. Calm(led, b)
  BY <1>1, <1>2, <1>3, <1>4, CalmTransitive
<1>7. b.role = "Leader" /\ b.granted = r.granted /\ b.term = led.term
  BY <1>1, <1>2, <1>3, <1>4 DEF Wins
<1>8. Wins(r, b)
  <2>1. led.term \in Nat
    BY <1>1 DEF NodeOf
  <2>2. b.vote = led.vote
    BY <1>6, <1>7, <2>1 DEF Calm, Electing
  <2> QED
    BY <1>1, <1>6, <1>7, <2>2 DEF Wins, Calm, NoBallots
<1> QED
  BY <1>4, <1>5, <1>8

\* A calm step before a campaign is part of it.
LEMMA CalmThenRuns ==
  ASSUME NEW E, NEW C, NEW r \in NodeOf(E, C), NEW r1 \in NodeOf(E, C),
         NEW r2 \in NodeOf(E, C), Calm(r, r1), Runs(C, r1, r2)
  PROVE  Runs(C, r, r2)
<1>1. r.term \in Nat /\ r1.term \in Nat /\ r2.term \in Nat
  BY DEF NodeOf
<1>2. r1.term >= r.term /\ r1.id = r.id
  BY <1>1 DEF Calm
<1>3. \A m \in r2.messages :
       \/ m \in r.messages
       \/ m.body.type \notin {"VoteReq", "VoteResp"}
       \/ m.body.type = "VoteReq" /\ m.from = r.id /\ m.term = r2.term
  BY <1>2 DEF Calm, Runs, NoBallots
<1>4. /\ r2.id = r.id /\ r2.persisted_hs = r.persisted_hs /\ r2.hard_state_dirty
      /\ r2.term > r.term /\ r2.vote = r.id
      /\ r2.role \in Electing /\ r2.granted = {r.id}
  BY <1>1, <1>2 DEF Calm, Runs
<1>5. r2.role = "Leader" => \E cfg \in C : has_quorum(cfg, {r.id})
  BY Zenon, <1>2 DEF Runs
<1> QED
  BY Zenon, <1>3, <1>4, <1>5 DEF Runs

\* A request for votes is a message body.
LEMMA LastEntryType ==
  ASSUME NEW E, NEW C, Universe(E, C), NEW r \in NodeOf(E, C)
  PROVE  /\ LastEntry(r, "VoteReq") \in BodyOf(E, C)
         /\ LastEntry(r, "PreVoteReq") \in BodyOf(E, C)
<1>1. last_index(r.log) \in Nat /\ last_term(r.log) \in Nat
  BY LogIndices, LastTermType DEF NodeOf, Universe
<1> QED
  BY <1>1 DEF LastEntry, BodyOf

\* campaign stands for a later term with the node's own vote.
LEMMA CampaignRuns ==
  ASSUME NEW E, NEW C, Universe(E, C), NEW r \in NodeOf(E, C)
  PROVE  campaign(r) \in NodeOf(E, C) /\ Runs(C, r, campaign(r))
<1> DEFINE c == [r EXCEPT !.role = "Candidate", !.term = @ + 1, !.vote = r.id,
                          !.leader = None, !.hard_state_dirty = TRUE,
                          !.granted = {r.id}, !.refused = {}]
           more == {Message(c.id, p, c.term, LastEntry(c, "VoteReq")) : p \in peers(c)}
           r1 == [c EXCEPT !.messages = @ \cup more]
<1>1. c \in NodeOf(E, C)
  <2>1. r.term \in Nat /\ r.term + 1 \in Nat /\ r.id \in Server /\ r.id \in Vote
        /\ None \in Vote
    BY DEF NodeOf, Vote
  <2> DEFINE t1 == r.term + 1
  <2>2. c = [r EXCEPT !.role = "Candidate", !.term = t1, !.vote = r.id,
                      !.leader = None, !.hard_state_dirty = TRUE,
                      !.granted = {r.id}, !.refused = {}]
    BY DEF NodeOf
  <2>3. t1 \in Nat
    BY <2>1
  <2> HIDE DEF t1, c
  <2> QED
    BY Zenon, <2>1, <2>2, <2>3 DEF NodeOf
<1>2. /\ c.id = r.id /\ c.persisted_hs = r.persisted_hs /\ c.hard_state_dirty
      /\ c.term > r.term /\ c.vote = r.id /\ c.role = "Candidate"
      /\ c.granted = {r.id} /\ c.messages = r.messages
      /\ c.term \in Nat /\ r.term \in Nat /\ c.id \in Server
  BY DEF NodeOf
<1>3. campaign(r) = IF tally(c) THEN become_leader(c) ELSE r1
  BY DEF campaign, send_all
<1> HIDE DEF c
<1>4. CASE tally(c)
  <2>1. become_leader(c) \in NodeOf(E, C) /\ Wins(c, become_leader(c))
    BY <1>1, BecomeLeaderWins
  <2>2. config(c.log) \in C /\ has_quorum(config(c.log), {r.id})
    BY <1>1, <1>2, <1>4, ConfigInUniverse DEF tally
  <2>3. campaign(r) = become_leader(c)
    BY <1>3, <1>4
  <2> QED
    BY <2>1, <2>2, <2>3, <1>2 DEF Runs, Wins, NoBallots, Electing
<1>5. CASE ~tally(c)
  <2>1. more \in SUBSET MsgOf(E, C)
    BY <1>1, <1>2, ConfigInUniverse, LastEntryType, MessageType
  <2>2. \A m \in more : m.body.type = "VoteReq" /\ m.from = r.id /\ m.term = c.term
    BY <1>2 DEF Message, LastEntry
  <2> HIDE DEF more
  <2>3. r1 \in NodeOf(E, C)
    BY <1>1, <2>1 DEF NodeOf
  <2>4. Runs(C, r, r1)
    BY <1>1, <1>2, <2>2 DEF Runs, NodeOf, Electing
  <2> QED
    BY <1>3, <1>5, <2>3, <2>4
<1> QED
  BY <1>4, <1>5

\* pre_campaign is calm, or a campaign when the node alone is a quorum.
LEMMA PreCampaignEffect ==
  ASSUME NEW E, NEW C, Universe(E, C), NEW r \in NodeOf(E, C)
  PROVE  /\ pre_campaign(r) \in NodeOf(E, C)
         /\ Calm(r, pre_campaign(r)) \/ Runs(C, r, pre_campaign(r))
<1> DEFINE c == [r EXCEPT !.role = "PreCandidate", !.granted = {r.id}, !.refused = {}]
           more == {Message(r.id, p, r.term + 1, LastEntry(c, "PreVoteReq")) :
                     p \in peers(c)}
           r1 == [c EXCEPT !.messages = @ \cup more]
<1>1. c \in NodeOf(E, C) /\ Calm(r, c)
  BY Zenon DEF NodeOf, Calm, NoBallots, Electing
<1>2. pre_campaign(r) = IF tally(c) THEN campaign(c) ELSE r1
  BY DEF pre_campaign
<1> HIDE DEF c
<1>3. CASE tally(c)
  BY <1>1, <1>2, <1>3, CampaignRuns, CalmThenRuns
<1>4. CASE ~tally(c)
  <2>1. r.id \in Server /\ r.term + 1 \in Nat
    BY DEF NodeOf
  <2>2. more \in SUBSET MsgOf(E, C)
    BY <1>1, <2>1, ConfigInUniverse, LastEntryType, MessageType
  <2>3. \A m \in more : m.body.type \notin {"VoteReq", "VoteResp"}
    BY DEF Message, LastEntry
  <2> HIDE DEF more
  <2>4. r1 \in NodeOf(E, C) /\ Calm(c, r1)
    BY <1>1, <2>2, <2>3, PostCalm
  <2> HIDE DEF r1
  <2> QED
    BY <1>1, <1>2, <1>4, <2>4, CalmTransitive
<1> QED
  BY <1>3, <1>4

\* start_election is calm or a campaign.
LEMMA StartElectionEffect ==
  ASSUME NEW E, NEW C, Universe(E, C), NEW r \in NodeOf(E, C)
  PROVE  /\ start_election(r) \in NodeOf(E, C)
         /\ Calm(r, start_election(r)) \/ Runs(C, r, start_election(r))
  BY CampaignRuns, PreCampaignEffect DEF start_election

-----------------------------------------------------------------------------
(* Ticks *)

\* The updates of a progress slot keep its type.
LEMMA SlotUpdates ==
  ASSUME NEW p \in Slot, NEW k \in Nat
  PROVE  /\ [p EXCEPT !.active = FALSE] \in Slot
         /\ [p EXCEPT !.active = TRUE] \in Slot
         /\ [p EXCEPT !.pending_snapshot = FALSE, !.state = "Probe"] \in Slot
         /\ [p EXCEPT !.pending_snapshot = TRUE, !.state = "Snapshot"] \in Slot
         /\ [p EXCEPT !.matched = k, !.next = k + 1, !.state = "Replicate",
                      !.pending_snapshot = FALSE, !.active = TRUE] \in Slot
         /\ [p EXCEPT !.next = k + 1, !.state = "Probe", !.active = TRUE] \in Slot
         /\ [p EXCEPT !.matched = k, !.next = k + 1] \in Slot
         /\ [p EXCEPT !.active = TRUE, !.pending_snapshot = FALSE,
                      !.state = "Probe"] \in Slot
<1>1. k + 1 \in Nat \ {0}
  OBVIOUS
<1>2. /\ [p EXCEPT !.active = FALSE] \in Slot
      /\ [p EXCEPT !.active = TRUE] \in Slot
  BY Zenon DEF Slot
<1>3. /\ [p EXCEPT !.pending_snapshot = FALSE, !.state = "Probe"] \in Slot
      /\ [p EXCEPT !.pending_snapshot = TRUE, !.state = "Snapshot"] \in Slot
  BY Zenon DEF Slot
<1>4. [p EXCEPT !.matched = k, !.next = k + 1, !.state = "Replicate",
                !.pending_snapshot = FALSE, !.active = TRUE] \in Slot
  BY Zenon, <1>1 DEF Slot
<1>5. [p EXCEPT !.next = k + 1, !.state = "Probe", !.active = TRUE] \in Slot
  BY Zenon, <1>1 DEF Slot
<1>6. [p EXCEPT !.matched = k, !.next = k + 1] \in Slot
  BY Zenon, <1>1 DEF Slot
<1>7. [p EXCEPT !.active = TRUE, !.pending_snapshot = FALSE, !.state = "Probe"] \in Slot
  BY Zenon DEF Slot
<1> QED
  BY <1>2, <1>3, <1>4, <1>5, <1>6, <1>7

\* check_quorum is calm.
LEMMA CheckQuorumCalm ==
  ASSUME NEW E, NEW C, NEW r \in NodeOf(E, C)
  PROVE  check_quorum(r) \in NodeOf(E, C) /\ Calm(r, check_quorum(r))
<1> DEFINE f == [s \in Server |->
                   IF s \in tracked(r) THEN [r.progress[s] EXCEPT !.active = FALSE]
                   ELSE None]
           quiet == [r EXCEPT !.progress = f]
           gone == become_follower(quiet, r.term, None)
<1>1. f \in [Server -> Slot \cup {None}]
  <2>1. ASSUME NEW s \in tracked(r)
        PROVE  [r.progress[s] EXCEPT !.active = FALSE] \in Slot
    BY Zenon, SlotFacts, SlotUpdates
  <2> QED
    BY SMTT(60), <2>1
<1>2. quiet \in NodeOf(E, C) /\ Calm(r, quiet)
  BY ZenonT(60), <1>1, ProgressReplacedCalm
<1>3. check_quorum(r) \in {quiet, gone}
  BY DEF check_quorum
<1> HIDE DEF quiet
<1>4. r.term \in Nat /\ None \in Vote
  BY DEF NodeOf, Vote
<1>5. gone \in NodeOf(E, C) /\ Calm(r, gone)
  BY <1>2, <1>4, BecomeFollowerCalm, CalmTransitive
<1> QED
  BY <1>2, <1>3, <1>5

\* expire_pending_snapshots is calm.
LEMMA ExpireCalm ==
  ASSUME NEW E, NEW C, Universe(E, C), NEW r \in NodeOf(E, C), NEW expired
  PROVE  /\ expire_pending_snapshots(r, expired) \in NodeOf(E, C)
         /\ Calm(r, expire_pending_snapshots(r, expired))
<1> DEFINE due == expired \cap InFlight(r)
           f == [s \in Server |->
                   IF s \in due
                   THEN [r.progress[s] EXCEPT !.pending_snapshot = FALSE,
                                              !.state = "Probe"]
                   ELSE r.progress[s]]
           probing == [r EXCEPT !.progress = f]
<1>1. due \subseteq tracked(r) /\ due \in SUBSET Server
  BY SlotFacts DEF InFlight
<1>2. f \in [Server -> Slot \cup {None}]
  <2>1. ASSUME NEW s \in due
        PROVE  [r.progress[s] EXCEPT !.pending_snapshot = FALSE,
                                     !.state = "Probe"] \in Slot
    BY ZenonT(60), <1>1, SlotFacts, SlotUpdates
  <2> HIDE DEF due
  <2> QED
    BY Zenon, <2>1, SlotFacts
<1>3. probing \in NodeOf(E, C) /\ Calm(r, probing)
  BY Zenon, <1>2, ProgressReplacedCalm
<1>4. expire_pending_snapshots(r, expired) = send_append_to(probing, due)
  BY DEF expire_pending_snapshots
<1> HIDE DEF probing, due
<1> QED
  BY <1>1, <1>3, <1>4, SendAppendToCalm, CalmTransitive

\* leader_tick is calm.
LEMMA LeaderTickCalm ==
  ASSUME NEW E, NEW C, Universe(E, C), NEW r \in NodeOf(E, C),
         NEW beat \in BOOLEAN, NEW check \in BOOLEAN, NEW expired
  PROVE  /\ leader_tick(r, beat, check, expired) \in NodeOf(E, C)
         /\ Calm(r, leader_tick(r, beat, check, expired))
<1> DEFINE b == IF beat THEN broadcast_append(r) ELSE r
           c == IF check THEN check_quorum(b) ELSE b
<1>1. b \in NodeOf(E, C) /\ Calm(r, b)
  BY BroadcastAppendCalm, CalmReflexive
<1> HIDE DEF b
<1>2. c \in NodeOf(E, C) /\ Calm(b, c)
  BY <1>1, CheckQuorumCalm, CalmReflexive
<1>3. leader_tick(r, beat, check, expired) = expire_pending_snapshots(c, expired)
  BY DEF leader_tick, c, b
<1> HIDE DEF c
<1>4. Calm(r, c)
  BY <1>1, <1>2, CalmTransitive
<1>5. /\ expire_pending_snapshots(c, expired) \in NodeOf(E, C)
      /\ Calm(c, expire_pending_snapshots(c, expired))
  BY <1>2, ExpireCalm
<1> QED
  BY <1>2, <1>3, <1>4, <1>5, CalmTransitive

-----------------------------------------------------------------------------
(* Requests *)

\* propose is calm.
LEMMA ProposeCalm ==
  ASSUME NEW E, NEW C, Universe(E, C), NEW r \in NodeOf(E, C), NEW kind,
         [term |-> r.term, kind |-> kind] \in E
  PROVE  /\ propose(r, kind) \in NodeOf(E, C) /\ Calm(r, propose(r, kind))
         /\ propose_config(r, kind) \in NodeOf(E, C)
         /\ Calm(r, propose_config(r, kind))
<1> DEFINE a == append_to_own_log(r, kind)
           p == reset_progress_for_config(a)
<1>1. a \in NodeOf(E, C) /\ Calm(r, a)
  BY AppendToOwnLogCalm
<1>2. propose(r, kind) = broadcast_append(a)
      /\ propose_config(r, kind) = broadcast_append(p)
  BY DEF propose, propose_config
<1> HIDE DEF a
<1>3. p \in NodeOf(E, C) /\ Calm(a, p)
  BY <1>1, ResetProgressCalm
<1> HIDE DEF p
<1>4. /\ broadcast_append(a) \in NodeOf(E, C) /\ Calm(a, broadcast_append(a))
      /\ broadcast_append(p) \in NodeOf(E, C) /\ Calm(p, broadcast_append(p))
  BY <1>1, <1>3, BroadcastAppendCalm
<1>5. Calm(r, p)
  BY <1>1, <1>3, CalmTransitive
<1> QED
  BY SMTT(30), <1>1, <1>2, <1>3, <1>4, <1>5, CalmTransitive

\* read_index is calm.
LEMMA ReadIndexCalm ==
  ASSUME NEW E, NEW C, Universe(E, C), NEW r \in NodeOf(E, C)
  PROVE  /\ read_index(r) \in NodeOf(E, C) /\ Calm(r, read_index(r))
         /\ read_index(r).read_ctx \in Nat
<1> DEFINE ctx == r.read_ctx + 1
           read == [ctx |-> ctx, index |-> r.commit, acks |-> {r.id}]
           more == {Message(r.id, p, r.term, HeartbeatReq(r, p, ctx)) : p \in peers(r)}
           now == [r EXCEPT !.read_ctx = ctx,
                            !.reads = @ \cup {[ctx |-> ctx, index |-> r.commit]}]
           later == [r EXCEPT !.read_ctx = ctx, !.pending_reads = @ \cup {read}]
           sent == [later EXCEPT !.messages = @ \cup more]
<1>1. ctx \in Nat /\ r.commit \in Nat /\ r.id \in Server /\ r.term \in Nat
  BY DEF NodeOf
<1>2. read_index(r) \in {now, sent}
  BY DEF read_index, NodeOf
<1>3. more \in SUBSET MsgOf(E, C)
  <2>1. ASSUME NEW p \in peers(r) PROVE HeartbeatReq(r, p, ctx) \in BodyOf(E, C)
    <3>1. (IF p \in tracked(r) THEN r.progress[p].matched ELSE 0) \in Nat
      BY SlotFacts DEF Slot
    <3> HIDE DEF ctx
    <3> QED
      BY <1>1, <3>1 DEF HeartbeatReq, BodyOf
  <2>2. peers(r) \in SUBSET Server
    BY ConfigInUniverse
  <2> QED
    BY SMTT(30), <1>1, <2>1, <2>2, MessageType
<1>4. \A m \in more : m.body.type \notin {"VoteReq", "VoteResp"}
  BY DEF Message, HeartbeatReq
<1>5. read \in [ctx : Nat, index : Nat, acks : SUBSET Server]
  BY <1>1
<1> HIDE DEF ctx, read, more
<1>6. now \in NodeOf(E, C) /\ Calm(r, now) /\ now.read_ctx \in Nat
  <2> DEFINE x == [ctx |-> ctx, index |-> r.commit]
  <2>1. x \in [ctx : Nat, index : Nat]
    BY <1>1
  <2> HIDE DEF x
  <2>2. now = [r EXCEPT !.read_ctx = ctx, !.reads = @ \cup {x}]
    BY DEF x
  <2> HIDE DEF now
  <2>3. now \in NodeOf(E, C)
    BY ZenonT(60), <1>1, <2>1, <2>2 DEF NodeOf
  <2>4. Calm(r, now)
    BY <2>2 DEF NodeOf, Calm, NoBallots
  <2> QED
    BY <2>3, <2>4 DEF NodeOf
<1>7. later \in NodeOf(E, C) /\ Calm(r, later) /\ later.read_ctx \in Nat
  BY ZenonT(60), <1>1, <1>5 DEF NodeOf, Calm, NoBallots
<1> HIDE DEF later, now
<1>8. sent \in NodeOf(E, C) /\ Calm(later, sent)
  BY <1>3, <1>4, <1>7, PostCalm
<1>9. sent.read_ctx \in Nat
  BY <1>8 DEF NodeOf
<1> HIDE DEF sent
<1>10. Calm(r, sent)
  BY <1>7, <1>8, CalmTransitive
<1> QED
  BY SMTT(30), <1>2, <1>6, <1>8, <1>9, <1>10

-----------------------------------------------------------------------------
(* The message handlers *)

\* A message and the shape of its body.
LEMMA MessageFields ==
  ASSUME NEW E, NEW C, NEW m \in MsgOf(E, C)
  PROVE  /\ m.from \in Server /\ m.to \in Server /\ m.term \in Nat
         /\ m.body \in BodyOf(E, C)
  BY DEF MsgOf

\* The fields each kind of message body has.
LEMMA BodyFields ==
  ASSUME NEW E, NEW C, NEW b \in BodyOf(E, C)
  PROVE  /\ b.type \in {"VoteReq", "PreVoteReq"} =>
              b.last_index \in Nat /\ b.last_term \in Nat
         /\ b.type \in {"VoteResp", "PreVoteResp"} => b.granted \in BOOLEAN
         /\ b.type = "AppendReq" =>
              /\ b.prev_index \in Nat /\ b.prev_term \in Nat
              /\ b.entries \in Seq(E) /\ b.commit \in Nat
         /\ b.type = "AppendResp" =>
              /\ b.success \in BOOLEAN /\ b.match_index \in Nat
              /\ b.conflict_index \in Nat /\ b.conflict_term \in Nat
         /\ b.type = "SnapshotReq" => b.snapshot \in SnapshotOf(E, C)
         /\ b.type = "SnapshotResp" => b.success \in BOOLEAN /\ b.index \in Nat
         /\ b.type = "HeartbeatReq" => b.commit \in Nat /\ b.ctx \in Nat
         /\ b.type = "HeartbeatResp" => b.ctx \in Nat
  BY DEF BodyOf

\* The term rule at the head of step.
LEMMA ObserveTermCalm ==
  ASSUME NEW E, NEW C, NEW r \in NodeOf(E, C), NEW m \in MsgOf(E, C)
  PROVE  /\ observe_term(r, m) \in NodeOf(E, C) /\ Calm(r, observe_term(r, m))
         /\ ~is_pre_vote(m) /\ m.term >= r.term => observe_term(r, m).term = m.term
<1>1. m.term \in Nat /\ r.term \in Nat /\ m.from \in Vote /\ None \in Vote
  BY MessageFields DEF Vote, NodeOf
<1>2. ASSUME NEW leader \in Vote
      PROVE  /\ become_follower(r, m.term, leader) \in NodeOf(E, C)
             /\ Calm(r, become_follower(r, m.term, leader))
             /\ m.term > r.term => become_follower(r, m.term, leader).term = m.term
  <2>1. m.term > r.term => become_follower(r, m.term, leader).term = m.term
    BY DEF become_follower, NodeOf
  <2> QED
    BY <1>1, <2>1, BecomeFollowerCalm
<1> QED
  BY <1>1, <1>2, CalmReflexive DEF observe_term

\* reject_stale is calm.
LEMMA RejectStaleCalm ==
  ASSUME NEW E, NEW C, NEW r \in NodeOf(E, C), NEW m \in MsgOf(E, C)
  PROVE  reject_stale(r, m) \in NodeOf(E, C) /\ Calm(r, reject_stale(r, m))
<1>1. m.from \in Server
  BY MessageFields
<1>2. /\ AppendResp(FALSE, 0, 0, 0) \in BodyOf(E, C)
      /\ PreVoteResp(FALSE) \in BodyOf(E, C)
  BY Zenon, ResponseTypes
<1>3. /\ AppendResp(FALSE, 0, 0, 0).type \notin {"VoteReq", "VoteResp"}
      /\ PreVoteResp(FALSE).type \notin {"VoteReq", "VoteResp"}
  BY DEF AppendResp, PreVoteResp
<1>4. reject_stale(r, m) \in
        {send(r, m.from, AppendResp(FALSE, 0, 0, 0)),
         send(r, m.from, PreVoteResp(FALSE)), r}
  BY DEF reject_stale
<1> QED
  BY Zenon, <1>1, <1>2, <1>3, <1>4, SendCalm, CalmReflexive

\* handle_pre_vote_req is calm.
LEMMA PreVoteReqCalm ==
  ASSUME NEW E, NEW C, NEW r \in NodeOf(E, C), NEW m \in MsgOf(E, C), NEW recent
  PROVE  /\ handle_pre_vote_req(r, m, recent) \in NodeOf(E, C)
         /\ Calm(r, handle_pre_vote_req(r, m, recent))
<1> DEFINE granted == /\ m.term > r.term
                      /\ is_up_to_date(r.log, m.body.last_term, m.body.last_index)
                      /\ ~(r.leader # None /\ recent)
           more == {Message(r.id, m.from, m.term, PreVoteResp(granted))}
<1>1. granted \in BOOLEAN
  OBVIOUS
<1>2. handle_pre_vote_req(r, m, recent) = [r EXCEPT !.messages = @ \cup more]
  BY DEF handle_pre_vote_req
<1> HIDE DEF granted
<1>3. more \in SUBSET MsgOf(E, C)
  <2>1. PreVoteResp(granted) \in BodyOf(E, C)
    BY <1>1, ResponseTypes
  <2>2. r.id \in Server
    BY DEF NodeOf
  <2> QED
    BY <2>1, <2>2, MessageFields, MessageType
<1>4. \A x \in more : x.body.type \notin {"VoteReq", "VoteResp"}
  BY DEF Message, PreVoteResp
<1> HIDE DEF more
<1> QED
  BY SMTT(30), <1>2, <1>3, <1>4, PostCalm

\* insert_vote adds at most the sender to the votes counted.
LEMMA InsertVoteEffect ==
  ASSUME NEW E, NEW C, NEW r \in NodeOf(E, C), NEW from \in Server,
         NEW yes \in BOOLEAN
  PROVE  LET v == insert_vote(r, from, yes) IN
           /\ v \in NodeOf(E, C)
           /\ r.role \notin Electing => Calm(r, v)
           /\ v.granted \subseteq r.granted \cup (IF yes THEN {from} ELSE {})
           /\ v.id = r.id /\ v.term = r.term /\ v.vote = r.vote
           /\ v.role = r.role /\ v.messages = r.messages
           /\ v.persisted_hs = r.persisted_hs
           /\ v.hard_state_dirty = r.hard_state_dirty /\ v.log = r.log
<1> DEFINE g == IF yes THEN r.granted \cup {from} ELSE r.granted \ {from}
           n == IF yes THEN r.refused \ {from} ELSE r.refused \cup {from}
           v == insert_vote(r, from, yes)
<1>1. g \in SUBSET Server /\ n \in SUBSET Server
  BY DEF NodeOf
<1>2. v = [r EXCEPT !.granted = g, !.refused = n]
  BY DEF insert_vote, NodeOf
<1>3. g \subseteq r.granted \cup (IF yes THEN {from} ELSE {})
  OBVIOUS
<1> HIDE DEF v, g, n
<1>4. v \in NodeOf(E, C)
  BY ZenonT(60), <1>1, <1>2 DEF NodeOf
<1>5. v.granted = g /\ v.id = r.id /\ v.term = r.term /\ v.vote = r.vote
      /\ v.role = r.role /\ v.messages = r.messages
      /\ v.persisted_hs = r.persisted_hs
      /\ v.hard_state_dirty = r.hard_state_dirty /\ v.log = r.log
  BY <1>2 DEF NodeOf
<1>6. r.role \notin Electing => Calm(r, v)
  BY <1>5 DEF Calm, NoBallots
<1> QED
  BY <1>3, <1>4, <1>5, <1>6 DEF v

\* handle_pre_vote_resp is calm or starts the campaign.
LEMMA PreVoteRespEffect ==
  ASSUME NEW E, NEW C, Universe(E, C), NEW r \in NodeOf(E, C),
         NEW m \in MsgOf(E, C), m.body.type = "PreVoteResp"
  PROVE  LET r1 == handle_pre_vote_resp(r, m) IN
           r1 \in NodeOf(E, C) /\ (Calm(r, r1) \/ Runs(C, r, r1))
<1> DEFINE v == insert_vote(r, m.from, m.body.granted)
           gone == become_follower(r, m.term, None)
           lost1 == [v EXCEPT !.role = "Follower"]
           r1 == handle_pre_vote_resp(r, m)
<1>1. /\ m.from \in Server /\ m.term \in Nat /\ m.body.granted \in BOOLEAN
      /\ None \in Vote
  BY MessageFields, BodyFields DEF Vote
<1>2. \/ r1 = r
      \/ r1 = gone
      \/ r.role = "PreCandidate" /\ r1 \in {campaign(v), lost1, v}
  BY DEF handle_pre_vote_resp
<1>3. gone \in NodeOf(E, C) /\ Calm(r, gone)
  BY <1>1, BecomeFollowerCalm
<1>4. CASE r.role = "PreCandidate"
  <2>1. v \in NodeOf(E, C) /\ Calm(r, v)
    BY <1>1, <1>4, InsertVoteEffect DEF Electing
  <2> HIDE DEF v
  <2>2. campaign(v) \in NodeOf(E, C) /\ Runs(C, r, campaign(v))
    BY <2>1, CampaignRuns, CalmThenRuns
  <2>3. lost1 \in NodeOf(E, C) /\ Calm(v, lost1)
    BY <2>1 DEF NodeOf, Calm, NoBallots, Electing
  <2> HIDE DEF lost1
  <2>4. Calm(r, lost1)
    BY <2>1, <2>3, CalmTransitive
  <2> QED
    BY <1>2, <1>3, <2>1, <2>2, <2>3, <2>4, CalmReflexive
<1>5. CASE r.role # "PreCandidate"
  BY <1>2, <1>3, <1>5, CalmReflexive
<1> QED
  BY <1>4, <1>5

\* handle_vote_req votes at most once in its term.
LEMMA VoteReqEffect ==
  ASSUME NEW E, NEW C, NEW r \in NodeOf(E, C), NEW m \in MsgOf(E, C)
  PROVE  /\ handle_vote_req(r, m) \in NodeOf(E, C)
         /\ Votes(r, handle_vote_req(r, m), m)
<1> DEFINE yes == [r EXCEPT !.vote = m.from, !.hard_state_dirty = TRUE]
<1>1. m.from \in Server /\ m.from \in Vote /\ r.id \in Server /\ r.term \in Nat
  BY MessageFields DEF Vote, NodeOf
<1>2. yes \in NodeOf(E, C) /\ yes.id = r.id /\ yes.term = r.term
      /\ yes.persisted_hs = r.persisted_hs /\ yes.hard_state_dirty
      /\ yes.role = r.role /\ yes.granted = r.granted /\ yes.vote = m.from
      /\ yes.messages = r.messages
  BY Zenon, <1>1 DEF NodeOf
<1>3. ASSUME NEW v \in NodeOf(E, C), v.id = r.id, v.term = r.term, NEW g \in BOOLEAN
      PROVE  LET x == Message(r.id, m.from, r.term, VoteResp(g))
                 s == send(v, m.from, VoteResp(g))
             IN  /\ s \in NodeOf(E, C) /\ s.messages = v.messages \cup {x}
                 /\ s.id = v.id /\ s.term = v.term /\ s.vote = v.vote
                 /\ s.persisted_hs = v.persisted_hs
                 /\ s.hard_state_dirty = v.hard_state_dirty
                 /\ s.role = v.role /\ s.granted = v.granted
  <2> DEFINE x == Message(r.id, m.from, r.term, VoteResp(g))
             s == send(v, m.from, VoteResp(g))
  <2>1. x \in MsgOf(E, C)
    BY <1>1, ResponseTypes, MessageType
  <2>2. s = [v EXCEPT !.messages = @ \cup {x}]
    BY <1>3 DEF send
  <2> HIDE DEF x, s
  <2>3. s \in NodeOf(E, C)
    BY SMTT(30), <2>1, <2>2 DEF NodeOf
  <2>4. /\ s.messages = v.messages \cup {x}
        /\ s.id = v.id /\ s.term = v.term /\ s.vote = v.vote
        /\ s.persisted_hs = v.persisted_hs
        /\ s.hard_state_dirty = v.hard_state_dirty
        /\ s.role = v.role /\ s.granted = v.granted
    BY <2>2 DEF NodeOf
  <2> QED
    BY <2>3, <2>4 DEF x, s
<1>4. \/ /\ r.vote \in {None, m.from}
         /\ handle_vote_req(r, m) = send(yes, m.from, VoteResp(TRUE))
      \/ handle_vote_req(r, m) = send(r, m.from, VoteResp(FALSE))
  BY Zenon DEF handle_vote_req
<1> HIDE DEF yes
<1> DEFINE r1 == handle_vote_req(r, m)
<1>5. CASE r1 = send(r, m.from, VoteResp(FALSE))
  <2>1. /\ r1 \in NodeOf(E, C)
        /\ r1.messages = r.messages \cup
                          {Message(r.id, m.from, r.term, VoteResp(FALSE))}
        /\ r1.id = r.id /\ r1.term = r.term /\ r1.vote = r.vote
        /\ r1.persisted_hs = r.persisted_hs
        /\ r1.hard_state_dirty = r.hard_state_dirty
        /\ r1.role = r.role /\ r1.granted = r.granted
    BY ZenonT(60), <1>3, <1>5
  <2> HIDE DEF r1
  <2>2. Votes(r, r1, m)
    BY Zenon, <2>1 DEF Votes
  <2> QED
    BY <2>1, <2>2 DEF r1
<1>6. CASE /\ r.vote \in {None, m.from}
           /\ r1 = send(yes, m.from, VoteResp(TRUE))
  <2>0. yes \in NodeOf(E, C) /\ yes.id = r.id /\ yes.term = r.term
    BY <1>2
  <2>1. /\ r1 \in NodeOf(E, C)
        /\ r1.messages = yes.messages \cup
                          {Message(r.id, m.from, r.term, VoteResp(TRUE))}
        /\ r1.id = yes.id /\ r1.term = yes.term /\ r1.vote = yes.vote
        /\ r1.persisted_hs = yes.persisted_hs
        /\ r1.hard_state_dirty = yes.hard_state_dirty
        /\ r1.role = yes.role /\ r1.granted = yes.granted
    BY ZenonT(60), <1>3, <1>6, <2>0
  <2> HIDE DEF r1
  <2>2. Votes(r, r1, m)
    BY Zenon, <1>2, <1>6, <2>1 DEF Votes
  <2> QED
    BY <2>1, <2>2 DEF r1
<1> QED
  BY Zenon, <1>4, <1>5, <1>6

\* handle_vote_resp is calm or counts the answer.
LEMMA VoteRespEffect ==
  ASSUME NEW E, NEW C, Universe(E, C), NEW r \in NodeOf(E, C),
         NEW m \in MsgOf(E, C), m.body.type = "VoteResp"
  PROVE  LET r1 == handle_vote_resp(r, m) IN
           r1 \in NodeOf(E, C) /\ (Calm(r, r1) \/ Counts(C, r, r1, m))
<1> DEFINE v == insert_vote(r, m.from, m.body.granted)
           gone == become_follower(v, r.term, None)
           led == become_leader(v)
           r1 == handle_vote_resp(r, m)
<1>1. /\ m.from \in Server /\ m.body.granted \in BOOLEAN
      /\ r.term \in Nat /\ None \in Vote
  BY MessageFields, BodyFields DEF Vote, NodeOf
<1>2. \/ r1 = r
      \/ r.role = "Candidate" /\ tally(v) /\ r1 = led
      \/ r.role = "Candidate" /\ r1 \in {gone, v}
  BY DEF handle_vote_resp
<1>3. /\ v \in NodeOf(E, C) /\ v.log = r.log
      /\ v.granted \subseteq r.granted \cup (IF m.body.granted THEN {m.from} ELSE {})
      /\ v.id = r.id /\ v.term = r.term /\ v.vote = r.vote
      /\ v.role = r.role /\ v.messages = r.messages
      /\ v.persisted_hs = r.persisted_hs
      /\ v.hard_state_dirty = r.hard_state_dirty
  BY <1>1, InsertVoteEffect
<1> HIDE DEF v
<1>4. gone \in NodeOf(E, C) /\ Calm(v, gone) /\ gone.role \notin Electing
  <2>1. gone.role = "Follower"
    BY <1>3 DEF become_follower, NodeOf
  <2> QED
    BY <1>1, <1>3, <2>1, BecomeFollowerCalm DEF Electing
<1> HIDE DEF gone
<1>5. Calm(r, gone)
  BY <1>3, <1>4 DEF Calm, NoBallots
<1>6. led \in NodeOf(E, C) /\ Wins(v, led)
  BY <1>3, BecomeLeaderWins
<1> HIDE DEF led
<1>7. CASE r.role = "Candidate" /\ tally(v) /\ r1 = led
  <2>1. config(v.log) \in C /\ has_quorum(config(v.log), v.granted)
    BY <1>3, <1>7, ConfigInUniverse DEF tally
  <2>2. led.granted = v.granted /\ led.role = "Leader"
    BY <1>6 DEF Wins
  <2>3. \E cfg \in C : has_quorum(cfg, led.granted)
    BY <2>1, <2>2
  <2>4. Counts(C, r, led, m)
    BY <1>3, <1>6, <1>7, <2>2, <2>3 DEF Counts, Wins, NoBallots, Electing
  <2> QED
    BY <1>6, <1>7, <2>4
<1>8. CASE r.role = "Candidate" /\ r1 = v
  <2>1. Counts(C, r, v, m)
    BY <1>3, <1>8 DEF Counts, NoBallots, Electing
  <2> QED
    BY <1>3, <1>8, <2>1
<1> QED
  BY <1>2, <1>4, <1>5, <1>7, <1>8, CalmReflexive

-----------------------------------------------------------------------------
(* A follower's side of replication *)

\* follow is calm.
LEMMA FollowCalm ==
  ASSUME NEW E, NEW C, NEW r \in NodeOf(E, C), NEW from \in Server
  PROVE  follow(r, from) \in NodeOf(E, C) /\ Calm(r, follow(r, from))
<1> DEFINE b == IF r.role # "Follower" THEN become_follower(r, r.term, from) ELSE r
           f == [b EXCEPT !.leader = from]
<1>1. r.term \in Nat /\ from \in Vote
  BY DEF NodeOf, Vote
<1>2. b \in NodeOf(E, C) /\ Calm(r, b)
  BY <1>1, BecomeFollowerCalm, CalmReflexive
<1>3. follow(r, from) = f
  BY DEF follow
<1> HIDE DEF b
<1>4. f \in NodeOf(E, C) /\ Calm(b, f)
  BY <1>1, <1>2 DEF NodeOf, Calm, NoBallots
<1> HIDE DEF f
<1> QED
  BY <1>2, <1>3, <1>4, CalmTransitive

\* An update of the log, the commit index and the dirty flag, the latter only
\* ever raised.
LEMMA LogAndCommitCalm ==
  ASSUME NEW E, NEW C, NEW r \in NodeOf(E, C), NEW l \in LogOf(E, C),
         NEW commit \in Nat, NEW d \in BOOLEAN, r.hard_state_dirty => d
  PROVE  LET r1 == [r EXCEPT !.log = l, !.commit = commit, !.hard_state_dirty = d]
         IN  r1 \in NodeOf(E, C) /\ Calm(r, r1)
<1> DEFINE r1 == [r EXCEPT !.log = l, !.commit = commit, !.hard_state_dirty = d]
<1>1. r1 \in NodeOf(E, C)
  BY ZenonT(60) DEF NodeOf
<1>2. Calm(r, r1)
  BY DEF NodeOf, Calm, NoBallots
<1> QED
  BY <1>1, <1>2

\* accept_append is calm.
LEMMA AcceptAppendCalm ==
  ASSUME NEW E, NEW C, Universe(E, C), NEW r \in NodeOf(E, C), NEW m \in MsgOf(E, C),
         m.body.type = "AppendReq"
  PROVE  accept_append(r, m) \in NodeOf(E, C) /\ Calm(r, accept_append(r, m))
<1> DEFINE es == m.body.entries
           merged == merge(r.log, m.body.prev_index, es)
           last_new == m.body.prev_index + Len(es)
           dirtied == IF es = <<>> THEN r ELSE mark_dirty(r, m.body.prev_index + 1)
           known == IF m.body.commit < last_new THEN m.body.commit ELSE last_new
           raised == IF known > r.commit THEN known ELSE r.commit
           commit == IF raised > last_index(merged) THEN last_index(merged)
                     ELSE raised
           d == dirtied.hard_state_dirty \/ commit # r.commit
           r1 == [dirtied EXCEPT !.log = merged, !.commit = commit,
                                 !.hard_state_dirty = d]
           resp == AppendResp(TRUE, last_new, 0, 0)
<1>1. /\ m.from \in Server /\ m.body.prev_index \in Nat /\ es \in Seq(E)
      /\ m.body.commit \in Nat /\ Len(es) \in Nat
  BY MessageFields, BodyFields
<1>2. r.log \in LogOf(E, C) /\ r.commit \in Nat
  BY DEF NodeOf
<1>3. merged \in LogOf(E, C) /\ last_index(merged) \in Nat
  <2>1. merged \in LogOf(E, C)
    BY <1>1, <1>2, MergeType
  <2> HIDE DEF merged
  <2> QED
    BY <2>1, LogIndices
<1>4. dirtied \in NodeOf(E, C) /\ Calm(r, dirtied)
  BY <1>1, MarkDirtyCalm, CalmReflexive
<1>5. d \in BOOLEAN /\ (dirtied.hard_state_dirty => d)
  OBVIOUS
<1>6. accept_append(r, m) = send(r1, m.from, resp)
  BY DEF accept_append
<1> HIDE DEF es, merged, dirtied
<1>7. last_new \in Nat /\ commit \in Nat
  BY SMTT(60), <1>1, <1>2, <1>3
<1> HIDE DEF last_new, commit, d
<1>8. r1 \in NodeOf(E, C) /\ Calm(dirtied, r1)
  BY Zenon, <1>3, <1>4, <1>5, <1>7, LogAndCommitCalm
<1> HIDE DEF r1
<1>9. resp \in BodyOf(E, C) /\ resp.type \notin {"VoteReq", "VoteResp"}
  BY Zenon, <1>7, ResponseTypes DEF AppendResp
<1>10. send(r1, m.from, resp) \in NodeOf(E, C) /\ Calm(r1, send(r1, m.from, resp))
  BY Zenon, <1>1, <1>8, <1>9, SendCalm
<1>11. Calm(r, r1)
  BY <1>4, <1>8, CalmTransitive
<1> QED
  BY Zenon, <1>6, <1>8, <1>10, <1>11, CalmTransitive

\* handle_append is calm.
LEMMA HandleAppendCalm ==
  ASSUME NEW E, NEW C, Universe(E, C), NEW r \in NodeOf(E, C),
         NEW m \in MsgOf(E, C), m.body.type = "AppendReq"
  PROVE  handle_append(r, m) \in NodeOf(E, C) /\ Calm(r, handle_append(r, m))
<1> DEFINE f == follow(r, m.from)
           prev == m.body.prev_index
           t == term_at(f.log, prev)
           r1 == handle_append(r, m)
           old == AppendResp(TRUE, f.log.snapshot_index, 0, 0)
           short == AppendResp(FALSE, 0, last_index(f.log) + 1, 0)
           other == AppendResp(FALSE, 0, find_conflict_by_term(f.log, prev, t), t)
<1>1. m.from \in Server /\ prev \in Nat
  BY MessageFields, BodyFields
<1>2. f \in NodeOf(E, C) /\ Calm(r, f)
  BY <1>1, FollowCalm
<1>3. f.log \in LogOf(E, C)
  BY <1>2 DEF NodeOf
<1>4. /\ f.log.snapshot_index \in Nat /\ last_index(f.log) + 1 \in Nat
  BY <1>3, LogIndices
<1>5. \/ r1 \in {send(f, m.from, old), send(f, m.from, short), accept_append(f, m)}
      \/ t # NoTerm /\ r1 = send(f, m.from, other)
  <2> HIDE DEF f, old, short, other
  <2>1. r1 = CASE prev < f.log.snapshot_index -> send(f, m.from, old)
               [] prev >= f.log.snapshot_index /\ t = m.body.prev_term ->
                    accept_append(f, m)
               [] prev >= f.log.snapshot_index /\ t = NoTerm ->
                    send(f, m.from, short)
               [] OTHER -> send(f, m.from, other)
    BY DEF handle_append, f, old, short, other
  <2> HIDE DEF r1, t, prev
  <2> QED
    BY <1>1, <1>4, <2>1
<1> HIDE DEF f, r1
<1>6. t # NoTerm => t \in Nat /\ find_conflict_by_term(f.log, prev, t) \in Nat
  <2>1. t \in Nat \cup {NoTerm}
    BY <1>1, <1>3, TermAtType DEF Universe
  <2> HIDE DEF t
  <2> QED
    BY Zenon, <1>1, <1>3, <2>1, FindConflictType
<1> HIDE DEF t
<1>7. old \in BodyOf(E, C) /\ short \in BodyOf(E, C)
      /\ (t # NoTerm => other \in BodyOf(E, C))
  BY Zenon, <1>4, <1>6, ResponseTypes
<1>8. old.type = "AppendResp" /\ short.type = "AppendResp" /\ other.type = "AppendResp"
  BY DEF AppendResp
<1> HIDE DEF old, short, other
<1>9. r1 \in NodeOf(E, C) /\ Calm(f, r1)
  BY <1>1, <1>2, <1>5, <1>7, <1>8, SendCalm, AcceptAppendCalm
<1> QED
  BY <1>2, <1>9, CalmTransitive DEF r1

\* handle_snapshot is calm.
LEMMA HandleSnapshotCalm ==
  ASSUME NEW E, NEW C, NEW r \in NodeOf(E, C), NEW m \in MsgOf(E, C),
         m.body.type = "SnapshotReq"
  PROVE  handle_snapshot(r, m) \in NodeOf(E, C) /\ Calm(r, handle_snapshot(r, m))
<1> DEFINE f == follow(r, m.from)
           snap == m.body.snapshot
           r1 == handle_snapshot(r, m)
           l == install_snapshot(f.log, snap)
           d == IF last_index(l) > snap.last_index THEN snap.last_index + 1 ELSE 0
           g == [f EXCEPT !.log = l, !.commit = snap.last_index,
                          !.applied = snap.last_index, !.hard_state_dirty = TRUE,
                          !.dirty_from = d, !.snapshot = snap]
<1>1. m.from \in Server /\ snap \in SnapshotOf(E, C)
  BY MessageFields, BodyFields
<1>2. snap.last_index \in Nat
  BY <1>1 DEF SnapshotOf
<1>3. f \in NodeOf(E, C) /\ Calm(r, f)
  BY <1>1, FollowCalm
<1>4. r1 \in {send(f, m.from, SnapshotResp(TRUE, f.commit)),
              send(g, m.from, SnapshotResp(TRUE, snap.last_index))}
  BY DEF handle_snapshot
<1> HIDE DEF f, r1, snap
<1>5. f.log \in LogOf(E, C) /\ f.commit \in Nat
  BY <1>3 DEF NodeOf
<1>6. l \in LogOf(E, C)
  BY <1>1, <1>5, InstallSnapshotType
<1> HIDE DEF l
<1>7. d \in Nat
  BY <1>2
<1> HIDE DEF d
<1>8. g \in NodeOf(E, C)
  BY Zenon, <1>1, <1>2, <1>3, <1>6, <1>7 DEF NodeOf
<1>9. Calm(f, g)
  BY <1>3 DEF NodeOf, Calm, NoBallots
<1> HIDE DEF g
<1>10. \A k \in Nat : /\ SnapshotResp(TRUE, k) \in BodyOf(E, C)
                      /\ SnapshotResp(TRUE, k).type \notin {"VoteReq", "VoteResp"}
  BY Zenon, ResponseTypes DEF SnapshotResp
<1>11. Calm(r, g)
  BY <1>3, <1>8, <1>9, CalmTransitive
<1>12. ASSUME r1 = send(f, m.from, SnapshotResp(TRUE, f.commit))
       PROVE  r1 \in NodeOf(E, C) /\ Calm(r, r1)
  <2>1. r1 \in NodeOf(E, C) /\ Calm(f, r1)
    BY Zenon, <1>1, <1>3, <1>5, <1>10, <1>12, SendCalm
  <2> QED
    BY <1>3, <2>1, CalmTransitive
<1>13. ASSUME r1 = send(g, m.from, SnapshotResp(TRUE, snap.last_index))
       PROVE  r1 \in NodeOf(E, C) /\ Calm(r, r1)
  <2>1. r1 \in NodeOf(E, C) /\ Calm(g, r1)
    BY Zenon, <1>1, <1>2, <1>8, <1>10, <1>13, SendCalm
  <2> QED
    BY <1>8, <1>11, <2>1, CalmTransitive
<1>14. r1 \in NodeOf(E, C) /\ Calm(r, r1)
  BY Zenon, <1>4, <1>12, <1>13
<1> QED
  BY <1>14 DEF r1

\* handle_heartbeat is calm.
LEMMA HandleHeartbeatCalm ==
  ASSUME NEW E, NEW C, NEW r \in NodeOf(E, C), NEW m \in MsgOf(E, C),
         m.body.type = "HeartbeatReq"
  PROVE  handle_heartbeat(r, m) \in NodeOf(E, C) /\ Calm(r, handle_heartbeat(r, m))
<1> DEFINE f == follow(r, m.from)
           safe == IF m.body.commit < last_index(f.log) THEN m.body.commit
                   ELSE last_index(f.log)
           commit == IF safe > f.commit THEN safe ELSE f.commit
           d == f.hard_state_dirty \/ safe > f.commit
           g == [f EXCEPT !.commit = commit, !.hard_state_dirty = d]
           resp == [type |-> "HeartbeatResp", ctx |-> m.body.ctx]
<1>1. m.from \in Server /\ m.body.commit \in Nat /\ m.body.ctx \in Nat
  BY MessageFields, BodyFields
<1>2. f \in NodeOf(E, C) /\ Calm(r, f)
  BY <1>1, FollowCalm
<1>3. handle_heartbeat(r, m) = send(g, m.from, resp)
  BY <1>2 DEF handle_heartbeat, NodeOf
<1>4. d \in BOOLEAN /\ (f.hard_state_dirty => d)
  OBVIOUS
<1> HIDE DEF f
<1>5. last_index(f.log) \in Nat /\ f.commit \in Nat
  BY <1>2, LogIndices DEF NodeOf
<1>6. commit \in Nat
  BY <1>1, <1>5
<1> HIDE DEF commit, d
<1>7. g \in NodeOf(E, C) /\ Calm(f, g)
  BY ZenonT(60), <1>2, <1>4, <1>6 DEF NodeOf, Calm, NoBallots
<1> HIDE DEF g
<1>8. resp \in BodyOf(E, C) /\ resp.type \notin {"VoteReq", "VoteResp"}
  BY <1>1, ResponseTypes
<1> HIDE DEF resp
<1>9. send(g, m.from, resp) \in NodeOf(E, C) /\ Calm(g, send(g, m.from, resp))
  BY <1>1, <1>7, <1>8, SendCalm
<1>10. Calm(r, g)
  BY <1>2, <1>7, CalmTransitive
<1> QED
  BY <1>3, <1>7, <1>9, <1>10, CalmTransitive

-----------------------------------------------------------------------------
(* The leader's side *)

\* Replacing one progress slot is calm.
LEMMA SlotReplacedCalm ==
  ASSUME NEW E, NEW C, NEW r \in NodeOf(E, C), NEW p \in Server, NEW q \in Slot
  PROVE  LET r1 == [r EXCEPT !.progress[p] = q] IN
           r1 \in NodeOf(E, C) /\ Calm(r, r1)
<1> DEFINE f == [r.progress EXCEPT ![p] = q]
<1>1. f \in [Server -> Slot \cup {None}]
  BY SlotFacts
<1>2. [r EXCEPT !.progress[p] = q] = [r EXCEPT !.progress = f]
  BY DEF NodeOf
<1> HIDE DEF f
<1> QED
  BY <1>1, <1>2, ProgressReplacedCalm

\* append_acked is calm.
LEMMA AppendAckedCalm ==
  ASSUME NEW E, NEW C, Universe(E, C), NEW r \in NodeOf(E, C),
         NEW from \in tracked(r), NEW match \in Nat
  PROVE  /\ append_acked(r, from, match) \in NodeOf(E, C)
         /\ Calm(r, append_acked(r, from, match))
<1> DEFINE p == r.progress[from]
           q == IF match >= p.matched
                THEN [p EXCEPT !.matched = match, !.next = match + 1,
                               !.state = "Replicate", !.pending_snapshot = FALSE,
                               !.active = TRUE]
                ELSE [p EXCEPT !.active = TRUE]
           s == [r EXCEPT !.progress[from] = q]
           a == maybe_advance_commit(s)
           r1 == append_acked(r, from, match)
<1>1. from \in Server /\ p \in Slot
  BY SMTT(60), SlotFacts
<1>2. q \in Slot
  BY Zenon, <1>1, SlotUpdates
<1>3. r1 \in {a, send_append_to(a, {from})}
  BY DEF append_acked
<1> HIDE DEF q
<1>4. s \in NodeOf(E, C) /\ Calm(r, s)
  BY <1>1, <1>2, SlotReplacedCalm
<1> HIDE DEF s
<1>5. a \in NodeOf(E, C) /\ Calm(s, a)
  BY <1>4, AdvanceCommitCalm
<1> HIDE DEF a, r1
<1>6. Calm(r, a)
  BY <1>4, <1>5, CalmTransitive
<1>7. send_append_to(a, {from}) \in NodeOf(E, C) /\ Calm(a, send_append_to(a, {from}))
  BY <1>1, <1>5, SendAppendToCalm
<1>8. Calm(r, send_append_to(a, {from}))
  BY <1>5, <1>6, <1>7, CalmTransitive
<1> QED
  BY SMTT(30), <1>3, <1>5, <1>6, <1>7, <1>8 DEF r1

\* append_refused is calm.
LEMMA AppendRefusedCalm ==
  ASSUME NEW E, NEW C, Universe(E, C), NEW r \in NodeOf(E, C),
         NEW from \in tracked(r), NEW index \in Nat, NEW term \in Nat
  PROVE  /\ append_refused(r, from, index, term) \in NodeOf(E, C)
         /\ Calm(r, append_refused(r, from, index, term))
<1> DEFINE p == r.progress[from]
           hint == IF term > 0 THEN find_conflict_by_term(r.log, index, term) + 1
                   ELSE IF index > 1 THEN index ELSE 1
           low == IF hint > p.matched + 1 THEN hint ELSE p.matched + 1
           next == IF low < last_index(r.log) + 1 THEN low
                   ELSE last_index(r.log) + 1
           q == [p EXCEPT !.next = next, !.state = "Probe", !.active = TRUE]
           s == [r EXCEPT !.progress[from] = q]
<1>1. from \in Server /\ p \in Slot /\ p.matched \in Nat
  BY SlotFacts DEF Slot
<1>2. r.log \in LogOf(E, C) /\ last_index(r.log) \in Nat
  BY LogIndices DEF NodeOf
<1>3. find_conflict_by_term(r.log, index, term) \in Nat
  BY SMTT(30), <1>2, FindConflictType
<1>4. append_refused(r, from, index, term) = send_append_to(s, {from})
  BY DEF append_refused
<1> HIDE DEF p
<1>5. hint \in Nat \ {0}
  BY <1>3
<1> HIDE DEF hint
<1>6. next \in Nat \ {0} /\ next - 1 \in Nat /\ next = (next - 1) + 1
  BY SMTT(60), <1>1, <1>2, <1>5
<1> HIDE DEF next
<1>7. q \in Slot
  BY Zenon, <1>1, <1>6, SlotUpdates
<1> HIDE DEF q
<1>8. s \in NodeOf(E, C) /\ Calm(r, s)
  BY <1>1, <1>7, SlotReplacedCalm
<1> HIDE DEF s
<1> QED
  BY SMTT(30), <1>1, <1>4, <1>8, SendAppendToCalm, CalmTransitive

\* handle_append_resp is calm.
LEMMA AppendRespCalm ==
  ASSUME NEW E, NEW C, Universe(E, C), NEW r \in NodeOf(E, C),
         NEW m \in MsgOf(E, C), m.body.type = "AppendResp"
  PROVE  /\ handle_append_resp(r, m) \in NodeOf(E, C)
         /\ Calm(r, handle_append_resp(r, m))
<1>1. /\ m.body.match_index \in Nat /\ m.body.conflict_index \in Nat
      /\ m.body.conflict_term \in Nat
  BY MessageFields, BodyFields
<1> DEFINE acked == append_acked(r, m.from, m.body.match_index)
           refused == append_refused(r, m.from, m.body.conflict_index,
                                     m.body.conflict_term)
<1>2. \/ handle_append_resp(r, m) = r
      \/ m.from \in tracked(r) /\ handle_append_resp(r, m) \in {acked, refused}
  BY DEF handle_append_resp
<1>3. ASSUME m.from \in tracked(r)
      PROVE  /\ acked \in NodeOf(E, C) /\ Calm(r, acked)
             /\ refused \in NodeOf(E, C) /\ Calm(r, refused)
  BY <1>1, <1>3, AppendAckedCalm, AppendRefusedCalm
<1> QED
  BY <1>2, <1>3, CalmReflexive

\* handle_snapshot_resp is calm.
LEMMA SnapshotRespCalm ==
  ASSUME NEW E, NEW C, Universe(E, C), NEW r \in NodeOf(E, C),
         NEW m \in MsgOf(E, C), m.body.type = "SnapshotResp"
  PROVE  /\ handle_snapshot_resp(r, m) \in NodeOf(E, C)
         /\ Calm(r, handle_snapshot_resp(r, m))
<1> DEFINE p == r.progress[m.from]
           matched == IF m.body.index > p.matched THEN m.body.index ELSE p.matched
           answered == [p EXCEPT !.active = TRUE, !.pending_snapshot = FALSE,
                                 !.state = "Probe"]
           q == [answered EXCEPT !.matched = matched, !.next = matched + 1]
           s == [r EXCEPT !.progress[m.from] = q]
           t == [r EXCEPT !.progress[m.from] = answered]
           r1 == handle_snapshot_resp(r, m)
<1>1. m.body.index \in Nat
  BY MessageFields, BodyFields
<1>2. \/ r1 = r
      \/ m.from \in tracked(r) /\ r1 \in {maybe_advance_commit(s), t}
  BY DEF handle_snapshot_resp
<1>3. ASSUME m.from \in tracked(r)
      PROVE  /\ maybe_advance_commit(s) \in NodeOf(E, C)
             /\ Calm(r, maybe_advance_commit(s))
             /\ t \in NodeOf(E, C) /\ Calm(r, t)
  <2>1. m.from \in Server /\ p \in Slot
    BY <1>3, SlotFacts
  <2>2. p.matched \in Nat
    BY <2>1 DEF Slot
  <2> HIDE DEF p
  <2>3. matched \in Nat
    BY SMTT(60), <1>1, <2>2
  <2>4. answered \in Slot
    BY ZenonT(60), <2>1, SlotUpdates
  <2> HIDE DEF matched, answered
  <2>5. q \in Slot
    BY Zenon, <2>3, <2>4, SlotUpdates
  <2> HIDE DEF q
  <2>6. s \in NodeOf(E, C) /\ Calm(r, s) /\ t \in NodeOf(E, C) /\ Calm(r, t)
    BY <2>1, <2>4, <2>5, SlotReplacedCalm
  <2> HIDE DEF s, t
  <2> QED
    BY <2>6, AdvanceCommitCalm, CalmTransitive
<1> HIDE DEF s, t, r1
<1>4. r1 \in NodeOf(E, C) /\ Calm(r, r1)
  BY <1>2, <1>3, CalmReflexive
<1> QED
  BY <1>4 DEF r1

\* handle_heartbeat_resp is calm.
LEMMA HeartbeatRespCalm ==
  ASSUME NEW E, NEW C, NEW r \in NodeOf(E, C),
         NEW m \in MsgOf(E, C), m.body.type = "HeartbeatResp"
  PROVE  /\ handle_heartbeat_resp(r, m) \in NodeOf(E, C)
         /\ Calm(r, handle_heartbeat_resp(r, m))
<1> DEFINE Read == [ctx : Nat, index : Nat, acks : SUBSET Server]
           heard == IF m.from \in tracked(r)
                    THEN [r EXCEPT !.progress[m.from].active = TRUE] ELSE r
           confirms(p) == m.body.ctx \in {p.ctx, 0}
           ack(p) == IF confirms(p) THEN [p EXCEPT !.acks = @ \cup {m.from}] ELSE p
           acked == {ack(p) : p \in r.pending_reads}
           done == {p \in acked : confirms(p) /\ has_quorum(config(r.log), p.acks)}
           left == acked \ done
           out == {[ctx |-> p.ctx, index |-> p.index] : p \in done}
           r1 == [heard EXCEPT !.pending_reads = left, !.reads = @ \cup out]
<1>1. m.from \in Server
  BY MessageFields
<1>2. heard \in NodeOf(E, C) /\ Calm(r, heard)
  <2> DEFINE q == [r.progress[m.from] EXCEPT !.active = TRUE]
  <2>1. ASSUME m.from \in tracked(r)
        PROVE  /\ q \in Slot
               /\ [r EXCEPT !.progress[m.from].active = TRUE] =
                    [r EXCEPT !.progress[m.from] = q]
    BY Zenon, <2>1, SlotFacts, SlotUpdates
  <2> HIDE DEF q
  <2> QED
    BY SMTT(60), <1>1, <2>1, SlotReplacedCalm, CalmReflexive
<1>3. acked \in SUBSET Read
  <2>1. \A p \in r.pending_reads : p \in Read
    BY DEF NodeOf
  <2>2. ASSUME NEW p \in Read PROVE ack(p) \in Read
    <3>1. [p EXCEPT !.acks = @ \cup {m.from}] \in Read
      BY <1>1
    <3> QED
      BY <3>1
  <2> HIDE DEF ack, Read
  <2> QED
    BY <2>1, <2>2
<1>4. handle_heartbeat_resp(r, m) \in {r, r1}
  BY DEF handle_heartbeat_resp
<1> HIDE DEF heard, acked
<1>5. left \in SUBSET Read /\ out \in SUBSET [ctx : Nat, index : Nat]
  BY <1>3
<1> HIDE DEF left, out
<1>6. r1 \in NodeOf(E, C) /\ Calm(heard, r1)
  BY Zenon, <1>2, <1>5 DEF NodeOf, Calm, NoBallots
<1> HIDE DEF r1
<1>7. Calm(r, r1)
  BY <1>2, <1>6, CalmTransitive
<1> QED
  BY <1>4, <1>6, <1>7, CalmReflexive

\* handle_timeout_now is calm or a campaign.
LEMMA TimeoutNowEffect ==
  ASSUME NEW E, NEW C, Universe(E, C), NEW r \in NodeOf(E, C)
  PROVE  /\ handle_timeout_now(r) \in NodeOf(E, C)
         /\ Calm(r, handle_timeout_now(r)) \/ Runs(C, r, handle_timeout_now(r))
  BY CampaignRuns, CalmReflexive DEF handle_timeout_now

-----------------------------------------------------------------------------
(* The driver *)

WalOf(E) == [base : Nat, entries : Seq(E)]

\* The fields of a disk have their types.
LEMMA DiskFields ==
  ASSUME NEW E, NEW C, NEW d \in DiskOf(E, C)
  PROVE  /\ d.hs \in HardStates /\ d.snap \in SnapshotOf(E, C) \cup {None}
         /\ d.wal \in WalOf(E) /\ d.wal.base \in Nat /\ d.wal.entries \in Seq(E)
         /\ wal_last_index(d.wal) \in Nat /\ snap_index(d) \in Nat
<1>1. /\ d.hs \in HardStates /\ d.snap \in SnapshotOf(E, C) \cup {None}
      /\ d.wal \in WalOf(E) /\ d.wal.base \in Nat /\ d.wal.entries \in Seq(E)
  BY DEF DiskOf, HardStates, WalOf
<1>2. wal_last_index(d.wal) \in Nat
  BY <1>1 DEF wal_last_index
<1>3. snap_index(d) \in Nat
  BY <1>1 DEF snap_index, SnapshotOf
<1> QED
  BY <1>1, <1>2, <1>3

\* reset_to leaves an empty write-ahead log.
LEMMA ResetToType ==
  ASSUME NEW E, NEW index \in Nat
  PROVE  reset_to(index) \in WalOf(E)
  BY DEF reset_to, WalOf

\* Truncating the write-ahead log keeps its type.
LEMMA WalTruncateType ==
  ASSUME NEW E, NEW w \in WalOf(E), NEW from \in Nat \ {0}
  PROVE  wal_truncate_from(w, from) \in WalOf(E)
<1>1. /\ w.base \in Nat /\ w.entries \in Seq(E) /\ Len(w.entries) \in Nat
      /\ wal_last_index(w) = w.base + Len(w.entries)
  BY DEF WalOf, wal_last_index
<1> DEFINE es == SubSeq(w.entries, 1, from - 1 - w.base)
<1>2. ASSUME from <= wal_last_index(w) PROVE es \in Seq(E)
  BY <1>1, <1>2, SubSeqType
<1>3. \/ wal_truncate_from(w, from) \in {w, reset_to(from - 1)}
      \/ /\ from <= wal_last_index(w)
         /\ wal_truncate_from(w, from) = [w EXCEPT !.entries = es]
  BY <1>1 DEF wal_truncate_from
<1> HIDE DEF es
<1>4. ASSUME from <= wal_last_index(w) PROVE [w EXCEPT !.entries = es] \in WalOf(E)
  BY <1>2, <1>4 DEF WalOf
<1> QED
  BY <1>3, <1>4, ResetToType

\* Appending to the write-ahead log keeps the disk's type and its hard state.
LEMMA WalAppendType ==
  ASSUME NEW E, NEW C, NEW d \in DiskOf(E, C), NEW es \in Seq(E)
  PROVE  wal_append(d, es) \in DiskOf(E, C) /\ wal_append(d, es).hs = d.hs
<1> DEFINE all == d.wal.entries \o es
           w == [d.wal EXCEPT !.entries = all]
<1>1. all \in Seq(E)
  BY DiskFields, ConcatType
<1>2. wal_append(d, es) = [d EXCEPT !.wal = w]
  BY DiskFields DEF wal_append, DiskOf, WalOf
<1> HIDE DEF all
<1>3. w \in WalOf(E)
  BY <1>1, DiskFields DEF WalOf
<1> HIDE DEF w
<1>4. [d EXCEPT !.wal = w] \in DiskOf(E, C) /\ [d EXCEPT !.wal = w].hs = d.hs
  BY SMTT(30), <1>3 DEF DiskOf, WalOf
<1> QED
  BY <1>2, <1>4

-----------------------------------------------------------------------------
(* Recovery *)

\* The log rebuilt at recovery is a log.
LEMMA RestoredLogType ==
  ASSUME NEW E, NEW C, Universe(E, C), NEW boot, Founded(E, C, boot),
         NEW snap \in SnapshotOf(E, C) \cup {None}, NEW es \in Seq(E)
  PROVE  restored_log(snap, es, boot) \in LogOf(E, C)
<1> DEFINE base == IF snap = None THEN bootstrap(simple({}))
                   ELSE [snapshot_index |-> snap.last_index,
                         snapshot_term |-> snap.last_term,
                         snapshot_config |-> snap.config, entries |-> <<>>]
           l == append(base, es)
           fresh == append(bootstrap(boot), entries_from(l, 1))
<1>1. CASE snap = None
  <2>1. base \in LogOf(E, {simple({})})
    BY <1>1 DEF bootstrap, LogOf
  <2>2. restored_log(snap, es, boot) = IF config(l).voters = {} THEN fresh ELSE l
    BY DEF restored_log
  <2> HIDE DEF base
  <2>3. l \in LogOf(E, {simple({})})
    BY <2>1, AppendType
  <2> HIDE DEF l
  <2>4. bootstrap(boot) \in LogOf(E, C)
    BY DEF bootstrap, LogOf, Founded
  <2>5. fresh \in LogOf(E, C)
    BY <2>3, <2>4, EntriesFromType, AppendType
  <2>6. config(l).voters # {} => l \in LogOf(E, C)
    BY <2>3 DEF Founded, LogOf
  <2> QED
    BY <2>2, <2>5, <2>6
<1>2. CASE snap # None
  <2>1. snap \in SnapshotOf(E, C)
    BY <1>2
  <2>2. base \in LogOf(E, C)
    BY <1>2, <2>1 DEF SnapshotOf, LogOf
  <2>3. restored_log(snap, es, boot) = IF config(l).voters = {} THEN fresh ELSE l
    BY DEF restored_log
  <2> HIDE DEF base
  <2>4. l \in LogOf(E, C)
    BY <2>2, AppendType
  <2> HIDE DEF l
  <2>5. bootstrap(boot) \in LogOf(E, C)
    BY DEF bootstrap, LogOf, Founded
  <2>6. fresh \in LogOf(E, C)
    BY <2>4, <2>5, EntriesFromType, AppendType
  <2> QED
    BY <2>3, <2>4, <2>6
<1> QED
  BY <1>1, <1>2

\* What recovery reads from the disk are entries.
LEMMA RecoveredEntriesType ==
  ASSUME NEW E, NEW C, NEW d \in DiskOf(E, C)
  PROVE  recovered_entries(d) \in Seq(E)
  BY DiskFields, SubSeqType DEF recovered_entries

\* A restarted node: a follower with the term and vote of its disk.
LEMMA RecoverEffect ==
  ASSUME NEW E, NEW C, Universe(E, C), NEW boot, Founded(E, C, boot),
         NEW id \in Server, NEW d \in DiskOf(E, C)
  PROVE  /\ recover(id, d, boot) \in NodeOf(E, C)
         /\ Reborn(id, recover(id, d, boot), d)
<1> DEFINE l == restored_log(d.snap, recovered_entries(d), boot)
           clamped == IF d.hs.commit < last_index(l) THEN d.hs.commit
                      ELSE last_index(l)
           commit == IF clamped > l.snapshot_index THEN clamped
                     ELSE l.snapshot_index
           hs == [term |-> d.hs.term, vote |-> d.hs.vote]
           r == recover(id, d, boot)
<1>1. l \in LogOf(E, C)
  BY DiskFields, RecoveredEntriesType, RestoredLogType
<1>2. r = [new(id, l) EXCEPT !.term = d.hs.term, !.vote = d.hs.vote,
             !.commit = commit, !.applied = l.snapshot_index,
             !.persisted = last_index(l), !.persisted_hs = hs]
  BY DEF recover, restore
<1> HIDE DEF l
<1>3. l.snapshot_index \in Nat /\ last_index(l) \in Nat
  BY <1>1, LogIndices
<1>4. d.hs.term \in Nat /\ d.hs.vote \in Vote /\ d.hs.commit \in Nat
  BY DiskFields DEF HardStates
<1>5. commit \in Nat
  BY <1>3, <1>4
<1>6. hs \in [term : Nat, vote : Vote]
  BY <1>4
<1>7. new(id, l) \in NodeOf(E, C)
  BY <1>1 DEF new, NodeOf, NoProgress, Vote
<1>8. /\ new(id, l).id = id /\ new(id, l).role = "Follower"
      /\ new(id, l).messages = {}
  BY DEF new
<1> DEFINE n == new(id, l)
<1> HIDE DEF commit, r, hs, n
<1>9. r = [n EXCEPT !.term = d.hs.term, !.vote = d.hs.vote,
             !.commit = commit, !.applied = l.snapshot_index,
             !.persisted = last_index(l), !.persisted_hs = hs]
  BY <1>2 DEF n
<1>10. n \in NodeOf(E, C) /\ n.id = id /\ n.role = "Follower" /\ n.messages = {}
  BY <1>7, <1>8 DEF n
<1>11. r \in NodeOf(E, C)
  BY ZenonT(60), <1>3, <1>4, <1>5, <1>6, <1>9, <1>10 DEF NodeOf
<1>12. /\ r.id = id /\ r.term = d.hs.term /\ r.vote = d.hs.vote
       /\ r.persisted_hs = hs /\ r.role = "Follower" /\ r.messages = {}
  BY <1>9, <1>10 DEF NodeOf
<1> QED
  BY <1>11, <1>12 DEF r, hs, Reborn

-----------------------------------------------------------------------------
(* The hand-over *)

\* ready hands over the hard state exactly when it is marked and differs from
\* what was last acknowledged as written.
LEMMA ReadyEffect ==
  ASSUME NEW E, NEW C, NEW r \in NodeOf(E, C)
  PROVE  /\ ready(r) \in ReadyOf(E, C)
         /\ ready(r).messages = r.messages
         /\ ready(r).hard_state =
              IF /\ r.hard_state_dirty
                 /\ [term |-> r.term, vote |-> r.vote] # r.persisted_hs
              THEN HardState(r.term, r.vote, r.commit) ELSE None
         /\ HardState(r.term, r.vote, r.commit) \in HardStates
<1> DEFINE first == IF r.dirty_from < first_index(r.log) THEN first_index(r.log)
                    ELSE r.dirty_from
           commit == IF r.commit < last_index(r.log) THEN r.commit
                     ELSE last_index(r.log)
           must == /\ r.hard_state_dirty
                   /\ [term |-> r.term, vote |-> r.vote] # r.persisted_hs
           hs == IF must THEN HardState(r.term, r.vote, r.commit) ELSE None
           es == IF r.dirty_from = 0 THEN <<>> ELSE entries_from(r.log, first)
           com == slice(r.log, r.applied + 1, commit + 1)
<1>1. /\ r.log \in LogOf(E, C) /\ r.dirty_from \in Nat /\ r.commit \in Nat
      /\ r.applied \in Nat /\ r.term \in Nat /\ r.vote \in Vote
      /\ r.snapshot \in SnapshotOf(E, C) \cup {None}
      /\ r.messages \in SUBSET MsgOf(E, C)
      /\ r.reads \in SUBSET [ctx : Nat, index : Nat]
  BY DEF NodeOf
<1>2. first_index(r.log) \in Nat /\ last_index(r.log) \in Nat
  BY <1>1, LogIndices
<1>3. first \in Nat /\ commit \in Nat
  BY <1>1, <1>2
<1>4. HardState(r.term, r.vote, r.commit) \in HardStates
  BY <1>1 DEF HardState, HardStates
<1>5. hs \in HardStates \cup {None}
  BY <1>4
<1>6. ready(r) = [hard_state |-> hs, first |-> first, entries |-> es,
                  snapshot |-> r.snapshot, messages |-> r.messages,
                  committed |-> com, reads |-> r.reads]
  BY DEF ready
<1> HIDE DEF first, commit
<1>7. es \in Seq(E)
  BY <1>1, <1>3, EntriesFromType
<1>8. com \in Seq(E)
  BY <1>1, <1>3, SliceType
<1> HIDE DEF hs, es, com
<1>9. ready(r) \in ReadyOf(E, C) /\ ready(r).hard_state = hs
      /\ ready(r).messages = r.messages
  BY SMTT(30), <1>1, <1>3, <1>5, <1>6, <1>7, <1>8 DEF ReadyOf
<1> QED
  BY <1>4, <1>9 DEF hs

\* Taking the Ready is calm, and commits nothing beyond the log.
LEMMA AfterReadyCalm ==
  ASSUME NEW E, NEW C, NEW r \in NodeOf(E, C)
  PROVE  /\ after_ready(r) \in NodeOf(E, C)
         /\ emptied(r) \in NodeOf(E, C)
         /\ Calm(emptied(r), after_ready(r))
         /\ after_ready(r).role = r.role
         /\ after_ready(r).log = r.log
         /\ after_ready(r).commit \in 0 .. last_index(r.log)
<1> DEFINE last == last_index(r.log)
           d == IF r.dirty_from # 0 /\ r.dirty_from < first_index(r.log)
                THEN first_index(r.log) ELSE r.dirty_from
           c == IF r.commit < last THEN r.commit ELSE last
           p == IF r.persisted < last THEN r.persisted ELSE last
           r1 == after_ready(r)
<1>1. /\ r.dirty_from \in Nat /\ r.commit \in Nat /\ r.persisted \in Nat
      /\ first_index(r.log) \in Nat /\ last \in Nat
  BY LogIndices DEF NodeOf
<1>2. d \in Nat /\ c \in Nat /\ p \in Nat /\ c \in 0 .. last
  BY <1>1
<1>3. r1 = [r EXCEPT !.messages = {}, !.snapshot = None, !.reads = {},
                     !.dirty_from = d, !.hard_state_dirty = FALSE,
                     !.commit = c, !.persisted = p]
  BY DEF after_ready, NodeOf
<1> HIDE DEF d, c, p, r1, last
<1>4. r1 \in NodeOf(E, C)
  BY ZenonT(60), <1>2, <1>3 DEF NodeOf
<1>5. emptied(r) \in NodeOf(E, C)
  BY Zenon DEF emptied, NodeOf
<1>6. Calm(emptied(r), r1)
  BY <1>3 DEF emptied, NodeOf, Calm, NoBallots
<1>7. r1.role = r.role /\ r1.log = r.log /\ r1.commit = c
  BY <1>3 DEF NodeOf
<1> QED
  BY SMTT(30), <1>2, <1>4, <1>5, <1>6, <1>7 DEF r1, last

-----------------------------------------------------------------------------
(* Writing *)

\* Every step of persist keeps the disk's type, and only one writes the hard state.
LEMMA PersistSteps ==
  ASSUME NEW E, NEW C, NEW d \in DiskOf(E, C), NEW rd \in ReadyOf(E, C),
         NEW cut \in Nat
  PROVE  /\ truncated(d, cut) \in DiskOf(E, C)
         /\ snapshotted(d, rd, cut) \in DiskOf(E, C)
         /\ rebased(d, rd, cut) \in DiskOf(E, C)
         /\ voted(d, rd, cut) \in DiskOf(E, C)
         /\ persist(d, rd, cut) \in DiskOf(E, C)
         /\ truncated(d, cut).hs = d.hs /\ snapshotted(d, rd, cut).hs = d.hs
         /\ rebased(d, rd, cut).hs = d.hs
         /\ voted(d, rd, cut).hs = HsWritten(d, rd)
         /\ persist(d, rd, cut).hs = voted(d, rd, cut).hs
<1>1. /\ rd.hard_state \in HardStates \cup {None} /\ rd.entries \in Seq(E)
      /\ rd.snapshot \in SnapshotOf(E, C) \cup {None}
  BY DEF ReadyOf
<1>2. rd.snapshot # None =>
        rd.snapshot.last_index \in Nat /\ rd.snapshot \in SnapshotOf(E, C)
  BY <1>1 DEF SnapshotOf
<1> DEFINE a == truncated(d, cut)
           b == snapshotted(d, rd, cut)
           c == rebased(d, rd, cut)
           v == voted(d, rd, cut)
<1>3. a \in DiskOf(E, C) /\ a.hs = d.hs
  <2> DEFINE w == wal_truncate_from(d.wal, cut)
  <2>1. cut # 0 => w \in WalOf(E)
    BY DiskFields, WalTruncateType
  <2>2. a = IF cut = 0 THEN d ELSE [d EXCEPT !.wal = w]
    BY DEF truncated
  <2> HIDE DEF a, w
  <2> QED
    BY <2>1, <2>2 DEF DiskOf, WalOf
<1>4. b \in DiskOf(E, C) /\ b.hs = d.hs
  <2>1. b = IF rd.snapshot = None THEN a ELSE [a EXCEPT !.snap = rd.snapshot]
    BY DEF snapshotted
  <2> HIDE DEF a, b
  <2> QED
    BY Zenon, <1>2, <1>3, <2>1 DEF DiskOf
<1>5. c \in DiskOf(E, C) /\ c.hs = d.hs
  <2> DEFINE w == reset_to(rd.snapshot.last_index)
  <2>1. rd.snapshot # None => w \in WalOf(E)
    BY <1>2, ResetToType
  <2>2. c = IF rd.snapshot = None THEN b ELSE [b EXCEPT !.wal = w]
    BY DEF rebased
  <2> HIDE DEF b, c, w
  <2> QED
    BY Zenon, <1>4, <2>1, <2>2 DEF DiskOf, WalOf
<1>6. /\ v \in DiskOf(E, C)
      /\ v.hs = HsWritten(d, rd)
  <2>1. v = IF rd.hard_state = None THEN c ELSE [c EXCEPT !.hs = rd.hard_state]
    BY DEF voted
  <2> HIDE DEF c, v
  <2> QED
    BY SMTT(60), <1>1, <1>5, <2>1 DEF DiskOf, HardStates, HsWritten
<1>7. persist(d, rd, cut) = wal_append(v, rd.entries)
  BY DEF persist
<1> HIDE DEF a, b, c, v
<1>8. persist(d, rd, cut) \in DiskOf(E, C) /\ persist(d, rd, cut).hs = v.hs
  BY <1>1, <1>6, <1>7, WalAppendType
<1> QED
  BY SMTT(30), <1>3, <1>4, <1>5, <1>6, <1>8 DEF a, b, c, v

\* The writes up to the hard state.
LEMMA VotedEffect ==
  ASSUME NEW E, NEW C, NEW d \in DiskOf(E, C), NEW rd \in ReadyOf(E, C),
         NEW cut \in Nat
  PROVE  Balloted(E, C, d, rd, voted(d, rd, cut))
  BY PersistSteps DEF Balloted

\* The completed writes.
LEMMA PersistEffect ==
  ASSUME NEW E, NEW C, NEW d \in DiskOf(E, C), NEW rd \in ReadyOf(E, C),
         NEW cut \in Nat
  PROVE  /\ persist(d, rd, cut) \in DiskOf(E, C)
         /\ persist(d, rd, cut).hs = HsWritten(d, rd)
<1>1. persist(d, rd, cut) \in DiskOf(E, C)
  BY PersistSteps
<1>2. persist(d, rd, cut).hs = voted(d, rd, cut).hs
  BY PersistSteps
<1>3. voted(d, rd, cut).hs = HsWritten(d, rd)
  BY PersistSteps
<1> QED
  BY <1>1, <1>2, <1>3

\* reconcile keeps the disk's type and its hard state.
LEMMA ReconcileSteps ==
  ASSUME NEW E, NEW C, NEW d \in DiskOf(E, C), NEW l \in LogOf(E, C)
  PROVE  /\ reconciled_base(d, l) \in DiskOf(E, C)
         /\ reconciled_base(d, l).hs = d.hs
         /\ missing(d, l) \in Seq(E)
         /\ reconcile(d, l) \in DiskOf(E, C) /\ reconcile(d, l).hs = d.hs
<1> DEFINE b == reconciled_base(d, l)
           w == reset_to(first_index(l) - 1)
<1>1. w \in WalOf(E)
  BY LogIndices, ResetToType
<1>2. b \in {d, [d EXCEPT !.wal = w]}
  BY DEF reconciled_base
<1> HIDE DEF w, b
<1>3. b \in DiskOf(E, C) /\ b.hs = d.hs
  BY <1>1, <1>2 DEF DiskOf, WalOf
<1>4. missing(d, l) = entries_from(l, wal_last_index(b.wal) + 1)
  BY DEF missing, b
<1>5. missing(d, l) \in Seq(E)
  BY <1>3, <1>4, DiskFields, EntriesFromType
<1>6. reconcile(d, l) = wal_append(b, missing(d, l))
  BY DEF reconcile, b
<1>7. reconcile(d, l) \in DiskOf(E, C) /\ reconcile(d, l).hs = d.hs
  BY <1>3, <1>5, <1>6, WalAppendType
<1> QED
  BY <1>3, <1>5, <1>7 DEF b

\* A disk whose segments were removed is a disk, with the same hard state.
LEMMA WalRemovedType ==
  ASSUME NEW E, NEW C, NEW d \in DiskOf(E, C)
  PROVE  wal_removed(d) \in DiskOf(E, C) /\ wal_removed(d).hs = d.hs
<1> DEFINE w == reset_to(snap_index(d))
<1>1. w \in WalOf(E)
  BY DiskFields, ResetToType
<1>2. wal_removed(d) = [d EXCEPT !.wal = w]
  BY DEF wal_removed
<1> HIDE DEF w
<1> QED
  BY <1>1, <1>2 DEF DiskOf, WalOf

\* Prefixes of entries are sequences of entries.
LEMMA PrefixesType ==
  ASSUME NEW E, NEW es \in Seq(E)
  PROVE  Prefixes(es) \subseteq Seq(E)
<1>1. ASSUME NEW k \in 0 .. Len(es) PROVE SubSeq(es, 1, k) \in Seq(E)
  BY SubSeqType
<1> QED
  BY <1>1 DEF Prefixes

\* A power loss leaves a disk whose hard state is the old or the new one.
LEMMA TornDisksEffect ==
  ASSUME NEW E, NEW C, NEW d \in DiskOf(E, C), NEW rd \in ReadyOf(E, C),
         NEW cut \in Nat, NEW l \in LogOf(E, C), NEW t \in TornDisks(d, rd, cut, l)
  PROVE  t \in DiskOf(E, C) /\ t.hs \in HsAfter(d, rd)
<1> DEFINE p == persist(d, rd, cut)
           v == voted(d, rd, cut)
           b == reconciled_base(p, l)
<1>1. /\ p \in DiskOf(E, C) /\ v \in DiskOf(E, C) /\ b \in DiskOf(E, C)
      /\ p.hs \in HsAfter(d, rd) /\ v.hs \in HsAfter(d, rd) /\ b.hs \in HsAfter(d, rd)
      /\ rd.entries \in Seq(E) /\ missing(p, l) \in Seq(E)
  <2>a. p \in DiskOf(E, C)
    BY Zenon, PersistSteps
  <2>0. p \in DiskOf(E, C) /\ v \in DiskOf(E, C) /\ p.hs = v.hs /\ v.hs = HsWritten(d, rd)
    BY PersistSteps
  <2> HIDE DEF p, v
  <2>1. v.hs \in HsAfter(d, rd)
    BY <2>0 DEF HsAfter, HsWritten
  <2>2. b \in DiskOf(E, C) /\ b.hs = p.hs /\ missing(p, l) \in Seq(E)
    BY <2>a, ReconcileSteps
  <2>3. rd.entries \in Seq(E)
    BY DEF ReadyOf
  <2> QED
    BY SMTT(30), <2>0, <2>1, <2>2, <2>3
<1>2. \/ t \in {d, truncated(d, cut), snapshotted(d, rd, cut), rebased(d, rd, cut), v}
      \/ t \in {wal_removed(d), wal_removed(p)}
      \/ \E es \in Prefixes(rd.entries) : t = wal_append(v, es)
      \/ \E es \in Prefixes(missing(p, l)) : t = wal_append(b, es)
  BY Zenon DEF TornDisks
<1> HIDE DEF p, v, b
<1>3. CASE t \in {d, truncated(d, cut), snapshotted(d, rd, cut), rebased(d, rd, cut), v}
  <2>1. /\ truncated(d, cut) \in DiskOf(E, C) /\ truncated(d, cut).hs = d.hs
        /\ snapshotted(d, rd, cut) \in DiskOf(E, C)
        /\ snapshotted(d, rd, cut).hs = d.hs
        /\ rebased(d, rd, cut) \in DiskOf(E, C) /\ rebased(d, rd, cut).hs = d.hs
    BY PersistSteps
  <2>2. d.hs \in HsAfter(d, rd)
    BY DEF HsAfter
  <2> QED
    BY SMTT(30), <1>1, <1>3, <2>1, <2>2
<1>4. CASE t \in {wal_removed(d), wal_removed(p)}
  BY <1>1, <1>4, WalRemovedType DEF HsAfter
<1>5. CASE \E es \in Prefixes(rd.entries) : t = wal_append(v, es)
  <2>1. PICK es \in Prefixes(rd.entries) : t = wal_append(v, es)
    BY <1>5
  <2>2. es \in Seq(E)
    BY <1>1, PrefixesType
  <2> QED
    BY Zenon, <1>1, <2>1, <2>2, WalAppendType
<1>6. CASE \E es \in Prefixes(missing(p, l)) : t = wal_append(b, es)
  <2>1. PICK es \in Prefixes(missing(p, l)) : t = wal_append(b, es)
    BY <1>6
  <2>2. es \in Seq(E)
    BY <1>1, PrefixesType
  <2> QED
    BY Zenon, <1>1, <2>1, <2>2, WalAppendType
<1> QED
  BY SMTT(30), <1>2, <1>3, <1>4, <1>5, <1>6

\* The store after a snapshot was installed holds entries.
LEMMA InstalledKvType ==
  ASSUME NEW E, NEW C, NEW rd \in ReadyOf(E, C), NEW kv \in Seq(E)
  PROVE  installed_kv(kv, rd) \in Seq(E)
  BY DEF installed_kv, ReadyOf, SnapshotOf

\* So does a write that finds the disk full.
LEMMA FullDisksEffect ==
  ASSUME NEW E, NEW C, NEW d \in DiskOf(E, C), NEW rd \in ReadyOf(E, C),
         NEW cut \in Nat, NEW l \in LogOf(E, C), NEW kv \in Seq(E),
         NEW f \in FullDisks(d, rd, cut, l, kv)
  PROVE  /\ f.disk \in DiskOf(E, C) /\ f.disk.hs \in HsAfter(d, rd)
         /\ f.kv \in Seq(E)
<1> DEFINE p == persist(d, rd, cut)
           v == voted(d, rd, cut)
           b == reconciled_base(p, l)
           kv1 == installed_kv(kv, rd)
<1>1. /\ truncated(d, cut) \in DiskOf(E, C) /\ truncated(d, cut).hs = d.hs
      /\ rebased(d, rd, cut) \in DiskOf(E, C) /\ rebased(d, rd, cut).hs = d.hs
      /\ v \in DiskOf(E, C) /\ p \in DiskOf(E, C) /\ p.hs = v.hs
      /\ v.hs = HsWritten(d, rd)
  BY PersistSteps
<1>a. p \in DiskOf(E, C)
  BY Zenon, PersistSteps
<1>2. kv1 \in Seq(E)
  BY InstalledKvType
<1>3. \/ f = [disk |-> truncated(d, cut), kv |-> kv]
      \/ f = [disk |-> rebased(d, rd, cut), kv |-> kv1]
      \/ f = [disk |-> v, kv |-> kv1]
      \/ f = [disk |-> b, kv |-> kv1]
  BY Zenon DEF FullDisks
<1> HIDE DEF p, v, kv1
<1>4. b \in DiskOf(E, C) /\ b.hs = p.hs
  BY <1>a, ReconcileSteps
<1> HIDE DEF b
<1>5. d.hs \in HsAfter(d, rd) /\ v.hs \in HsAfter(d, rd)
  BY <1>1 DEF HsAfter, HsWritten
<1> QED
  BY SMTT(30), <1>1, <1>2, <1>3, <1>4, <1>5

-----------------------------------------------------------------------------
(* Housekeeping.  Within: the commit index is an index of the log. *)

\* maybe_advance_commit commits nothing beyond the log.
LEMMA AdvanceCommitWithin ==
  ASSUME NEW E, NEW C, Universe(E, C), NEW r \in NodeOf(E, C), Within(r)
  PROVE  Within(maybe_advance_commit(r))
<1> DEFINE matched == [s \in Server |->
                         CASE s = r.id -> r.persisted
                           [] s # r.id /\ s \in tracked(r) -> r.progress[s].matched
                           [] OTHER -> 0]
           candidate == quorum_index(config(r.log), matched)
           r1 == [r EXCEPT !.commit = candidate, !.committed_own_term = TRUE,
                           !.hard_state_dirty = TRUE]
<1>1. \A s \in Server : matched[s] \in Nat
  BY SlotFacts DEF Slot, NodeOf
<1>2. maybe_advance_commit(r) =
        IF candidate > r.commit /\ term_at(r.log, candidate) = r.term THEN r1 ELSE r
  BY DEF maybe_advance_commit
<1> HIDE DEF matched
<1>3. candidate \in Nat
  BY <1>1, ConfigInUniverse, QuorumIndexType DEF Universe
<1> HIDE DEF candidate
<1>4. /\ r.log \in LogOf(E, C) /\ r.term \in Nat
      /\ last_index(r.log) \in Nat /\ r.log.snapshot_index \in Nat
      /\ r.log.snapshot_index <= last_index(r.log)
  <2>1. r.log \in LogOf(E, C) /\ r.term \in Nat
    BY DEF NodeOf
  <2> QED
    BY <2>1, LogIndices
<1>5. term_at(r.log, candidate) = r.term => candidate <= last_index(r.log)
  BY <1>3, <1>4 DEF term_at, NoTerm
<1>6. r1.commit = candidate /\ r1.log = r.log
  BY DEF NodeOf
<1> HIDE DEF r1
<1> QED
  BY SMTT(30), <1>2, <1>5, <1>6 DEF Within

\* compact_through leaves the last index alone.
LEMMA CompactThroughLast ==
  ASSUME NEW E, NEW C, NEW l \in LogOf(E, C), NEW through \in Nat, NEW term, NEW cfg
  PROVE  last_index(compact_through(l, through, term, cfg)) = last_index(l)
<1>1. CASE through <= l.snapshot_index
  BY <1>1 DEF compact_through
<1>2. CASE through > l.snapshot_index
  <2> DEFINE keep == IF through < last_index(l) THEN through ELSE last_index(l)
             es == SubSeq(l.entries, keep - l.snapshot_index + 1, Len(l.entries))
             k == compact_through(l, through, term, cfg)
  <2>1. /\ l.snapshot_index \in Nat /\ Len(l.entries) \in Nat
        /\ last_index(l) = l.snapshot_index + Len(l.entries)
        /\ l.entries \in Seq(E)
    BY LogIndices
  <2>2. keep \in Nat /\ keep >= l.snapshot_index /\ keep <= last_index(l)
    BY SMTT(30), <1>2, <2>1
  <2>3. k = [snapshot_index |-> keep, snapshot_term |-> term,
             snapshot_config |-> cfg, entries |-> es]
    BY <1>2, <2>1 DEF compact_through
  <2> HIDE DEF keep
  <2>4. Len(es) = Len(l.entries) - (keep - l.snapshot_index)
    BY SMTT(30), <2>1, <2>2, SubSeqType
  <2> HIDE DEF es, k
  <2>5. last_index(k) = keep + Len(es)
    BY <2>3 DEF last_index
  <2> QED
    BY SMTT(30), <2>1, <2>2, <2>4, <2>5 DEF k
<1> QED
  BY <1>1, <1>2, LogIndices

\* snapshot_at_applied builds a snapshot.
LEMMA SnapshotAtAppliedType ==
  ASSUME NEW E, NEW C, Universe(E, C), NEW r \in NodeOf(E, C), can_snapshot(r),
         NEW kv \in Seq(E)
  PROVE  snapshot_at_applied(r, kv) \in SnapshotOf(E, C)
<1>1. r.applied \in Nat /\ r.log \in LogOf(E, C)
  BY DEF NodeOf
<1>2. term_at(r.log, r.applied) \in Nat
  BY <1>1, TermAtType DEF can_snapshot, Universe
<1>3. config(r.log) \in C
  BY ConfigInUniverse
<1> QED
  BY SMTT(30), <1>1, <1>2, <1>3 DEF snapshot_at_applied, SnapshotOf

\* compact is calm.
LEMMA CompactCalm ==
  ASSUME NEW E, NEW C, NEW r \in NodeOf(E, C), NEW snap \in SnapshotOf(E, C)
  PROVE  /\ compact(r, snap) \in NodeOf(E, C) /\ Calm(r, compact(r, snap))
         /\ compact(r, snap).role = r.role
         /\ Within(r) => Within(compact(r, snap))
<1> DEFINE l == compact_through(r.log, snap.last_index, snap.last_term, snap.config)
<1>1. snap.last_index \in Nat /\ snap.last_term \in Nat /\ snap.config \in C
      /\ r.log \in LogOf(E, C)
  BY DEF SnapshotOf, NodeOf
<1>2. l \in LogOf(E, C) /\ last_index(l) = last_index(r.log)
  BY <1>1, CompactThroughType, CompactThroughLast
<1>3. compact(r, snap) = [r EXCEPT !.log = l]
  BY DEF compact
<1> HIDE DEF l
<1>4. [r EXCEPT !.log = l].commit = r.commit /\ [r EXCEPT !.log = l].log = l
      /\ [r EXCEPT !.log = l].role = r.role
  BY DEF NodeOf
<1> QED
  BY SMTT(30), <1>2, <1>3, <1>4, LogReplacedCalm DEF Within

\* take_snapshot is calm, and leaves the hard state on disk alone.
LEMMA TakeSnapshotEffect ==
  ASSUME NEW E, NEW C, Universe(E, C), NEW r \in NodeOf(E, C), can_snapshot(r),
         NEW d \in DiskOf(E, C), NEW kv \in Seq(E)
  PROVE  Snapped(E, C, r, d, take_snapshot(r, d, kv))
<1> DEFINE snap == snapshot_at_applied(r, kv)
           t == take_snapshot(r, d, kv)
<1>1. snap \in SnapshotOf(E, C)
  BY SnapshotAtAppliedType
<1>2. t.raft = compact(r, snap) /\ t.disk = [d EXCEPT !.snap = snap]
  BY DEF take_snapshot
<1> HIDE DEF snap, t
<1>3. t.disk \in DiskOf(E, C) /\ t.disk.hs = d.hs
  BY SMTT(30), <1>1, <1>2 DEF DiskOf
<1> QED
  BY <1>1, <1>2, <1>3, CompactCalm DEF t, Snapped

\* maybe_finish_config_change is calm.
LEMMA FinishConfigCalm ==
  ASSUME NEW E, NEW C, Universe(E, C), NEW r \in NodeOf(E, C)
  PROVE  /\ maybe_finish_config_change(r) \in NodeOf(E, C)
         /\ Calm(r, maybe_finish_config_change(r))
         /\ Within(r) => Within(maybe_finish_config_change(r))
<1> DEFINE p == propose_config(r, LeaveJoint)
           e == [term |-> r.term, kind |-> LeaveJoint]
<1>1. CASE CanPropose(r, LeaveJoint)
  <2>1. is_joint(config(r.log))
    BY Zenon, <1>1 DEF CanPropose, LeaveJoint
  <2>2. e \in E
    BY <2>1, ConfigInUniverse DEF Universe, NodeOf
  <2>3. p \in NodeOf(E, C) /\ Calm(r, p)
    BY SMTT(30), <2>2, ProposeCalm
  <2>4. Within(r) => Within(p)
    <3> DEFINE l == append(r.log, <<e>>)
    <3>1. p.log = l /\ p.commit = r.commit
      BY Zenon DEF propose_config, broadcast_append, send_append_to,
             reset_progress_for_config, append_to_own_log, mark_dirty, NodeOf
    <3>2. last_index(l) = last_index(r.log) + Len(<<e>>)
      <4>1. r.log \in LogOf(E, C) /\ <<e>> \in Seq(E)
        BY <2>2 DEF NodeOf
      <4> HIDE DEF e
      <4> QED
        BY Zenon, <4>1, AppendType
    <3>3. r.commit \in Nat /\ last_index(r.log) \in Nat
      BY LogIndices DEF NodeOf
    <3> QED
      BY SMTT(60), <3>1, <3>2, <3>3 DEF Within
  <2> QED
    BY SMTT(30), <2>3, <2>4, CalmReflexive DEF maybe_finish_config_change
<1>2. CASE ~CanPropose(r, LeaveJoint)
  BY SMTT(30), <1>2, CalmReflexive DEF maybe_finish_config_change
<1> QED
  BY SMTT(30), <1>1, <1>2

\* send_snapshot is calm.
LEMMA SendSnapshotCalm ==
  ASSUME NEW E, NEW C, NEW r \in NodeOf(E, C), NEW snap \in SnapshotOf(E, C),
         NEW ps \in SUBSET tracked(r)
  PROVE  /\ send_snapshot(r, ps, snap) \in NodeOf(E, C)
         /\ Calm(r, send_snapshot(r, ps, snap))
         /\ Within(r) => Within(send_snapshot(r, ps, snap))
<1> DEFINE f == [s \in Server |->
                   IF s \in ps THEN [r.progress[s] EXCEPT !.pending_snapshot = TRUE,
                                                          !.state = "Snapshot"]
                   ELSE r.progress[s]]
           r1 == [r EXCEPT !.progress = f]
           body == [type |-> "SnapshotReq", snapshot |-> snap]
<1>1. f \in [Server -> Slot \cup {None}]
  <2>1. \A s \in ps : [r.progress[s] EXCEPT !.pending_snapshot = TRUE,
                                            !.state = "Snapshot"] \in Slot
    BY Zenon, SlotFacts, SlotUpdates
  <2> QED
    BY ZenonT(60), <2>1, SlotFacts
<1>2. send_snapshot(r, ps, snap) = send_all(r1, ps, body)
  BY DEF send_snapshot, NodeOf
<1>3. body \in BodyOf(E, C) /\ body.type \notin {"VoteReq", "VoteResp"}
  BY DEF BodyOf
<1>4. ps \in SUBSET Server
  BY SMTT(60), SlotFacts
<1> HIDE DEF f
<1>5. r1 \in NodeOf(E, C) /\ Calm(r, r1) /\ r1.commit = r.commit /\ r1.log = r.log
  BY ZenonT(60), <1>1, ProgressReplacedCalm DEF NodeOf
<1> HIDE DEF r1, body
<1>6. send_all(r1, ps, body).commit = r1.commit /\ send_all(r1, ps, body).log = r1.log
  BY <1>5 DEF send_all, NodeOf
<1> QED
  BY SMTT(30), <1>2, <1>3, <1>4, <1>5, <1>6, SendAllCalm, CalmTransitive DEF Within

\* lead is calm.
LEMMA LeadCalm ==
  ASSUME NEW E, NEW C, Universe(E, C), NEW r \in NodeOf(E, C), NEW kv \in Seq(E)
  PROVE  /\ lead(r, kv) \in NodeOf(E, C) /\ Calm(r, lead(r, kv))
         /\ Within(r) => Within(lead(r, kv))
<1> DEFINE f == maybe_finish_config_change(r)
           ps == followers_needing_snapshot(f)
           snap == snapshot_at_applied(f, kv)
<1>1. f \in NodeOf(E, C) /\ Calm(r, f) /\ (Within(r) => Within(f))
  BY FinishConfigCalm
<1>2. lead(r, kv) = IF can_snapshot(f) THEN send_snapshot(f, ps, snap) ELSE f
  BY DEF lead
<1> HIDE DEF f
<1>3. ps \in SUBSET tracked(f)
  BY DEF followers_needing_snapshot
<1>4. can_snapshot(f) => snap \in SnapshotOf(E, C)
  BY <1>1, SnapshotAtAppliedType
<1> HIDE DEF ps, snap
<1>5. can_snapshot(f) =>
        /\ send_snapshot(f, ps, snap) \in NodeOf(E, C)
        /\ Calm(f, send_snapshot(f, ps, snap))
        /\ Within(f) => Within(send_snapshot(f, ps, snap))
  BY SMTT(30), <1>1, <1>3, <1>4, SendSnapshotCalm
<1> QED
  BY <1>1, <1>2, <1>5, CalmTransitive

\* housekeeping is calm, and leaves the hard state on disk alone.
LEMMA HousekeepingEffect ==
  ASSUME NEW E, NEW C, Universe(E, C), NEW r \in NodeOf(E, C),
         NEW d \in DiskOf(E, C), NEW kv \in Seq(E)
  PROVE  LET h == housekeeping(r, d, kv) IN
           /\ h.raft \in NodeOf(E, C) /\ Calm(r, h.raft)
           /\ Within(r) => Within(h.raft)
           /\ h.disk \in DiskOf(E, C) /\ h.disk.hs = d.hs
<1> DEFINE k == housekeeping(r, d, kv)
           g == IF r.role = "Leader" THEN lead(r, kv) ELSE r
           t == take_snapshot(g, d, kv)
           take == should_snapshot(g) /\ can_snapshot(g) /\ safe_to_compact(g, d)
<1>1. g \in NodeOf(E, C) /\ Calm(r, g) /\ (Within(r) => Within(g))
  BY LeadCalm, CalmReflexive
<1>2. take => k.raft = t.raft /\ k.disk = t.disk
  BY DEF housekeeping, take_snapshot
<1>3. ~take => k.raft = g /\ k.disk = d
  BY DEF housekeeping
<1>4. take => can_snapshot(g)
  OBVIOUS
<1> HIDE DEF g, take, k
<1>5. take => /\ t.raft \in NodeOf(E, C) /\ Calm(g, t.raft)
              /\ Within(g) => Within(t.raft)
              /\ t.disk \in DiskOf(E, C) /\ t.disk.hs = d.hs
  BY SMTT(30), <1>1, <1>4, TakeSnapshotEffect DEF Snapped
<1> HIDE DEF t
<1>6. /\ k.raft \in NodeOf(E, C) /\ Calm(r, k.raft)
      /\ Within(r) => Within(k.raft)
      /\ k.disk \in DiskOf(E, C) /\ k.disk.hs = d.hs
  BY SMTT(30), <1>1, <1>2, <1>3, <1>5, CalmTransitive
<1> QED
  BY <1>6 DEF k

-----------------------------------------------------------------------------
(* The turn *)

\* set_persisted is calm, and commits nothing beyond the log.
LEMMA SetPersistedEffect ==
  ASSUME NEW E, NEW C, NEW r \in NodeOf(E, C), NEW index \in Nat
  PROVE  LET r1 == set_persisted(r, index) IN
           /\ r1 \in NodeOf(E, C) /\ Calm(r, r1) /\ r1.role = r.role
           /\ Within(r) => Within(r1)
<1> DEFINE k == IF index < last_index(r.log) THEN index ELSE last_index(r.log)
           r2 == [r EXCEPT !.persisted = k]
<1>1. k \in Nat
  BY LogIndices DEF NodeOf
<1>2. set_persisted(r, index) = r2
  BY DEF set_persisted
<1> HIDE DEF k
<1>3. /\ r2 \in NodeOf(E, C) /\ Calm(r, r2) /\ r2.role = r.role
      /\ r2.log = r.log /\ r2.commit = r.commit
  BY <1>1 DEF NodeOf, Calm, NoBallots
<1> HIDE DEF r2
<1> QED
  BY SMTT(30), <1>2, <1>3 DEF Within

\* advance is calm, and commits nothing beyond the log.
LEMMA AdvanceEffect ==
  ASSUME NEW E, NEW C, Universe(E, C), NEW r \in NodeOf(E, C),
         NEW rd \in ReadyOf(E, C)
  PROVE  /\ advance(r, rd) \in NodeOf(E, C)
         /\ acknowledged(r, rd) \in NodeOf(E, C)
         /\ Calm(acknowledged(r, rd), advance(r, rd))
         /\ Within(r) => Within(advance(r, rd))
<1> DEFINE s == acknowledged(r, rd)
           q == [s.progress[r.id] EXCEPT !.matched = r.persisted,
                                         !.next = r.persisted + 1]
           n == IF r.id \in tracked(r) THEN [s EXCEPT !.progress[r.id] = q] ELSE s
           g == IF r.role = "Leader" THEN maybe_advance_commit(n) ELSE n
           a == IF rd.committed = <<>> THEN g.applied ELSE r.commit
           v == [g EXCEPT !.applied = a, !.dirty_from = 0]
<1>1. /\ s \in NodeOf(E, C) /\ s.id = r.id /\ s.progress = r.progress
      /\ s.commit = r.commit /\ s.log = r.log
  <2>1. CASE rd.hard_state = None
    BY <2>1 DEF acknowledged
  <2>2. CASE rd.hard_state # None
    <3> DEFINE hs == [term |-> rd.hard_state.term, vote |-> rd.hard_state.vote]
    <3>1. hs \in [term : Nat, vote : Vote]
      BY <2>2 DEF ReadyOf, HardStates
    <3>2. s = [r EXCEPT !.persisted_hs = hs]
      BY <2>2 DEF acknowledged
    <3> HIDE DEF hs, s
    <3> QED
      BY SMTT(30), <3>1, <3>2 DEF NodeOf
  <2> QED
    BY <2>1, <2>2
<1>2. advance(r, rd) = v
  <2>1. s = IF rd.hard_state = None THEN r
            ELSE [r EXCEPT !.persisted_hs = [term |-> rd.hard_state.term,
                                             vote |-> rd.hard_state.vote]]
    BY DEF acknowledged
  <2> HIDE DEF s
  <2>2. n = IF r.id \in tracked(r)
            THEN [s EXCEPT !.progress[r.id] =
                    [@ EXCEPT !.matched = r.persisted, !.next = r.persisted + 1]]
            ELSE s
    OBVIOUS
  <2> HIDE DEF n
  <2> QED
    BY <2>1, <2>2 DEF advance
<1>3. r.id \in Server /\ r.persisted \in Nat /\ r.commit \in Nat
  BY SMTT(60) DEF NodeOf
<1>4. r.id \in tracked(r) => q \in Slot
  BY ZenonT(60), <1>1, <1>3, SlotFacts, SlotUpdates
<1> HIDE DEF q, s
<1>5. n \in NodeOf(E, C) /\ Calm(s, n) /\ n.commit = s.commit /\ n.log = s.log
  <2> DEFINE w == [s EXCEPT !.progress[r.id] = q]
  <2>1. CASE r.id \in tracked(r)
    <3>1. w \in NodeOf(E, C) /\ Calm(s, w)
      BY SMTT(30), <1>1, <1>3, <1>4, <2>1, SlotReplacedCalm
    <3>2. w.commit = s.commit /\ w.log = s.log
      BY <1>1 DEF NodeOf
    <3> QED
      BY SMTT(30), <2>1, <3>1, <3>2
  <2>2. CASE r.id \notin tracked(r)
    BY <1>1, <2>2, CalmReflexive
  <2> QED
    BY <2>1, <2>2
<1> HIDE DEF n
<1>6. g \in NodeOf(E, C) /\ Calm(n, g) /\ (Within(n) => Within(g))
  BY ZenonT(60), <1>5, AdvanceCommitCalm, AdvanceCommitWithin, CalmReflexive
<1> HIDE DEF g
<1>7. a \in Nat
  BY SMTT(30), <1>3, <1>6 DEF NodeOf
<1> HIDE DEF a
<1>8. v \in NodeOf(E, C) /\ Calm(g, v) /\ v.commit = g.commit /\ v.log = g.log
  BY ZenonT(60), <1>6, <1>7 DEF NodeOf, Calm, NoBallots
<1> HIDE DEF v
<1>9. Calm(s, v)
  BY <1>1, <1>5, <1>6, <1>8, CalmTransitive
<1>10. Within(r) => Within(v)
  BY <1>1, <1>5, <1>6, <1>8 DEF Within
<1> QED
  BY SMTT(30), <1>1, <1>2, <1>8, <1>9, <1>10 DEF s

\* Acknowledging the hard state keeps a calm step calm.
LEMMA AcknowledgedCalm ==
  ASSUME NEW E, NEW C, NEW r \in NodeOf(E, C), NEW r1 \in NodeOf(E, C),
         NEW rd \in ReadyOf(E, C), Calm(r, r1)
  PROVE  Calm(acknowledged(r, rd), acknowledged(r1, rd))
  BY DEF acknowledged, NodeOf, Calm, NoBallots

\* A whole turn of the driver leaves a node and a disk again, no vote is cast
\* in it, and the hard state on disk is the one ready handed over.
LEMMA CycleEffect ==
  ASSUME NEW E, NEW C, Universe(E, C), NEW r \in NodeOf(E, C),
         NEW d \in DiskOf(E, C), NEW kv \in Seq(E)
  PROVE  Cycled(E, C, r, d, cycle(r, d, kv))
<1> DEFINE rd == ready(r)
           r1 == after_ready(r)
           p == persist(d, rd, r.dirty_from)
           d1 == reconcile(p, r1.log)
           s1 == installed_kv(kv, rd) \o rd.committed
           q == set_persisted(r1, wal_last_index(d1.wal))
           r2 == advance(q, rd)
           h == housekeeping(r2, d1, s1)
           c == cycle(r, d, kv)
<1>1. c.raft = h.raft /\ c.disk = h.disk /\ c.kv = s1 /\ c.written = d1
  BY DEF cycle
<1>2. rd \in ReadyOf(E, C) /\ r.dirty_from \in Nat
  BY Zenon, ReadyEffect DEF NodeOf
<1>3. /\ r1 \in NodeOf(E, C) /\ emptied(r) \in NodeOf(E, C)
      /\ Calm(emptied(r), r1) /\ Within(r1) /\ r1.log \in LogOf(E, C)
  <2> HIDE DEF r1
  <2>1. /\ r1 \in NodeOf(E, C) /\ emptied(r) \in NodeOf(E, C)
        /\ Calm(emptied(r), r1) /\ r1.log = r.log
        /\ r1.commit \in 0 .. last_index(r.log)
    BY AfterReadyCalm DEF r1
  <2>2. r1.log \in LogOf(E, C)
    BY <2>1 DEF NodeOf
  <2>3. last_index(r.log) \in Nat
    BY SMTT(30), <2>1, <2>2, LogIndices
  <2> QED
    BY <2>1, <2>2, <2>3 DEF Within
<1>4. wiped(r) = acknowledged(emptied(r), rd)
  BY DEF wiped
<1> HIDE DEF rd, r1, h, c
<1>5. p \in DiskOf(E, C) /\ p.hs = HsWritten(d, rd)
  BY ZenonT(60), <1>2, PersistEffect
<1> HIDE DEF p
<1>6. d1 \in DiskOf(E, C) /\ d1.hs = p.hs
  BY SMTT(60), <1>3, <1>5, ReconcileSteps
<1> HIDE DEF d1
<1>7. s1 \in Seq(E)
  BY <1>2, InstalledKvType DEF ReadyOf
<1>8. wal_last_index(d1.wal) \in Nat
  BY <1>6, DiskFields
<1> HIDE DEF s1
<1>9. q \in NodeOf(E, C) /\ Calm(r1, q) /\ Within(q)
  BY ZenonT(60), <1>3, <1>8, SetPersistedEffect
<1> HIDE DEF q
<1>10. /\ r2 \in NodeOf(E, C) /\ Within(r2)
       /\ acknowledged(q, rd) \in NodeOf(E, C)
       /\ Calm(acknowledged(q, rd), r2)
  BY ZenonT(60), <1>2, <1>9, AdvanceEffect
<1> HIDE DEF r2
<1>11. /\ h.raft \in NodeOf(E, C) /\ Calm(r2, h.raft) /\ Within(h.raft)
       /\ h.disk \in DiskOf(E, C) /\ h.disk.hs = d1.hs
  <2>1. /\ r2 \in NodeOf(E, C) /\ Within(r2) /\ d1 \in DiskOf(E, C) /\ s1 \in Seq(E)
        /\ h = housekeeping(r2, d1, s1)
    BY Zenon, <1>6, <1>7, <1>10 DEF h
  <2> QED
    BY <2>1, HousekeepingEffect
<1>12. Calm(emptied(r), q)
  BY ZenonT(60), <1>3, <1>9, CalmTransitive
<1>13. wiped(r) \in NodeOf(E, C)
  BY ZenonT(60), <1>2, <1>3, <1>4, AdvanceEffect
<1>14. Calm(wiped(r), acknowledged(q, rd))
  BY ZenonT(60), <1>2, <1>3, <1>4, <1>9, <1>12, AcknowledgedCalm
<1>15. Calm(wiped(r), r2)
  BY ZenonT(60), <1>10, <1>13, <1>14, CalmTransitive
<1>16. Calm(wiped(r), h.raft)
  BY ZenonT(60), <1>10, <1>11, <1>13, <1>15, CalmTransitive
<1> QED
  BY Zenon, <1>1, <1>5, <1>6, <1>7, <1>11, <1>13, <1>16 DEF c, rd, Cycled

\* Restarting gives a node whose state machine has its type.
LEMMA RecoveredKvType ==
  ASSUME NEW E, NEW C, NEW d \in DiskOf(E, C)
  PROVE  recovered_kv(d) \in Seq(E)
  BY DEF recovered_kv, DiskOf, SnapshotOf

-----------------------------------------------------------------------------
(* The laws *)

\* The handlers, the driver and recovery obey the laws.
LEMMA LawsHold ==
  ASSUME NEW E, NEW C, Universe(E, C)
  PROVE  Laws(E, C)
<1>1. CalmLaw(E, C)
  BY Zenon, CalmReflexive, CalmTransitive, CalmThenRuns DEF CalmLaw
<1>2. SendLaw(E, C)
  BY Zenon, SendCalm DEF SendLaw
<1>3. StepDownLaw(E, C)
  BY Zenon, StepDownCalm DEF StepDownLaw
<1>4. StartElectionLaw(E, C)
  BY Zenon, StartElectionEffect DEF StartElectionLaw
<1>5. LeaderTickLaw(E, C)
  BY Zenon, LeaderTickCalm DEF LeaderTickLaw
<1>6. ProposeLaw(E, C)
  BY Zenon, ProposeCalm DEF ProposeLaw
<1>7. ReadIndexLaw(E, C)
  BY Zenon, ReadIndexCalm DEF ReadIndexLaw
<1>8. ObserveTermLaw(E, C)
  BY ObserveTermCalm DEF ObserveTermLaw
<1>9. RejectStaleLaw(E, C)
  BY Zenon, RejectStaleCalm DEF RejectStaleLaw
<1>10. PreVoteReqLaw(E, C)
  BY Zenon, PreVoteReqCalm DEF PreVoteReqLaw
<1>11. PreVoteRespLaw(E, C)
  BY Zenon, PreVoteRespEffect DEF PreVoteRespLaw
<1>12. VoteReqLaw(E, C)
  BY Zenon, VoteReqEffect DEF VoteReqLaw
<1>13. VoteRespLaw(E, C)
  BY Zenon, VoteRespEffect DEF VoteRespLaw
<1>14. HandleAppendLaw(E, C)
  BY Zenon, HandleAppendCalm DEF HandleAppendLaw
<1>15. AppendRespLaw(E, C)
  BY Zenon, AppendRespCalm DEF AppendRespLaw
<1>16. HandleSnapshotLaw(E, C)
  BY Zenon, HandleSnapshotCalm DEF HandleSnapshotLaw
<1>17. SnapshotRespLaw(E, C)
  BY Zenon, SnapshotRespCalm DEF SnapshotRespLaw
<1>18. HandleHeartbeatLaw(E, C)
  BY Zenon, HandleHeartbeatCalm DEF HandleHeartbeatLaw
<1>19. HeartbeatRespLaw(E, C)
  BY Zenon, HeartbeatRespCalm DEF HeartbeatRespLaw
<1>20. TimeoutNowLaw(E, C)
  BY Zenon, TimeoutNowEffect DEF TimeoutNowLaw
<1>21. ReadyLaw(E, C)
  BY Zenon, ReadyEffect, AfterReadyCalm DEF ReadyLaw
<1>22. VotedLaw(E, C)
  BY Zenon, VotedEffect DEF VotedLaw
<1>23. TornDisksLaw(E, C)
  BY Zenon, TornDisksEffect DEF TornDisksLaw
<1>24. FullDisksLaw(E, C)
  BY Zenon, FullDisksEffect DEF FullDisksLaw
<1>25. InstalledKvLaw(E, C)
  BY Zenon, InstalledKvType DEF InstalledKvLaw
<1>26. TakeSnapshotLaw(E, C)
  BY Zenon, TakeSnapshotEffect DEF TakeSnapshotLaw
<1>27. CycleLaw(E, C)
  BY Zenon, CycleEffect DEF CycleLaw
<1>28. RecoverLaw(E, C)
  BY Zenon, RecoverEffect, RecoveredKvType DEF RecoverLaw
<1> QED
  BY Zenon, <1>1, <1>2, <1>3, <1>4, <1>5, <1>6, <1>7, <1>8, <1>9, <1>10, <1>11, <1>12, <1>13, <1>14, <1>15, <1>16, <1>17, <1>18, <1>19, <1>20, <1>21, <1>22, <1>23, <1>24, <1>25, <1>26, <1>27, <1>28 DEF Laws
=============================================================================
