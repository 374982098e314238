--------------------------- MODULE ContractProofs ---------------------------
(***************************************************************************)
(* Proofs about two parts that promise something to whoever relies on them: *)
(* the write-ahead log, by its abstract specification, which module Wal is  *)
(* checked to implement; and the liveness watchdog of the test harness.     *)
(***************************************************************************)
EXTENDS Watchdog, TLAPS

\* The log on disk and what was promised of it.
CONSTANT Value
VARIABLES log, safe, snap
Log == INSTANCE DurableLog

-----------------------------------------------------------------------------
(* The durable log: module DurableLog *)

TypeOK == log \in Seq(Log!Entry) /\ safe \in Nat /\ snap \in Nat

IInv == TypeOK /\ Log!NoHole /\ Log!PromisesKept

\* A record written at the end keeps the indices consecutive.
LEMMA WriteKeeps ==
  IInv /\ Log!Write => IInv'
<1> SUFFICES ASSUME IInv, Log!Write PROVE IInv'
  OBVIOUS
<1> DEFINE n == Len(log)
           e == log'[n + 1]
<1>1. n \in Nat /\ e \in Log!Entry /\ e.seq \in Nat /\ log' = Append(log, e)
  BY DEF IInv, TypeOK, Log!Write, Log!Entry
<1>2. /\ log' \in Seq(Log!Entry) /\ Len(log') = n + 1
      /\ \A k \in 1 .. n : log'[k] = log[k]
  BY <1>1 DEF IInv, TypeOK
<1>3. safe' = safe /\ snap' = snap
  BY DEF Log!Write
<1>4. Log!NoHole'
  <2>1. CASE log = <<>>
    <3>1. n = 0 /\ e.seq <= snap + 1
      BY <2>1 DEF Log!Write
    <3> QED
      BY <3>1, <1>1, <1>2, <1>3 DEF Log!NoHole
  <2>2. CASE log # <<>>
    <3>1. n > 0 /\ e.seq = log[n].seq + 1
      BY <2>2, <1>1 DEF Log!Write, IInv, TypeOK
    <3>2. log[n].seq = log[1].seq + n - 1 /\ log[1] \in Log!Entry
      BY <3>1, <1>1 DEF IInv, Log!NoHole, TypeOK
    <3>3. log[1].seq \in Nat
      BY <3>2 DEF Log!Entry
    <3> HIDE DEF n, e
    <3>4. log'[1] = log[1] /\ log'[n + 1] = e
      BY <1>1, <1>2, <3>1 DEF e
    <3>5. \A k \in 1 .. n : log[k].seq = log[1].seq + k - 1
      BY DEF IInv, Log!NoHole, n
    <3>6. \A k \in 1 .. n + 1 : log'[k].seq = log'[1].seq + k - 1
      <4>1. n \in Nat /\ e.seq = log[1].seq + n /\ log[1].seq \in Nat
        BY <1>1, <3>1, <3>2, <3>3
      <4>2. ASSUME NEW k \in 1 .. n PROVE log'[k].seq = log'[1].seq + k - 1
        BY Zenon, <1>2, <3>4, <3>5
      <4>3. log'[n + 1].seq = log'[1].seq + (n + 1) - 1
        BY <3>4, <4>1
      <4>4. \A k \in 1 .. n + 1 : k \in 1 .. n \/ k = n + 1
        BY <4>1
      <4> QED
        BY Zenon, <4>2, <4>3, <4>4
    <3>7. log'[1].seq <= snap' + 1
      BY <2>2, <1>3, <3>4 DEF IInv, Log!NoHole
    <3> QED
      BY <1>2, <3>6, <3>7 DEF Log!NoHole
  <2> QED
    BY <2>1, <2>2
<1>5. Log!PromisesKept'
  BY <1>1, <1>2, <1>3 DEF IInv, Log!PromisesKept, Log!Covers
<1> QED
  BY <1>2, <1>3, <1>4, <1>5 DEF IInv, TypeOK

\* A barrier promises what consecutive indices say is there.
LEMMA PromiseKeeps ==
  IInv /\ Log!Promise => IInv'
<1> SUFFICES ASSUME IInv, Log!Promise PROVE IInv'
  OBVIOUS
<1>1. UNCHANGED <<log, snap>>
  BY DEF Log!Promise
<1>2. CASE log = <<>>
  BY <1>1, <1>2 DEF IInv, Log!Promise, TypeOK, Log!NoHole, Log!PromisesKept, Log!Covers
<1>3. CASE log # <<>>
  <2> DEFINE n == Len(log)
  <2>1. n \in Nat /\ n > 0 /\ log[n] \in Log!Entry /\ log[1] \in Log!Entry
    BY <1>3 DEF IInv, TypeOK
  <2>2. safe' = log[n].seq /\ safe' \in Nat /\ log[1].seq \in Nat
    BY <1>3, <2>1 DEF Log!Promise, Log!Entry
  <2>3. log[n].seq = log[1].seq + n - 1 /\ log[1].seq <= snap + 1
    BY <1>3, <2>1 DEF IInv, Log!NoHole
  <2>4. ASSUME NEW i \in (snap + 1) .. safe'
        PROVE  \E k \in 1 .. n : log[k].seq = i
    <3> DEFINE k == i - log[1].seq + 1
    <3>1. k \in 1 .. n /\ i = log[1].seq + k - 1
      BY <2>1, <2>2, <2>3 DEF IInv, TypeOK
    <3>2. log[k].seq = i
      BY <3>1 DEF IInv, Log!NoHole
    <3> QED
      BY <3>1, <3>2
  <2> QED
    BY <1>1, <2>2, <2>4 DEF IInv, TypeOK, Log!NoHole, Log!PromisesKept, Log!Covers
<1> QED
  BY <1>2, <1>3

\* What a cut or a crash leaves is consecutive and covers the promises.
LEMMA LoseKeeps ==
  IInv /\ Log!Lose => IInv'
<1> SUFFICES ASSUME IInv, Log!Lose PROVE IInv'
  OBVIOUS
<1>1. PICK n \in 0 .. Len(log) : Log!Covers(n) /\ log' = SubSeq(log, 1, n)
  BY DEF Log!Lose
<1>2. /\ log' \in Seq(Log!Entry) /\ Len(log') = n
      /\ \A k \in 1 .. n : log'[k] = log[k]
  BY <1>1 DEF IInv, TypeOK
<1>3. safe' = safe /\ snap' = snap
  BY DEF Log!Lose
<1>4. \A k \in 1 .. n : log'[k].seq = log'[1].seq + k - 1
  <2>1. ASSUME NEW k \in 1 .. n
        PROVE  1 \in 1 .. n /\ k \in 1 .. Len(log)
    BY DEF IInv, TypeOK
  <2> QED
    BY <1>2, <2>1 DEF IInv, Log!NoHole
<1>5. log' # <<>> => log'[1].seq <= snap' + 1
  BY <1>1, <1>2, <1>3 DEF IInv, Log!NoHole, TypeOK
<1>6. Log!PromisesKept'
  BY <1>1, <1>2, <1>3 DEF Log!PromisesKept, Log!Covers
<1> QED
  BY <1>2, <1>3, <1>4, <1>5, <1>6 DEF IInv, TypeOK, Log!NoHole

\* Compaction removes nothing above the snapshot.
LEMMA CompactKeeps ==
  IInv /\ Log!Compact => IInv'
<1> SUFFICES ASSUME IInv, Log!Compact PROVE IInv'
  OBVIOUS
<1>1. PICK n \in 1 .. Len(log) : /\ \A k \in 1 .. n : log[k].seq < snap
                                 /\ log' = SubSeq(log, n + 1, Len(log))
  BY DEF Log!Compact
<1> DEFINE l == Len(log)
<1>2. /\ log' \in Seq(Log!Entry) /\ Len(log') = l - n /\ l \in Nat
      /\ \A k \in 1 .. l - n : log'[k] = log[n + k]
  BY <1>1 DEF IInv, TypeOK
<1>3. safe' = safe /\ snap' = snap
  BY DEF Log!Compact
<1>4. \A k \in 1 .. l : log[k].seq = log[1].seq + k - 1
  BY DEF IInv, Log!NoHole
<1>5. log[1].seq \in Nat
  <2>1. log[1] \in Log!Entry
    BY <1>1 DEF IInv, TypeOK
  <2> QED
    BY <2>1 DEF Log!Entry
<1>6. ASSUME NEW k \in 1 .. l - n
      PROVE  log'[k].seq = log'[1].seq + k - 1
  <2>1. k \in Nat /\ 1 \in 1 .. l - n /\ n + k \in 1 .. l /\ n + 1 \in 1 .. l
    BY <1>2
  <2>2. log'[k].seq = log[1].seq + (n + k) - 1 /\ log'[1].seq = log[1].seq + (n + 1) - 1
    BY Zenon, <1>2, <1>4, <2>1
  <2>3. n \in Nat
    BY <1>1
  <2>4. log[1].seq + (n + k) - 1 = (log[1].seq + (n + 1) - 1) + k - 1
    BY <1>5, <2>1, <2>3
  <2> QED
    BY Zenon, <2>2, <2>4
<1>7. log' # <<>> => log'[1].seq <= snap' + 1
  <2> SUFFICES ASSUME log' # <<>> PROVE log'[1].seq <= snap' + 1
    OBVIOUS
  <2>1. l - n >= 1 /\ n \in 1 .. l /\ n + 1 \in 1 .. l
    BY <1>2
  <2>2. log'[1] = log[n + 1] /\ log[n + 1].seq = log[1].seq + n
    BY <1>2, <1>4, <2>1
  <2>3. log[n].seq = log[1].seq + n - 1 /\ log[n].seq < snap
    BY <1>1, <1>4, <2>1
  <2> QED
    BY <1>3, <1>5, <2>2, <2>3 DEF IInv, TypeOK
<1>8. Log!PromisesKept'
  <2> SUFFICES ASSUME NEW i \in (snap + 1) .. safe
               PROVE  \E k \in 1 .. l - n : log'[k].seq = i
    BY <1>2, <1>3 DEF Log!PromisesKept, Log!Covers
  <2>1. PICK k \in 1 .. l : log[k].seq = i
    BY DEF IInv, Log!PromisesKept, Log!Covers
  <2>2. k > n
    BY <1>1, <2>1 DEF IInv, TypeOK
  <2>3. k - n \in 1 .. l - n /\ n + (k - n) = k
    BY <1>2, <2>2
  <2>4. log'[k - n] = log[k]
    BY <1>2, <2>3
  <2> QED
    BY <2>1, <2>3, <2>4
<1> QED
  BY <1>2, <1>3, <1>6, <1>7, <1>8 DEF IInv, TypeOK, Log!NoHole

\* Every step keeps the invariant.
LEMMA StepKeeps ==
  IInv /\ [Log!Next]_(Log!vars) => IInv'
<1> SUFFICES ASSUME IInv, [Log!Next]_(Log!vars) PROVE IInv'
  OBVIOUS
<1>1. CASE Log!Withdraw
  BY <1>1 DEF IInv, Log!Withdraw, TypeOK, Log!NoHole, Log!PromisesKept, Log!Covers
<1>2. CASE Log!Snapshot
  <2>1. log' = log /\ safe' = safe /\ snap' \in Nat /\ snap' >= snap
    BY <1>2 DEF Log!Snapshot
  <2>2. log # <<>> => log[1].seq \in Nat
    <3>1. log # <<>> => log[1] \in Log!Entry
      BY DEF IInv, TypeOK
    <3> QED
      BY <3>1 DEF Log!Entry
  <2>3. Log!NoHole'
    BY <2>1, <2>2 DEF IInv, TypeOK, Log!NoHole
  <2>4. Log!PromisesKept'
    BY <2>1 DEF IInv, TypeOK, Log!PromisesKept, Log!Covers
  <2> QED
    BY <2>1, <2>3, <2>4 DEF IInv, TypeOK
<1>3. CASE UNCHANGED Log!vars
  BY <1>3 DEF IInv, Log!vars, TypeOK, Log!NoHole, Log!PromisesKept, Log!Covers
<1> QED
  BY <1>1, <1>2, <1>3, WriteKeeps, PromiseKeeps, LoseKeeps, CompactKeeps DEF Log!Next

\* The log of Wal, as any crash leaves it, has no hole and holds everything a
\* completed fsync acknowledged (tests/wal.rs).
THEOREM DurableLogSafe == Log!Spec => [](Log!NoHole /\ Log!PromisesKept)
<1>1. Log!Init => IInv
  BY DEF Log!Init, IInv, TypeOK, Log!NoHole, Log!PromisesKept, Log!Covers
<1> QED
  BY <1>1, StepKeeps, PTL DEF Log!Spec, IInv

\* An entry that was promised and still is, and that no snapshot stands for,
\* is in the log after every step, crashes included, exactly as it was.
THEOREM DurableLogStays == Log!Spec => Log!PromisedEntriesStay
<1> DEFINE Stays == \A k \in 1 .. Len(log) :
                      log[k].seq \in (snap' + 1) .. safe' /\ log[k].seq <= safe =>
                        \E j \in 1 .. Len(log') : log'[j] = log[k]
<1>1. Log!Init => IInv
  BY DEF Log!Init, IInv, TypeOK, Log!NoHole, Log!PromisesKept, Log!Covers
<1>2. IInv /\ [Log!Next]_(Log!vars) => Stays
  <2> SUFFICES ASSUME IInv, [Log!Next]_(Log!vars),
                      NEW k \in 1 .. Len(log),
                      log[k].seq \in (snap' + 1) .. safe', log[k].seq <= safe
               PROVE  \E j \in 1 .. Len(log') : log'[j] = log[k]
    OBVIOUS
  <2>1. CASE log' = log
    BY <2>1
  <2>2. CASE Log!Write
    <3>1. Len(log') = Len(log) + 1 /\ log' = Append(log, log'[Len(log) + 1])
      BY <2>2 DEF Log!Write
    <3>2. log'[k] = log[k] /\ k \in 1 .. Len(log')
      BY <3>1 DEF IInv, TypeOK
    <3> QED
      BY <3>2
  <2>3. CASE Log!Lose
    <3>1. PICK n \in 0 .. Len(log) : Log!Covers(n) /\ log' = SubSeq(log, 1, n)
      BY <2>3 DEF Log!Lose
    <3>2. snap' = snap /\ safe' = safe
      BY <2>3 DEF Log!Lose
    <3>3. PICK j \in 1 .. n : log[j].seq = log[k].seq
      BY <3>1, <3>2 DEF Log!Covers
    <3>4. j \in 1 .. Len(log) /\ log[1] \in Log!Entry
      BY DEF IInv, TypeOK
    <3>5. log[1].seq + j - 1 = log[1].seq + k - 1 /\ log[1].seq \in Nat
      BY <3>3, <3>4 DEF IInv, Log!NoHole, Log!Entry
    <3>6. j = k
      BY <3>4, <3>5
    <3>7. j \in 1 .. Len(log') /\ log'[j] = log[j]
      BY <3>1 DEF IInv, TypeOK
    <3> QED
      BY <3>6, <3>7
  <2>4. CASE Log!Compact
    <3>1. PICK n \in 1 .. Len(log) : /\ \A i \in 1 .. n : log[i].seq < snap
                                     /\ log' = SubSeq(log, n + 1, Len(log))
      BY <2>4 DEF Log!Compact
    <3>2. snap' = snap /\ log[k].seq > snap /\ log[k].seq \in Int
      BY <2>4 DEF Log!Compact, IInv, TypeOK
    <3>3. k > n
      BY <3>1, <3>2 DEF IInv, TypeOK
    <3>4. k - n \in 1 .. Len(log') /\ log'[k - n] = log[k]
      BY <3>1, <3>3 DEF IInv, TypeOK
    <3> QED
      BY <3>4
  <2> QED
    BY <2>1, <2>2, <2>3, <2>4 DEF Log!Next, Log!vars, Log!Promise, Log!Withdraw, Log!Snapshot
<1> QED
  BY <1>1, <1>2, StepKeeps, PTL DEF Log!Spec, Log!PromisedEntriesStay

-----------------------------------------------------------------------------
(* The liveness watchdog: module Watchdog *)

\* A new view leaves the earlier ones where they were.
LEMMA Appended ==
  ASSUME seen \in Seq(Views), NEW v \in Views, seen' = Append(seen, v)
  PROVE  /\ seen' \in Seq(Views)
         /\ Len(seen) \in Nat /\ Len(seen') = Len(seen) + 1
         /\ seen'[Len(seen) + 1] = v
         /\ \A k \in 1 .. Len(seen) : seen'[k] = seen[k]
  OBVIOUS

\* The domain of progress, and what one view does to its entries.
LEMMA ProgressedIs ==
  ASSUME Measured, ClocksTyped, NEW v \in Views
  PROVE  LET p == progressed(v)
             now1 == Len(seen) + 1
         IN  /\ DOMAIN p = DOMAIN progress \cup live(v)
             /\ DOMAIN p \subseteq Node
             /\ \A n \in DOMAIN p :
                  \/ /\ n \in live(v)
                     /\ n \in DOMAIN progress => v.node[n].last > progress[n].last
                     /\ p[n] = [last |-> v.node[n].last, at |-> now1]
                  \/ /\ n \in DOMAIN progress
                     /\ n \in live(v) => v.node[n].last <= progress[n].last
                     /\ p[n] = progress[n]
  BY DEF progressed, now, Measured, ClocksTyped, live

LEMMA ClocksTypedStep ==
  ASSUME Measured, ClocksTyped, NEW v \in Views, observe(v)
  PROVE  ClocksTyped'
<1>1. /\ seen' \in Seq(Views) /\ Len(seen) \in Nat /\ Len(seen') = Len(seen) + 1
  BY Appended DEF ClocksTyped, observe
<1>2. CASE disrupted(v)
  <2>1. /\ saw_leader_at' \in 0 .. Len(seen') /\ commit_moved_at' \in 0 .. Len(seen')
    BY <1>1, <1>2 DEF disrupted, now
  <2>2. progress' = [n \in DOMAIN progress |-> [progress[n] EXCEPT !.at = Len(seen) + 1]]
    BY <1>2 DEF disrupted, now
  <2>3. ASSUME NEW n \in DOMAIN progress'
        PROVE  /\ progress'[n] = [last |-> progress[n].last, at |-> Len(seen) + 1]
               /\ progress[n].last \in Nat
    BY <2>2 DEF ClocksTyped
  <2> QED BY <1>1, <2>1, <2>2, <2>3 DEF ClocksTyped
<1>3. CASE cooperating(v)
  <2>1. /\ saw_leader_at' \in 0 .. Len(seen') /\ commit_moved_at' \in 0 .. Len(seen')
    BY <1>1, <1>3 DEF cooperating, now, ClocksTyped
  <2>2. progress' = progressed(v)
    BY <1>3 DEF cooperating
  <2>3. ASSUME NEW n \in DOMAIN progress'
        PROVE  /\ progress'[n] = [last |-> progress'[n].last, at |-> progress'[n].at]
               /\ progress'[n].last \in Nat /\ progress'[n].at \in 1 .. Len(seen')
    <3>1. CASE n \in live(v) /\ progress'[n] = [last |-> v.node[n].last, at |-> Len(seen) + 1]
      <4>1. v.node[n].last \in Nat
        BY <3>1 DEF Measured, live
      <4> QED BY <1>1, <3>1, <4>1
    <3>2. CASE n \in DOMAIN progress /\ progress'[n] = progress[n]
      BY <1>1, <3>2 DEF ClocksTyped
    <3> QED BY Zenon, <2>2, <3>1, <3>2, ProgressedIs
  <2> QED BY Zenon, <1>1, <2>1, <2>2, <2>3, ProgressedIs DEF ClocksTyped
<1> QED BY <1>2, <1>3 DEF observe

LEMMA ElectionClockStep ==
  ASSUME ClocksTyped, ElectionClock, NEW v \in Views, observe(v)
  PROVE  ElectionClock'
<1>1. /\ Len(seen) \in Nat /\ Len(seen') = Len(seen) + 1 /\ seen'[Len(seen) + 1] = v
      /\ \A k \in 1 .. Len(seen) : seen'[k] = seen[k]
  BY Appended DEF ClocksTyped, observe
<1>2. CASE ~ healthy(v)
  BY <1>1, <1>2 DEF observe, disrupted, now, ElectionClock, Healthy
<1>3. CASE healthy(v) /\ leaders(v) # {}
  BY <1>1, <1>3 DEF observe, cooperating, now, ElectionClock, Healthy
<1>4. CASE healthy(v) /\ leaders(v) = {}
  <2>1. saw_leader_at' = saw_leader_at
    BY <1>4 DEF observe, cooperating
  <2>2. ASSUME NEW k \in saw_leader_at + 1 .. Len(seen) + 1
        PROVE  healthy(seen'[k]) /\ leaders(seen'[k]) = {}
    <3>1. CASE k = Len(seen) + 1
      BY <1>1, <1>4, <3>1
    <3>2. CASE k \in 1 .. Len(seen) /\ k \in saw_leader_at + 1 .. Len(seen)
      BY Zenon, <1>1, <3>2 DEF ElectionClock, Healthy
    <3> QED BY <1>1, <3>1, <3>2 DEF ClocksTyped
  <2>3. saw_leader_at > 0 => saw_leader_at \in 1 .. Len(seen)
    BY <1>1 DEF ClocksTyped
  <2>4. saw_leader_at > 0 /\ healthy(seen'[saw_leader_at])
          => leaders(seen'[saw_leader_at]) # {}
    BY <1>1, <2>3 DEF ElectionClock, Healthy
  <2> QED
    BY <1>1, <2>1, <2>2, <2>4 DEF ElectionClock, Healthy
<1> QED BY <1>2, <1>3, <1>4

LEMMA CommitClockStep ==
  ASSUME ClocksTyped, CommitClock, NEW v \in Views, observe(v)
  PROVE  CommitClock'
<1>1. /\ Len(seen) \in Nat /\ Len(seen') = Len(seen) + 1 /\ seen'[Len(seen) + 1] = v
      /\ \A k \in 1 .. Len(seen) : seen'[k] = seen[k]
  BY Appended DEF ClocksTyped, observe
<1>2. CASE ~ healthy(v)
  BY <1>1, <1>2 DEF observe, disrupted, now, CommitClock, Healthy
<1>3. CASE healthy(v) /\ best(v) # best_commit
  BY <1>1, <1>3 DEF observe, cooperating, now, CommitClock, Healthy
<1>4. CASE healthy(v) /\ best(v) = best_commit
  <2>1. commit_moved_at' = commit_moved_at /\ best_commit' = best_commit
    BY <1>4 DEF observe, cooperating
  <2> QED
    BY <1>1, <1>4, <2>1 DEF CommitClock, Healthy, ClocksTyped
<1> QED BY <1>2, <1>3, <1>4

\* One node's entry of ProgressClock.
Marked(n, p) ==
  /\ \A k \in p.at + 1 .. Len(seen) : Healthy(k) /\ Frozen(n, k)
  /\ \E m \in 1 .. p.at : n \in live(seen[m]) /\ seen[m].node[n].last = p.last
  /\ \A k \in 1 .. Len(seen) : Counted(n, k) => seen[k].node[n].last <= p.last
  /\ Healthy(p.at) =>
       /\ n \in live(seen[p.at])
       /\ \A k \in 1 .. p.at - 1 :
            Counted(n, k) => seen[k].node[n].last < seen[p.at].node[n].last

\* What was true of the earlier views still is.
LEMMA EarlierViews ==
  ASSUME ClocksTyped, NEW v \in Views, seen' = Append(seen, v)
  PROVE  \A n, k : k \in 1 .. Len(seen) =>
           /\ Healthy(k)' <=> Healthy(k)
           /\ Counted(n, k)' <=> Counted(n, k)
           /\ Frozen(n, k) => Frozen(n, k)'
<1> SUFFICES ASSUME NEW n, NEW k \in 1 .. Len(seen)
             PROVE  /\ Healthy(k)' <=> Healthy(k)
                    /\ Counted(n, k)' <=> Counted(n, k)
                    /\ Frozen(n, k) => Frozen(n, k)'
  OBVIOUS
<1>1. \A m \in 1 .. Len(seen) : seen'[m] = seen[m]
  BY Appended DEF ClocksTyped
<1>2. Len(seen) \in Nat
  BY DEF ClocksTyped
<1> QED BY <1>1, <1>2 DEF Healthy, Counted, Frozen

LEMMA ProgressClockStep ==
  ASSUME Measured, ClocksTyped, ProgressClock, NEW v \in Views, observe(v)
  PROVE  ProgressClock'
<1>0. PICK L \in Nat : L = Len(seen)
  BY DEF ClocksTyped
<1>1. /\ L \in Nat /\ Len(seen') = L + 1 /\ seen'[L + 1] = v
      /\ \A k \in 1 .. L : seen'[k] = seen[k]
  BY <1>0, Appended DEF ClocksTyped, observe
<1>2. \A n, k : k \in 1 .. L =>
        /\ Healthy(k)' <=> Healthy(k)
        /\ Counted(n, k)' <=> Counted(n, k)
        /\ Frozen(n, k) => Frozen(n, k)'
  BY <1>0, EarlierViews DEF observe
<1>3. \A n \in DOMAIN progress : Marked(n, progress[n])
  BY DEF ProgressClock, Marked
<1>4. /\ Healthy(L + 1)' <=> healthy(v)
      /\ \A n : Counted(n, L + 1)' <=> healthy(v) /\ n \in live(v)
  BY <1>1 DEF Healthy, Counted
<1>5. \A n \in DOMAIN progress : progress[n].at \in 1 .. L /\ progress[n].last \in Nat
  BY <1>0 DEF ClocksTyped
<1>6. CASE ~ healthy(v)
  <2>1. progress' = [n \in DOMAIN progress |-> [progress[n] EXCEPT !.at = L + 1]]
    BY <1>0, <1>6 DEF observe, disrupted, now
  <2>2. ASSUME NEW n \in DOMAIN progress
        PROVE  Marked(n, progress[n])'
    <3>1. progress'[n].at = L + 1 /\ progress'[n].last = progress[n].last
      BY <2>1 DEF ClocksTyped
    <3>2. PICK m \in 1 .. progress[n].at :
            n \in live(seen[m]) /\ seen[m].node[n].last = progress[n].last
      BY <1>3 DEF Marked
    <3>3. m \in 1 .. L
      BY <1>1, <1>5, <3>2
    <3>4. \E k \in 1 .. L + 1 : n \in live(seen'[k]) /\ seen'[k].node[n].last = progress[n].last
      BY <1>1, <3>2, <3>3
    <3>5. ASSUME NEW k \in 1 .. L + 1, Counted(n, k)'
          PROVE  seen'[k].node[n].last <= progress[n].last
      <4>1. k \in 1 .. L /\ Counted(n, k)
        BY <1>1, <1>2, <1>4, <1>6, <3>5
      <4> QED BY <1>0, <1>1, <1>3, <4>1 DEF Marked
    <3> QED BY <1>1, <1>4, <1>6, <3>1, <3>4, <3>5 DEF Marked
  <2>3. ASSUME NEW k \in 1 .. L + 1, Healthy(k)'
        PROVE  live(seen'[k]) \subseteq DOMAIN progress
    <3>1. k \in 1 .. L /\ healthy(seen[k])
      BY <1>1, <1>4, <1>6, <2>3 DEF Healthy
    <3> QED BY <1>0, <1>1, <3>1 DEF ProgressClock, Healthy
  <2> QED BY Zenon, <1>1, <2>1, <2>2, <2>3 DEF ProgressClock, Marked
<1>7. CASE healthy(v)
  <2>1. progress' = progressed(v)
    BY <1>7 DEF observe, cooperating
  <2>2. DOMAIN progress' = DOMAIN progress \cup live(v)
    BY Zenon, <2>1, ProgressedIs
  <2>3. ASSUME NEW n \in DOMAIN progress'
        PROVE  Marked(n, progress[n])'
    <3>1. CASE /\ n \in live(v)
               /\ n \in DOMAIN progress => v.node[n].last > progress[n].last
               /\ progress'[n] = [last |-> v.node[n].last, at |-> L + 1]
      <4>1. progress'[n].at = L + 1 /\ progress'[n].last = v.node[n].last
        BY <3>1
      <4>2. v.node[n].last \in Nat
        BY <3>1 DEF Measured, live
      <4>3. ASSUME NEW k \in 1 .. L, Counted(n, k)'
            PROVE  seen'[k].node[n].last < v.node[n].last
        <5>1. Counted(n, k)
          BY <1>2, <4>3
        <5>2. n \in DOMAIN progress
          BY <1>0, <5>1 DEF Counted, ProgressClock
        <5>3. seen[k].node[n].last <= progress[n].last
          BY <1>0, <1>3, <5>1, <5>2 DEF Marked
        <5>4. seen[k].node[n].last \in Nat
          <6>1. seen[k] \in Views
            BY <1>0, <1>1 DEF ClocksTyped
          <6> QED BY <3>1, <6>1 DEF Measured, live
        <5> QED BY <1>1, <1>5, <3>1, <4>2, <5>2, <5>3, <5>4
      <4>4. ASSUME NEW k \in 1 .. L + 1, Counted(n, k)'
            PROVE  seen'[k].node[n].last <= v.node[n].last
        <5>1. CASE k = L + 1
          BY <1>1, <4>2, <5>1
        <5>2. CASE k \in 1 .. L
          <6>1. seen'[k].node[n].last \in Nat
            <7>1. seen'[k] \in Views
              BY <1>0, <1>1, <5>2 DEF ClocksTyped
            <7> QED BY <3>1, <7>1 DEF Measured, live
          <6> QED BY <4>2, <4>3, <4>4, <5>2, <6>1
        <5> QED BY <1>1, <5>1, <5>2
      <4>5. \E m \in 1 .. L + 1 : n \in live(seen'[m]) /\ seen'[m].node[n].last = v.node[n].last
        BY <1>1, <3>1
      <4>6. n \in live(seen'[L + 1]) /\ seen'[L + 1] = v
        BY <1>1, <3>1
      <4>7. (L + 1) - 1 = L /\ \A k \in (L + 1) + 1 .. L + 1 : FALSE
        BY <1>1
      <4> HIDE <3>1
      <4> QED BY <1>1, <4>1, <4>3, <4>4, <4>5, <4>6, <4>7 DEF Marked
    <3>2. CASE /\ n \in DOMAIN progress
               /\ n \in live(v) => v.node[n].last <= progress[n].last
               /\ progress'[n] = progress[n]
      <4>0. PICK p : p = progress[n]
        OBVIOUS
      <4>1. p.at \in 1 .. L /\ Marked(n, p)
        BY <1>3, <1>5, <3>2, <4>0
      <4>2. PICK m \in 1 .. p.at : n \in live(seen[m]) /\ seen[m].node[n].last = p.last
        BY <4>1 DEF Marked
      <4>3. m \in 1 .. L
        BY <1>1, <4>1
      <4>4. Frozen(n, L + 1)'
        BY <1>1, <3>2, <4>0, <4>2, <4>3 DEF Frozen
      <4>5. ASSUME NEW k \in p.at + 1 .. L + 1
            PROVE  Healthy(k)' /\ Frozen(n, k)'
        <5>1. CASE k = L + 1
          BY <1>4, <1>7, <4>4, <5>1
        <5>2. CASE k \in 1 .. L /\ k \in p.at + 1 .. L
          BY <1>0, <1>2, <4>1, <5>2 DEF Marked
        <5> QED BY <1>1, <4>1, <5>1, <5>2
      <4>6. ASSUME NEW k \in 1 .. L + 1, Counted(n, k)'
            PROVE  seen'[k].node[n].last <= p.last
        <5>1. CASE k = L + 1
          BY <1>1, <1>4, <3>2, <4>0, <4>6, <5>1
        <5>2. CASE k \in 1 .. L
          BY <1>0, <1>1, <1>2, <4>1, <4>6, <5>2 DEF Marked
        <5> QED BY <1>1, <5>1, <5>2
      <4>7. Healthy(p.at)' =>
              /\ n \in live(seen'[p.at])
              /\ \A k \in 1 .. p.at - 1 :
                   Counted(n, k)' => seen'[k].node[n].last < seen'[p.at].node[n].last
        BY SMTT(30), <1>1, <1>2, <4>1 DEF Marked
      <4>8. \E k \in 1 .. p.at : n \in live(seen'[k]) /\ seen'[k].node[n].last = p.last
        BY <1>1, <4>2, <4>3
      <4>9. progress'[n] = p
        BY <3>2, <4>0
      <4> QED BY <1>1, <4>5, <4>6, <4>7, <4>8, <4>9 DEF Marked
    <3> QED BY Zenon, <1>0, <2>1, <3>1, <3>2, ProgressedIs
  <2>4. ASSUME NEW k \in 1 .. L + 1, Healthy(k)'
        PROVE  live(seen'[k]) \subseteq DOMAIN progress'
    <3>1. CASE k = L + 1
      BY <1>1, <2>2, <3>1
    <3>2. CASE k \in 1 .. L
      BY <1>0, <1>1, <1>2, <2>2, <2>4, <3>2 DEF ProgressClock
    <3> QED BY <1>1, <3>1, <3>2
  <2> QED BY <1>1, <2>3, <2>4 DEF ProgressClock, Marked
<1> QED BY <1>6, <1>7

\* From the first view on, each clock shows when the condition it times began.
LEMMA ClocksInductive ==
  ASSUME Measured
  PROVE  Spec => []ClocksInv
<1>1. Init => ClocksInv
  BY DEF Init, ClocksInv, ClocksTyped, ElectionClock, CommitClock,
         ProgressClock
<1>2. ClocksInv /\ [Next]_vars => ClocksInv'
  <2>1. ASSUME ClocksInv, NEW v \in Views, observe(v) PROVE ClocksInv'
    BY <2>1, ClocksTypedStep, ElectionClockStep, CommitClockStep, ProgressClockStep
       DEF ClocksInv
  <2>2. ASSUME ClocksInv, UNCHANGED vars PROVE ClocksInv'
    <3>1. /\ seen' = seen /\ best_commit' = best_commit /\ commit_moved_at' = commit_moved_at
          /\ saw_leader_at' = saw_leader_at /\ progress' = progress
      BY <2>2 DEF vars
    <3> QED
      BY Zenon, <2>2, <3>1 DEF ClocksInv, ClocksTyped, ElectionClock, CommitClock,
         ProgressClock, Healthy, Frozen, Counted
  <2> QED BY <2>1, <2>2 DEF Next
<1> QED BY <1>1, <1>2, PTL DEF Spec

\* A window of the views so far is one of those with one view more.
LEMMA WindowsGrow ==
  ASSUME ClocksTyped, NEW v \in Views, seen' = Append(seen, v), NEW budget
  PROVE  /\ Windows(budget) \subseteq Windows(budget)'
         /\ \A w \in Windows(budget) :
              w[1] \in 0 .. Len(seen) /\ w[2] \in 0 .. Len(seen)
         /\ \A w \in Windows(budget)' :
              w \in Windows(budget) \/ w[1] = Len(seen) + 1 \/ w[2] = Len(seen) + 1
  BY Appended DEF ClocksTyped, Windows

\* The three causes of an alarm, as AlarmsNeedCalm has them.
LeaderlessFor(w) == \A k \in w[1] + 1 .. w[2] : Healthy(k) /\ leaders(seen[k]) = {}

IdleFor(w) ==
  /\ \A k \in w[1] + 1 .. w[2] : Healthy(k) /\ best(seen[k]) = best(seen[w[2]])
  /\ seen[w[2]].work /\ leaders(seen[w[2]]) # {}

BehindFor(w, n) ==
  /\ \A k \in w[1] + 1 .. w[2] : Healthy(k) /\ Frozen(n, k)
  /\ Behind(n, seen[w[2]])

Justified ==
  /\ "NoLeader" \in stalls => \E w \in Windows(elect_within) : LeaderlessFor(w)
  /\ "NoCommitProgress" \in stalls => \E w \in Windows(commit_within) : IdleFor(w)
  /\ "NoConvergence" \in stalls =>
       \E w \in Windows(converge_within), n \in Node : BehindFor(w, n)

LEMMA JustifiedIs == AlarmsNeedCalm <=> Justified
  BY DEF AlarmsNeedCalm, Throughout, Justified, LeaderlessFor, IdleFor, BehindFor

\* A cause stays one.
LEMMA CausesStay ==
  ASSUME Measured, ClocksTyped, NEW v \in Views, seen' = Append(seen, v)
  PROVE  /\ \A w \in Windows(elect_within) : LeaderlessFor(w) => LeaderlessFor(w)'
         /\ \A w \in Windows(commit_within) : IdleFor(w) => IdleFor(w)'
         /\ \A w \in Windows(converge_within), n \in Node : BehindFor(w, n) => BehindFor(w, n)'
<1>1. \A k \in 1 .. Len(seen) : seen'[k] = seen[k]
  BY Appended DEF ClocksTyped
<1>2. Len(seen) \in Nat
  BY DEF ClocksTyped
<1>3. \A n, k : k \in 1 .. Len(seen) => (Frozen(n, k) => Frozen(n, k)')
  BY EarlierViews
<1>4. ASSUME NEW budget \in {elect_within, commit_within, converge_within},
             NEW w \in Windows(budget)
      PROVE  w[2] \in 1 .. Len(seen) /\ \A k \in w[1] + 1 .. w[2] : k \in 1 .. Len(seen)
  BY <1>2 DEF Windows, Measured
<1>5. ASSUME NEW w \in Windows(elect_within), LeaderlessFor(w) PROVE LeaderlessFor(w)'
  <2>1. \A k \in w[1] + 1 .. w[2] : k \in 1 .. Len(seen)
    BY <1>4
  <2> QED BY <1>1, <1>5, <2>1 DEF LeaderlessFor, Healthy
<1>6. ASSUME NEW w \in Windows(commit_within), IdleFor(w) PROVE IdleFor(w)'
  <2>1. w[2] \in 1 .. Len(seen) /\ \A k \in w[1] + 1 .. w[2] : k \in 1 .. Len(seen)
    BY <1>4
  <2> QED BY <1>1, <1>6, <2>1 DEF IdleFor, Healthy
<1>7. ASSUME NEW w \in Windows(converge_within), NEW n \in Node, BehindFor(w, n)
      PROVE  BehindFor(w, n)'
  <2>1. w[2] \in 1 .. Len(seen) /\ \A k \in w[1] + 1 .. w[2] : k \in 1 .. Len(seen)
    BY <1>4
  <2>2. seen'[w[2]] = seen[w[2]]
    BY <1>1, <2>1
  <2>3. \A k \in w[1] + 1 .. w[2] : Healthy(k)' /\ Frozen(n, k)'
    BY <1>1, <1>3, <1>7, <2>1 DEF BehindFor, Healthy
  <2> QED BY <1>7, <2>2, <2>3 DEF BehindFor, Behind
<1> QED BY <1>5, <1>6, <1>7

LEMMA AlarmsStep ==
  ASSUME Measured, ClocksInv, ClocksInv', Justified,
         NEW v \in Views, observe(v)
  PROVE  Justified'
<1>1. /\ seen' = Append(seen, v)
      /\ Len(seen) \in Nat /\ Len(seen') = Len(seen) + 1 /\ seen'[Len(seen) + 1] = v
  BY Appended DEF ClocksInv, ClocksTyped, observe
<1>2. \A budget : Windows(budget) \subseteq Windows(budget)'
  BY <1>1, WindowsGrow DEF ClocksInv
<1>3. PICK L \in Nat : L = Len(seen')
  BY <1>1
<1>4. \A budget, i : i \in 0 .. L /\ L - i > budget => <<i, L>> \in Windows(budget)'
  BY <1>3 DEF Windows
<1>5. ASSUME "NoLeader" \in stalls' PROVE \E w \in Windows(elect_within)' : LeaderlessFor(w)'
  <2>1. CASE "NoLeader" \in stalls
    BY <1>1, <1>2, <2>1, CausesStay DEF Justified, ClocksInv
  <2>2. CASE "NoLeader" \notin stalls
    <3>1. cooperating(v) /\ leaderless(v)
      BY <1>5, <2>2 DEF observe, cooperating, disrupted
    <3>2. saw_leader_at' = saw_leader_at /\ L - saw_leader_at > elect_within
      BY <1>1, <1>3, <3>1 DEF cooperating, leaderless, now
    <3>3. PICK i : i = saw_leader_at'
      OBVIOUS
    <3>4. i \in 0 .. L /\ \A k \in i + 1 .. L : Healthy(k)' /\ leaders(seen'[k]) = {}
      BY Zenon, <1>3, <3>3 DEF ClocksInv, ClocksTyped, ElectionClock
    <3>5. LeaderlessFor(<<i, L>>)'
      BY <3>4 DEF LeaderlessFor
    <3> QED BY <1>4, <3>2, <3>3, <3>4, <3>5
  <2> QED BY <2>1, <2>2
<1>6. ASSUME "NoCommitProgress" \in stalls' PROVE \E w \in Windows(commit_within)' : IdleFor(w)'
  <2>1. CASE "NoCommitProgress" \in stalls
    BY <1>1, <1>2, <2>1, CausesStay DEF Justified, ClocksInv
  <2>2. CASE "NoCommitProgress" \notin stalls
    <3>1. cooperating(v) /\ not_committing(v)
      BY <1>6, <2>2 DEF observe, cooperating, disrupted
    <3>2. /\ commit_moved_at' = commit_moved_at /\ L - commit_moved_at > commit_within
          /\ best_commit' = best(v) /\ v.work /\ leaders(v) # {}
      BY <1>1, <1>3, <3>1 DEF cooperating, not_committing, now
    <3>3. PICK i : i = commit_moved_at'
      OBVIOUS
    <3>4. i \in 0 .. L /\ \A k \in i + 1 .. L : Healthy(k)' /\ best(seen'[k]) = best(v)
      BY <1>3, <3>2, <3>3 DEF ClocksInv, ClocksTyped, CommitClock
    <3>5. seen'[L] = v
      BY <1>1, <1>3
    <3>6. IdleFor(<<i, L>>)'
      BY <3>2, <3>4, <3>5 DEF IdleFor
    <3> QED BY <1>4, <3>2, <3>3, <3>4, <3>6
  <2> QED BY <2>1, <2>2
<1>7. ASSUME "NoConvergence" \in stalls'
      PROVE  \E w \in Windows(converge_within)', n \in Node : BehindFor(w, n)'
  <2>1. CASE "NoConvergence" \in stalls
    BY <1>1, <1>2, <2>1, CausesStay DEF Justified, ClocksInv
  <2>2. CASE "NoConvergence" \notin stalls
    <3>1. cooperating(v) /\ laggards(v) # {}
      BY <1>7, <2>2 DEF observe, cooperating, disrupted
    <3>2. PICK n \in live(v) :
            /\ Behind(n, v) /\ L - progress'[n].at > converge_within
      BY <1>1, <1>3, <3>1 DEF cooperating, laggards, Behind, now
    <3>3. n \in DOMAIN progress' /\ n \in Node
      BY <3>1, <3>2 DEF cooperating, progressed, live
    <3>4. PICK i : i = progress'[n].at
      OBVIOUS
    <3>5. i \in 0 .. L /\ \A k \in i + 1 .. L : Healthy(k)' /\ Frozen(n, k)'
      BY <1>3, <3>3, <3>4 DEF ClocksInv, ClocksTyped, ProgressClock
    <3>6. seen'[L] = v
      BY <1>1, <1>3
    <3>7. Behind(n, seen'[L])
      BY <3>2, <3>6
    <3>8. BehindFor(<<i, L>>, n)'
      BY <3>5, <3>7 DEF BehindFor, Behind
    <3> QED BY <1>4, <3>2, <3>3, <3>4, <3>5, <3>8
  <2> QED BY <2>1, <2>2
<1> QED BY <1>5, <1>6, <1>7 DEF Justified

\* Every alarm follows a stretch of healthy views in which nothing changed,
\* whatever the budgets and however long the watchdog looks on
\* (chrono-oracle/src/liveness.rs, observe).
THEOREM AlarmsInCalm == Spec => []AlarmsNeedCalm
<1>1. Init => Justified
  BY DEF Init, Justified
<1>2. ClocksInv /\ ClocksInv' /\ Justified /\ [Next]_vars => Justified'
  <2>1. ASSUME Justified, UNCHANGED vars PROVE Justified'
    BY Zenon, <2>1 DEF vars, Justified, LeaderlessFor, IdleFor, BehindFor, Healthy, Frozen,
       Behind, Windows
  <2> QED BY <2>1, AlarmsStep, WatchdogAssumption DEF Next
<1> QED BY <1>1, <1>2, JustifiedIs, ClocksInductive, WatchdogAssumption, PTL DEF Spec

\* The three kinds of stall, as StallsAreReported has them.
NobodyLeads(w) ==
  w[1] > 0 /\ \A k \in w[1] .. w[2] : Healthy(k) /\ leaders(seen[k]) = {}

NothingCommits(w) ==
  w[1] > 0 /\ \A k \in w[1] .. w[2] :
    /\ Healthy(k) /\ leaders(seen[k]) # {} /\ seen[k].work
    /\ best(seen[k]) = best(seen[w[1]])

StaysBehind(w, n) ==
  w[1] > 0 /\ \A k \in w[1] .. w[2] :
    /\ Healthy(k) /\ Behind(n, seen[k])
    /\ seen[k].node[n].last <= seen[w[1]].node[n].last

LEMMA NoLeaderReported ==
  ASSUME Measured, ClocksInv, NEW v \in Views, observe(v),
         NEW i \in 1 .. Len(seen), (Len(seen) + 1) - i > elect_within,
         healthy(v), leaders(v) = {},
         \A k \in i .. Len(seen) : Healthy(k) /\ leaders(seen[k]) = {}
  PROVE  "NoLeader" \in stalls'
<1>1. /\ Len(seen) \in Nat /\ elect_within \in Nat /\ saw_leader_at \in 0 .. Len(seen)
  BY DEF ClocksInv, ClocksTyped, Measured
<1>2. ASSUME saw_leader_at >= i PROVE FALSE
  <2>1. saw_leader_at \in i .. Len(seen) /\ saw_leader_at > 0
    BY <1>1, <1>2
  <2> QED BY <2>1 DEF ClocksInv, ElectionClock
<1>3. (Len(seen) + 1) - saw_leader_at > elect_within
  BY <1>1, <1>2
<1> QED BY <1>3 DEF observe, cooperating, leaderless, now

LEMMA NoCommitReported ==
  ASSUME Measured, ClocksInv, NEW v \in Views, observe(v),
         NEW i \in 1 .. Len(seen), (Len(seen) + 1) - i > commit_within,
         healthy(v), leaders(v) # {}, v.work, best(v) = best(seen[i]),
         \A k \in i .. Len(seen) : Healthy(k) /\ best(seen[k]) = best(seen[i])
  PROVE  "NoCommitProgress" \in stalls'
<1>1. /\ Len(seen) \in Nat /\ commit_within \in Nat /\ commit_moved_at \in 0 .. Len(seen)
  BY DEF ClocksInv, ClocksTyped, Measured
<1>2. ASSUME commit_moved_at > i PROVE FALSE
  <2>1. /\ commit_moved_at \in i .. Len(seen) /\ commit_moved_at - 1 \in i .. Len(seen)
        /\ commit_moved_at > 1
    BY <1>1, <1>2
  <2>2. /\ Healthy(commit_moved_at) /\ Healthy(commit_moved_at - 1)
        /\ best(seen[commit_moved_at]) = best(seen[commit_moved_at - 1])
    BY <2>1
  <2> QED BY <2>1, <2>2 DEF ClocksInv, CommitClock
<1>3. (Len(seen) + 1) - commit_moved_at > commit_within
  BY <1>1, <1>2
<1>4. best(v) = best_commit
  <2>1. Len(seen) \in i .. Len(seen) /\ Len(seen) > 0
    BY <1>1
  <2> QED BY <2>1 DEF ClocksInv, CommitClock
<1> QED BY <1>3, <1>4 DEF observe, cooperating, not_committing, now

LEMMA NoConvergenceReported ==
  ASSUME Measured, ClocksInv, NEW v \in Views, observe(v), NEW n \in Node,
         NEW i \in 1 .. Len(seen), (Len(seen) + 1) - i > converge_within,
         healthy(v), Behind(n, v), v.node[n].last <= seen[i].node[n].last,
         \A k \in i .. Len(seen) :
           /\ Healthy(k) /\ Behind(n, seen[k])
           /\ seen[k].node[n].last <= seen[i].node[n].last
  PROVE  "NoConvergence" \in stalls'
<1>1. /\ Len(seen) \in Nat /\ converge_within \in Nat /\ i \in i .. Len(seen)
      /\ n \in live(v) /\ v.node[n].last \in Nat
      /\ \A k \in 1 .. Len(seen) : seen[k] \in Views /\ seen[k].node[n].last \in Nat
  BY DEF ClocksInv, ClocksTyped, Measured, Behind, live
<1>2. Counted(n, i) /\ n \in DOMAIN progress
  BY <1>1 DEF Counted, Behind, ClocksInv, ProgressClock
<1>3. PICK p : p = progress[n]
  OBVIOUS
<1>4. p.at \in 1 .. Len(seen) /\ p.last \in Nat
  BY <1>2, <1>3 DEF ClocksInv, ClocksTyped
<1>5. seen[i].node[n].last <= p.last
  BY <1>1, <1>2, <1>3 DEF ClocksInv, ProgressClock
<1>6. progressed(v)[n] = p
  <2>1. ~ (v.node[n].last > progress[n].last)
    BY <1>1, <1>3, <1>4, <1>5
  <2> QED BY <1>2, <1>3, <2>1 DEF progressed
<1>7. ASSUME p.at > i PROVE FALSE
  <2>1. p.at \in i .. Len(seen) /\ i \in 1 .. p.at - 1
    BY <1>1, <1>4, <1>7
  <2>2. seen[p.at].node[n].last <= seen[i].node[n].last /\ Healthy(p.at)
    BY <2>1
  <2>3. seen[i].node[n].last < seen[p.at].node[n].last
    BY <1>2, <1>3, <2>1, <2>2 DEF ClocksInv, ProgressClock
  <2> QED BY <1>1, <1>4, <2>2, <2>3
<1>8. (Len(seen) + 1) - p.at > converge_within
  BY <1>1, <1>4, <1>7
<1>9. n \in laggards(v)
  BY <1>1, <1>6, <1>8 DEF laggards, Behind, now
<1> QED BY <1>9 DEF observe, cooperating

LEMMA StallsStep ==
  ASSUME Measured, ClocksInv, StallsAreReported, NEW v \in Views, observe(v)
  PROVE  StallsAreReported'
<1>1. /\ Len(seen) \in Nat /\ Len(seen') = Len(seen) + 1 /\ seen'[Len(seen) + 1] = v
      /\ \A k \in 1 .. Len(seen) : seen'[k] = seen[k]
  BY Appended DEF ClocksInv, ClocksTyped, observe
<1>2. stalls \subseteq stalls'
  BY DEF observe, cooperating, disrupted
<1>3. ASSUME NEW budget \in {elect_within, commit_within, converge_within},
             NEW w \in Windows(budget)', w[1] > 0
      PROVE  \/ w \in Windows(budget) /\ \A k \in w[1] .. w[2] : k \in 1 .. Len(seen)
             \/ /\ w[2] = Len(seen) + 1 /\ w[1] \in 1 .. Len(seen)
                /\ (Len(seen) + 1) - w[1] > budget
                /\ w[2] \in w[1] .. w[2] /\ w[1] \in w[1] .. w[2]
                /\ \A k \in w[1] .. Len(seen) : k \in w[1] .. w[2] /\ k \in 1 .. Len(seen)
  <2>1. budget \in Nat
    BY DEF Measured
  <2>2. /\ w[1] \in 0 .. Len(seen) + 1 /\ w[2] \in 0 .. Len(seen) + 1 /\ w[2] - w[1] > budget
        /\ w = <<w[1], w[2]>>
    BY <1>1 DEF Windows
  <2>3. CASE w[2] = Len(seen) + 1
    BY <1>1, <1>3, <2>1, <2>2, <2>3
  <2>4. CASE w[2] # Len(seen) + 1
    <3>1. w[1] \in 0 .. Len(seen) /\ w[2] \in 0 .. Len(seen)
      BY <1>1, <2>1, <2>2, <2>4
    <3>2. w \in Windows(budget)
      BY <2>2, <3>1 DEF Windows
    <3> QED BY <1>1, <1>3, <3>1, <3>2
  <2> QED BY <2>3, <2>4
<1>4. ASSUME NEW w \in Windows(elect_within)', NobodyLeads(w)'
      PROVE  "NoLeader" \in stalls'
  <2>1. w[1] > 0 /\ \A k \in w[1] .. w[2] : healthy(seen'[k]) /\ leaders(seen'[k]) = {}
    BY <1>4 DEF NobodyLeads, Healthy
  <2>2. CASE w \in Windows(elect_within) /\ \A k \in w[1] .. w[2] : k \in 1 .. Len(seen)
    BY Zenon, <1>1, <1>2, <2>1, <2>2 DEF StallsAreReported, Healthy
  <2>3. CASE ~ (w \in Windows(elect_within) /\ \A k \in w[1] .. w[2] : k \in 1 .. Len(seen))
    <3>1. /\ w[2] = Len(seen) + 1 /\ w[1] \in 1 .. Len(seen)
          /\ (Len(seen) + 1) - w[1] > elect_within /\ w[2] \in w[1] .. w[2]
          /\ \A k \in w[1] .. Len(seen) : k \in w[1] .. w[2] /\ k \in 1 .. Len(seen)
      BY <1>3, <2>1, <2>3
    <3>2. healthy(v) /\ leaders(v) = {}
      BY Zenon, <1>1, <2>1, <3>1
    <3>3. \A k \in w[1] .. Len(seen) : Healthy(k) /\ leaders(seen[k]) = {}
      BY Zenon, <1>1, <2>1, <3>1 DEF Healthy
    <3> QED BY Zenon, <3>1, <3>2, <3>3, NoLeaderReported
  <2> QED BY <2>2, <2>3
<1>5. ASSUME NEW w \in Windows(commit_within)', NothingCommits(w)'
      PROVE  "NoCommitProgress" \in stalls'
  <2>1. w[1] > 0 /\ \A k \in w[1] .. w[2] :
          /\ healthy(seen'[k]) /\ leaders(seen'[k]) # {} /\ seen'[k].work
          /\ best(seen'[k]) = best(seen'[w[1]])
    BY <1>5 DEF NothingCommits, Healthy
  <2>2. CASE w \in Windows(commit_within) /\ \A k \in w[1] .. w[2] : k \in 1 .. Len(seen)
    <3>1. w[1] \in w[1] .. w[2]
      BY <2>2 DEF Windows, Measured, ClocksInv, ClocksTyped
    <3>2. NothingCommits(w)
      BY <1>1, <2>1, <2>2, <3>1 DEF NothingCommits, Healthy
    <3> QED BY Zenon, <1>2, <2>2, <3>2 DEF StallsAreReported, NothingCommits
  <2>3. CASE ~ (w \in Windows(commit_within) /\ \A k \in w[1] .. w[2] : k \in 1 .. Len(seen))
    <3>1. /\ w[2] = Len(seen) + 1 /\ w[1] \in 1 .. Len(seen)
          /\ (Len(seen) + 1) - w[1] > commit_within /\ w[2] \in w[1] .. w[2]
          /\ \A k \in w[1] .. Len(seen) : k \in w[1] .. w[2] /\ k \in 1 .. Len(seen)
      BY <1>3, <2>1, <2>3
    <3>2. healthy(v) /\ leaders(v) # {} /\ v.work /\ best(v) = best(seen[w[1]])
      BY <1>1, <2>1, <3>1
    <3>3. \A k \in w[1] .. Len(seen) : Healthy(k) /\ best(seen[k]) = best(seen[w[1]])
      BY <1>1, <2>1, <3>1 DEF Healthy
    <3> QED BY <3>1, <3>2, <3>3, NoCommitReported
  <2> QED BY <2>2, <2>3
<1>6. ASSUME NEW w \in Windows(converge_within)', NEW n \in Node, StaysBehind(w, n)'
      PROVE  "NoConvergence" \in stalls'
  <2>1. w[1] > 0 /\ \A k \in w[1] .. w[2] :
          /\ healthy(seen'[k]) /\ Behind(n, seen'[k])
          /\ seen'[k].node[n].last <= seen'[w[1]].node[n].last
    BY <1>6 DEF StaysBehind, Healthy, Behind
  <2>2. CASE w \in Windows(converge_within) /\ \A k \in w[1] .. w[2] : k \in 1 .. Len(seen)
    <3>1. w[1] \in w[1] .. w[2]
      BY <2>2 DEF Windows, Measured, ClocksInv, ClocksTyped
    <3>2. StaysBehind(w, n)
      BY <1>1, <2>1, <2>2, <3>1 DEF StaysBehind, Healthy
    <3> QED BY <1>2, <2>2, <3>2 DEF StallsAreReported, StaysBehind
  <2>3. CASE ~ (w \in Windows(converge_within) /\ \A k \in w[1] .. w[2] : k \in 1 .. Len(seen))
    <3>1. /\ w[2] = Len(seen) + 1 /\ w[1] \in 1 .. Len(seen)
          /\ (Len(seen) + 1) - w[1] > converge_within /\ w[2] \in w[1] .. w[2]
          /\ \A k \in w[1] .. Len(seen) : k \in w[1] .. w[2] /\ k \in 1 .. Len(seen)
      BY <1>3, <2>1, <2>3
    <3>2. healthy(v) /\ Behind(n, v) /\ v.node[n].last <= seen[w[1]].node[n].last
      BY <1>1, <2>1, <3>1
    <3>3. \A k \in w[1] .. Len(seen) :
            /\ Healthy(k) /\ Behind(n, seen[k])
            /\ seen[k].node[n].last <= seen[w[1]].node[n].last
      BY <1>1, <2>1, <3>1 DEF Healthy
    <3> QED BY <3>1, <3>2, <3>3, NoConvergenceReported
  <2> QED BY <2>2, <2>3
<1> QED
  BY <1>4, <1>5, <1>6
     DEF StallsAreReported, NobodyLeads, NothingCommits, StaysBehind

\* No stall goes unreported, whatever the budgets and however long the watchdog
\* looks on (chrono-oracle/src/liveness.rs, observe).
THEOREM StallsReported == Spec => []StallsAreReported
<1>1. Init => StallsAreReported
  BY DEF Init, StallsAreReported, Windows
<1>2. ClocksInv /\ StallsAreReported /\ [Next]_vars => StallsAreReported'
  <2>1. ASSUME StallsAreReported, UNCHANGED vars PROVE StallsAreReported'
    BY <2>1 DEF vars, StallsAreReported, Healthy, Behind, Windows
  <2> QED BY <2>1, StallsStep, WatchdogAssumption DEF Next
<1> QED BY <1>1, <1>2, ClocksInductive, WatchdogAssumption, PTL DEF Spec
=============================================================================
