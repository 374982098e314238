---------------------------- MODULE SessionProofs ----------------------------
(***************************************************************************)
(* Proofs about client sessions: every store is faithful to the log it has  *)
(* applied, so that a retry is idempotent and every answer is true.         *)
(***************************************************************************)
EXTENDS Sessions, SequenceTheorems, TLAPS

\* One entry more leaves the others where they were.
LEMMA EntryAppended ==
  ASSUME NEW l \in Seq(Entries), NEW e \in Entries
  PROVE  /\ Append(l, e) \in Seq(Entries) /\ Len(l) \in Nat
         /\ Len(Append(l, e)) = Len(l) + 1 /\ Append(l, e)[Len(l) + 1] = e
         /\ \A k \in 1 .. Len(l) : Append(l, e)[k] = l[k]
         /\ \A k \in 1 .. Len(l) + 1 : k \in 1 .. Len(l) \/ k = Len(l) + 1
  OBVIOUS

\* A store is made of its parts.
LEMMA StoreMade ==
  ASSUME NEW data \in Seq(Versions), NEW index \in Nat,
         NEW sessions \in [Clients -> [last_seq : Nat, last_outcome : Outcomes]],
         NEW t, t = [data |-> data, applied |-> index, sessions |-> sessions]
  PROVE  t \in Stores /\ t.applied = index /\ t.data = data
  BY DEF Stores

\* What is executed, and with what outcome, is settled when an entry is agreed.
LEMMA ReferenceStays ==
  ASSUME NEW L, NEW L1, NEW n \in Nat, \A k \in 1 .. n : L1[k] = L[k]
  PROVE  \A k \in 1 .. n : /\ Executed(L1, k) <=> Executed(L, k)
                           /\ TrueOutcome(L1, k) = TrueOutcome(L, k)
<1>1. ASSUME NEW k \in 1 .. n PROVE Executed(L1, k) <=> Executed(L, k)
  <2>1. \A m \in 1 .. k - 1 : m \in 1 .. n
    OBVIOUS
  <2> QED BY <2>1 DEF Executed
<1>2. ASSUME NEW k \in 1 .. n PROVE TrueOutcome(L1, k) = TrueOutcome(L, k)
  <2>1. \A m \in 1 .. k - 1 : m \in 1 .. n
    OBVIOUS
  <2> QED BY <1>1, <2>1 DEF TrueOutcome
<1> QED BY <1>1, <1>2

\* More entries leave a store as faithful as it was.
LEMMA FaithfulStays ==
  ASSUME NEW L, NEW L1, NEW s, Faithful(L, s), Len(L) \in Nat, Len(L1) \in Nat,
         Len(L) <= Len(L1), \A k \in 1 .. Len(L) : L1[k] = L[k]
  PROVE  Faithful(L1, s)
<1>1. s \in Stores /\ s.applied \in Nat /\ s.applied <= Len(L)
  BY DEF Faithful, Stores
<1>2. \A k \in 1 .. s.applied : /\ L1[k] = L[k]
                                /\ Executed(L1, k) <=> Executed(L, k)
                                /\ TrueOutcome(L1, k) = TrueOutcome(L, k)
  <2>1. \A k \in 1 .. s.applied : k \in 1 .. Len(L)
    BY <1>1
  <2> QED BY <2>1, ReferenceStays
<1>3. ASSUME NEW c \in Clients PROVE SessionFaithful(L1, s, c)
  <2>1. SessionFaithful(L, s, c)
    BY DEF Faithful
  <2> QED BY <1>2, <2>1 DEF SessionFaithful
<1>4. DataFaithful(L1, s)
  BY <1>2 DEF Faithful, DataFaithful
<1> QED BY <1>1, <1>3, <1>4 DEF Faithful

\* ... and an answer as true as it was.
LEMMA AnswerStays ==
  ASSUME NEW L, NEW L1, NEW client, NEW seq, NEW outcome, TrueAnswer(L, client, seq, outcome),
         Len(L) \in Nat, Len(L1) \in Nat,
         Len(L) <= Len(L1), \A k \in 1 .. Len(L) : L1[k] = L[k]
  PROVE  TrueAnswer(L1, client, seq, outcome)
<1>1. PICK n \in 1 .. Len(L) : /\ L[n].client = client /\ L[n].seq = seq
                               /\ Executed(L, n) /\ outcome = TrueOutcome(L, n)
  BY DEF TrueAnswer
<1>2. /\ n \in 1 .. Len(L1) /\ L1[n] = L[n] /\ Executed(L1, n)
      /\ TrueOutcome(L1, n) = TrueOutcome(L, n)
  <2>1. \A k \in 1 .. Len(L) : /\ Executed(L1, k) <=> Executed(L, k)
                               /\ TrueOutcome(L1, k) = TrueOutcome(L, k)
    BY ReferenceStays
  <2> QED BY <1>1, <2>1
<1> QED BY <1>1, <1>2 DEF TrueAnswer

\* A snapshot carries the whole store.
LEMMA RestoredSnapshot ==
  ASSUME NEW L, NEW s, Faithful(L, s)
  PROVE  restored(snapshot(s)) = s
<1>1. /\ s \in Stores /\ s.sessions \in [Clients -> [last_seq : Nat, last_outcome : Outcomes]]
      /\ s = [data |-> s.data, applied |-> s.applied, sessions |-> s.sessions]
  BY DEF Faithful, Stores
<1>2. \A c \in Clients : s.sessions[c].last_seq = 0 => s.sessions[c].last_outcome = Unavailable
  BY DEF Faithful, SessionFaithful
<1>3. DOMAIN s.sessions = Clients /\ DOMAIN Fresh.sessions = Clients
      /\ \A c \in Clients : Fresh.sessions[c] = [last_seq |-> 0, last_outcome |-> Unavailable]
  BY <1>1 DEF Fresh, Clients
<1> DEFINE row(c) == [id |-> c, last_seq |-> s.sessions[c].last_seq,
                       response |-> [client |-> c, seq |-> s.sessions[c].last_seq,
                                     outcome |-> s.sessions[c].last_outcome]]
           known == {c \in Clients : s.sessions[c].last_seq > 0}
           table == {row(c) : c \in known}
<1>4. snapshot(s).table = table /\ snapshot(s).applied = s.applied /\ snapshot(s).versions = s.data
  BY Zenon, <1>3 DEF snapshot
<1>5. ASSUME NEW c \in Clients
      PROVE  (IF \A item \in table : item.id # c
              THEN Fresh.sessions[c]
              ELSE LET item == CHOOSE item \in table : item.id = c
                   IN  [last_seq |-> item.last_seq, last_outcome |-> item.response.outcome])
             = s.sessions[c]
  <2>0. s.sessions[c] = [last_seq |-> s.sessions[c].last_seq, last_outcome |-> s.sessions[c].last_outcome]
        /\ s.sessions[c].last_seq \in Nat
    BY <1>1
  <2>1. CASE c \in known
    <3>1. row(c) \in table /\ row(c).id = c
      BY <2>1
    <3>2. \A e \in table : e.id = c => e = row(c)
      OBVIOUS
    <3>3. (CHOOSE e \in table : e.id = c) = row(c)
      <4> HIDE DEF table, row
      <4> QED BY <3>1, <3>2
    <3>4. row(c).last_seq = s.sessions[c].last_seq /\ row(c).response.outcome = s.sessions[c].last_outcome
      OBVIOUS
    <3> HIDE DEF table, row
    <3> QED BY Zenon, <2>0, <3>1, <3>3, <3>4
  <2>2. CASE c \notin known
    <3>1. \A e \in table : e.id # c
      BY <2>2
    <3>2. s.sessions[c].last_seq = 0
      BY <2>0, <2>2
    <3>3. s.sessions[c] = [last_seq |-> 0, last_outcome |-> Unavailable]
      BY <1>2, <2>0, <3>2
    <3> HIDE DEF table
    <3> QED BY <1>3, <3>1, <3>3
  <2> QED BY Zenon, <2>1, <2>2
<1> HIDE DEF table
<1>6. restored(snapshot(s)).sessions = s.sessions
  <2>1. restored(snapshot(s)).sessions =
          [c \in Clients |->
             IF \A item \in table : item.id # c
             THEN Fresh.sessions[c]
             ELSE LET item == CHOOSE item \in table : item.id = c
                  IN  [last_seq |-> item.last_seq, last_outcome |-> item.response.outcome]]
    BY <1>3, <1>4 DEF restored
  <2>2. \A c \in Clients : restored(snapshot(s)).sessions[c] = s.sessions[c]
    BY <1>5, <2>1
  <2>3. DOMAIN restored(snapshot(s)).sessions = Clients
    BY <2>1
  <2>4. restored(snapshot(s)).sessions = [c \in Clients |-> restored(snapshot(s)).sessions[c]]
    BY <2>1
  <2> QED BY <1>1, <2>2, <2>4
<1>7. restored(snapshot(s)) = [data |-> s.data, applied |-> s.applied, sessions |-> restored(snapshot(s)).sessions]
  BY <1>4 DEF restored
<1> QED BY <1>1, <1>6, <1>7

\* A no-op moves a store on and changes nothing in it.
LEMMA NoopApplied ==
  ASSUME NEW L, NEW s, Faithful(L, s), NEW index, index = s.applied + 1, Len(L) \in Nat,
         index <= Len(L), L[index] = Noop
  PROVE  Faithful(L, [s EXCEPT !.applied = index])
<1> DEFINE t == [s EXCEPT !.applied = index]
<1>1. /\ s.applied \in Nat /\ index \in Nat /\ t \in Stores
      /\ t.data = s.data /\ t.applied = index /\ t.sessions = s.sessions
      /\ \A c \in Clients : s.sessions[c].last_seq \in Nat
  BY DEF Faithful, Stores
<1>2. /\ \A m \in 1 .. index : m = index \/ m \in 1 .. s.applied
      /\ \A m \in 1 .. s.applied : m \in 1 .. index
  BY <1>1
<1>3. ~ Executed(L, index) /\ L[index].seq = 0
  BY DEF Executed, Noop
<1> HIDE DEF t
<1>4. ASSUME NEW c \in Clients PROVE SessionFaithful(L, t, c)
  <2>1. SessionFaithful(L, s, c)
    BY DEF Faithful
  <2> QED BY <1>1, <1>2, <1>3, <2>1 DEF SessionFaithful
<1>5. DataFaithful(L, t)
  <2>1. DataFaithful(L, s)
    BY Zenon DEF Faithful
  <2>2. (\A m \in 1 .. index : ~ Executed(L, m)) <=> \A m \in 1 .. s.applied : ~ Executed(L, m)
    BY Zenon, <1>2, <1>3
  <2> QED BY Zenon, <1>1, <2>1, <2>2 DEF DataFaithful
<1>6. Faithful(L, t)
  BY <1>1, <1>4, <1>5 DEF Faithful
<1> QED BY <1>6 DEF t

\* w is the newest versions of data and v, in their order.
Newest(w, data, v) ==
  /\ w \in Seq(Versions) /\ w # <<>> /\ Len(w) \in Nat
  /\ \E lo \in Nat :
       /\ Len(w) + lo = Len(data) + 1
       /\ \A k \in 1 .. Len(w) : w[k] = IF k + lo <= Len(data) THEN data[k + lo] ELSE v

\* A write keeps the newest versions.
LEMMA WrittenIs ==
  ASSUME NEW data \in Seq(Versions), NEW version \in Nat, NEW req, req.client \in Clients, req.seq \in Nat,
         NEW w, w = write(data, version, req)
  PROVE  Newest(w, data, [version |-> version, client |-> req.client, seq |-> req.seq])
<1> DEFINE v == [version |-> version, client |-> req.client, seq |-> req.seq]
           all == Append(data, v)
<1>1. /\ v \in Versions /\ all \in Seq(Versions) /\ Len(data) \in Nat /\ Len(all) = Len(data) + 1
      /\ \A k \in 1 .. Len(data) : all[k] = data[k]
      /\ all[Len(data) + 1] = v
  BY DEF Versions
<1>2. PICK lo \in Nat : lo = Max({0, Len(all) - KeepVersions}) /\ lo < Len(all)
  <2>1. \A x \in Int : Max({0, x}) = IF x > 0 THEN x ELSE 0
    BY DEF Max
  <2> QED BY <1>1, <2>1, SessionsAssumption
<1> HIDE DEF v, all
<1>3. w = SubSeq(all, lo + 1, Len(all))
  BY <1>2 DEF write, all, v
<1>4. PICK n \in Nat : n = Len(data)
  BY <1>1
<1>5. /\ w \in Seq(Versions) /\ Len(w) = n + 1 - lo /\ lo <= n
      /\ \A k \in 1 .. Len(w) : w[k] = IF k + lo <= n THEN data[k + lo] ELSE v
  <2>1. lo <= n /\ Len(all) = n + 1
    BY <1>1, <1>2, <1>4
  <2>2. \A k \in lo + 1 .. n + 1 : all[k] \in Versions
    BY <1>1, <1>4
  <2>3. /\ w \in Seq(Versions)
        /\ Len(w) = IF lo + 1 <= n + 1 THEN (n + 1) - (lo + 1) + 1 ELSE 0
        /\ \A k \in 1 .. (n + 1) - (lo + 1) + 1 : w[k] = all[(lo + 1) + k - 1]
    <3>1. lo + 1 \in Int /\ n + 1 \in Int
      OBVIOUS
    <3> QED BY <1>3, <2>1, <2>2, <3>1, SubSeqProperties
  <2>4. (n + 1) - (lo + 1) + 1 = n + 1 - lo /\ \A k \in Nat : (lo + 1) + k - 1 = k + lo
    OBVIOUS
  <2>5. Len(w) = n + 1 - lo /\ \A k \in 1 .. n + 1 - lo : w[k] = all[k + lo]
    <3>1. lo + 1 <= n + 1
      BY <2>1
    <3>2. \A k \in 1 .. n + 1 - lo : k \in Nat
      OBVIOUS
    <3> QED BY Zenon, <2>3, <2>4, <3>1, <3>2
  <2>6. \A k \in 1 .. n : all[k] = data[k]
    BY <1>1, <1>4
  <2>7. all[n + 1] = v
    BY <1>1, <1>4
  <2>8. ASSUME NEW k \in 1 .. Len(w) PROVE w[k] = IF k + lo <= n THEN data[k + lo] ELSE v
    <3>1. w[k] = all[k + lo]
      BY <2>5
    <3>2. k + lo \in 1 .. n \/ k + lo = n + 1
      BY <2>1, <2>5
    <3> QED BY <2>6, <2>7, <3>1, <3>2
  <2> QED BY Zenon, <2>1, <2>3, <2>5, <2>8
<1>7. w # <<>> /\ Len(w) \in Nat /\ Len(w) + lo = n + 1
  BY <1>5
<1>8. Newest(w, data, v)
  BY Zenon, <1>4, <1>5, <1>7 DEF Newest
<1> QED BY <1>8 DEF v

\* A request that is new to its session is executed, and with the true outcome.
LEMMA ExecutedNow ==
  ASSUME NEW L, NEW s, Faithful(L, s), NEW index, index = s.applied + 1, L \in Seq(Entries),
         index <= Len(L), L[index] # Noop,
         L[index].seq > s.sessions[L[index].client].last_seq
  PROVE  /\ Executed(L, index)
         /\ execute(s, index, L[index]).outcome = TrueOutcome(L, index)
<1>0. Len(L) \in Nat /\ \A k \in 1 .. Len(L) : L[k] \in Entries /\ L[k].seq \in Nat
  BY DEF Entries, Noop
<1>1. /\ s.applied \in Nat /\ index \in Nat /\ L[index].client \in Clients /\ L[index].seq \in Nat
      /\ \A c \in Clients : s.sessions[c].last_seq \in Nat
  <2>1. s.applied \in Nat /\ \A c \in Clients : s.sessions[c].last_seq \in Nat
    BY DEF Faithful, Stores
  <2>2. index \in 1 .. Len(L)
    BY <1>0, <2>1
  <2> QED BY <1>0, <2>1, <2>2 DEF Entries
<1>2. /\ \A m : m \in 1 .. index - 1 <=> m \in 1 .. s.applied
      /\ \A m \in 1 .. index - 1 : m \in 1 .. Len(L)
  BY <1>0, <1>1
<1>3. SessionFaithful(L, s, L[index].client)
  BY <1>1 DEF Faithful
<1>4. \A m \in 1 .. index - 1 : L[m].client = L[index].client => L[m].seq < L[index].seq
  <2>1. ASSUME NEW m \in 1 .. index - 1, L[m].client = L[index].client PROVE L[m].seq < L[index].seq
    <3>1. L[m].seq <= s.sessions[L[index].client].last_seq
      BY Zenon, <1>2, <1>3, <2>1 DEF SessionFaithful
    <3>2. L[m].seq \in Nat
      BY <1>0, <1>2
    <3>3. PICK x \in Nat : x = s.sessions[L[index].client].last_seq
      BY Zenon, <1>1
    <3>4. x < L[index].seq /\ L[m].seq <= x
      BY Zenon, <3>1, <3>3
    <3> QED BY <1>1, <3>2, <3>4
  <2> QED BY <2>1
<1>5. Executed(L, index)
  BY <1>4 DEF Executed
<1>6. s.data = <<>> <=> \A m \in 1 .. index - 1 : ~ Executed(L, m)
  BY <1>2 DEF Faithful, DataFaithful
<1> QED BY <1>5, <1>6 DEF execute, TrueOutcome

\* An outcome is true, or the request has been overtaken.
Justified(L, req, outcome) ==
  \/ TrueAnswer(L, req.client, req.seq, outcome)
  \/ \E m \in 1 .. Len(L) : L[m].client = req.client /\ req.seq < L[m].seq

\* KvStore::apply: the store stays faithful, and the outcome is the true one or
\* Unavailable for a request that its client's next one has overtaken.
LEMMA ApplyFaithful ==
  ASSUME NEW L, NEW s, Faithful(L, s), NEW index, index = s.applied + 1, L \in Seq(Entries),
         index <= Len(L), NEW req, req = L[index], req # Noop, NEW a, a = apply(s, index, req)
  PROVE  Faithful(L, a.store) /\ Justified(L, req, a.outcome)
<1>0. Len(L) \in Nat /\ \A k \in 1 .. Len(L) : L[k] \in Entries /\ L[k].seq \in Nat
  BY DEF Entries, Noop
<1>1. /\ s.applied \in Nat /\ \A c \in Clients : s.sessions[c].last_seq \in Nat
      /\ s \in Stores /\ s.data \in Seq(Versions)
  BY DEF Faithful, Stores
<1>2. /\ index \in 1 .. Len(L) /\ index \in Nat
      /\ \A m \in 1 .. index : m = index \/ m \in 1 .. s.applied
      /\ \A m \in 1 .. s.applied : m \in 1 .. index /\ m \in 1 .. Len(L)
  BY <1>0, <1>1
<1>3. req.client \in Clients /\ req.seq \in Nat /\ req.seq > 0
  BY <1>0, <1>2 DEF Entries
<1>4. PICK c \in Clients : c = req.client
  BY <1>3
<1>5. PICK mine : mine = s.sessions[c]
  OBVIOUS
<1>6. SessionFaithful(L, s, c) /\ mine.last_seq \in Nat
  BY <1>1, <1>5 DEF Faithful
<1>7. a = apply(s, index, req)
  OBVIOUS
<1>8. CASE req.seq <= mine.last_seq
  <2>1. PICK n \in 1 .. s.applied :
          /\ L[n].client = c /\ L[n].seq = mine.last_seq
          /\ Executed(L, n) /\ mine.last_outcome = TrueOutcome(L, n)
    BY <1>3, <1>5, <1>6, <1>8 DEF SessionFaithful
  <2>2. a.store = [s EXCEPT !.applied = index]
        /\ (req.seq = mine.last_seq => a.outcome = mine.last_outcome)
    <3>1. s.sessions[req.client] = mine
      BY <1>4, <1>5
    <3>2. CASE req.seq = mine.last_seq
      BY <1>3, <1>7, <3>1, <3>2 DEF apply
    <3>3. CASE req.seq # mine.last_seq
      <4>1. req.seq < mine.last_seq
        BY <1>3, <1>6, <1>8, <3>3
      <4> QED BY <1>7, <3>1, <3>3, <4>1 DEF apply
    <3> QED BY <3>2, <3>3
  <2>3. \/ TrueAnswer(L, req.client, req.seq, a.outcome)
        \/ \E m \in 1 .. Len(L) : L[m].client = req.client /\ req.seq < L[m].seq
    <3>1. CASE req.seq = mine.last_seq
      BY Zenon, <1>2, <1>4, <2>1, <2>2, <3>1 DEF TrueAnswer
    <3>2. CASE req.seq < mine.last_seq
      BY <1>2, <1>4, <2>1, <3>2
    <3> QED BY <1>3, <1>6, <1>8, <3>1, <3>2
  <2>4. PICK t : t = [s EXCEPT !.applied = index]
    BY Zenon
  <2>5. t \in Stores /\ t.data = s.data /\ t.applied = index /\ t.sessions = s.sessions
    BY Zenon, <1>1, <1>2, <2>4 DEF Stores
  <2>6. ~ Executed(L, index)
    <3>1. n \in 1 .. index - 1 /\ L[n].client = L[index].client /\ ~ (L[n].seq < L[index].seq)
      BY <1>1, <1>2, <1>3, <1>4, <1>6, <1>8, <2>1
    <3> QED BY <3>1 DEF Executed
  <2>7. ASSUME NEW d \in Clients PROVE SessionFaithful(L, t, d)
    <3>1. SessionFaithful(L, s, d)
      BY DEF Faithful
    <3>2. \A m \in 1 .. index : L[m].client = d => L[m].seq <= s.sessions[d].last_seq
      BY <1>2, <1>4, <1>5, <1>8, <3>1 DEF SessionFaithful
    <3> QED BY <1>2, <2>5, <3>1, <3>2 DEF SessionFaithful
  <2>8. DataFaithful(L, t)
    BY <1>2, <2>5, <2>6 DEF Faithful, DataFaithful
  <2>9. Faithful(L, t)
    BY <1>0, <1>2, <2>5, <2>7, <2>8 DEF Faithful
  <2> QED BY Zenon, <2>2, <2>3, <2>4, <2>9 DEF Justified
<1>9. CASE ~ (req.seq <= mine.last_seq)
  <2>1. Executed(L, index) /\ execute(s, index, req).outcome = TrueOutcome(L, index)
    BY <1>3, <1>4, <1>5, <1>6, <1>9, ExecutedNow
  <2>2. PICK e : e = execute(s, index, req)
    OBVIOUS
  <2>3. a = [store |-> [data |-> e.data, applied |-> index,
                        sessions |-> [s.sessions EXCEPT ![c] =
                          [last_seq |-> req.seq, last_outcome |-> e.outcome]]],
             outcome |-> e.outcome]
    <3>1. s.sessions[req.client] = mine
      BY <1>4, <1>5
    <3>2. req.seq # mine.last_seq /\ ~ (req.seq < mine.last_seq)
      BY <1>3, <1>6, <1>9
    <3> QED BY <1>4, <1>7, <2>2, <3>1, <3>2 DEF apply
  <2>4. TrueAnswer(L, req.client, req.seq, a.outcome)
    BY <1>2, <2>1, <2>2, <2>3 DEF TrueAnswer
  <2>5. PICK t : t = a.store
    OBVIOUS
  <2>6. /\ t = [data |-> e.data, applied |-> index, sessions |-> t.sessions]
        /\ t.sessions = [s.sessions EXCEPT ![c] = [last_seq |-> req.seq, last_outcome |-> e.outcome]]
    BY <2>3, <2>5
  <2>7. e.outcome \in Outcomes
    BY <1>2, <2>2 DEF execute, Applied, CasFailed, Outcome, Outcomes
  <2>8. /\ t.sessions \in [Clients -> [last_seq : Nat, last_outcome : Outcomes]]
        /\ t.sessions[c] = [last_seq |-> req.seq, last_outcome |-> e.outcome]
        /\ \A d \in Clients : d # c => t.sessions[d] = s.sessions[d]
    <3>1. s.sessions \in [Clients -> [last_seq : Nat, last_outcome : Outcomes]]
      BY <1>1 DEF Stores
    <3>2. [last_seq |-> req.seq, last_outcome |-> e.outcome]
            \in [last_seq : Nat, last_outcome : Outcomes]
      BY <1>3, <2>7
    <3> QED BY <2>6, <3>1, <3>2
  <2>9. ASSUME NEW d \in Clients PROVE SessionFaithful(L, t, d)
    <3>1. SessionFaithful(L, s, d) /\ t.applied = index
      BY <2>6 DEF Faithful
    <3>2. CASE d = c
      <4>1. t.sessions[d].last_seq = req.seq /\ t.sessions[d].last_outcome = TrueOutcome(L, index)
        BY <2>1, <2>2, <2>8, <3>2
      <4>2. \A m \in 1 .. index : L[m].client = d => L[m].seq <= req.seq
        <5>1. \A m \in 1 .. s.applied : L[m].client = d => L[m].seq <= mine.last_seq
          BY <1>5, <3>1, <3>2 DEF SessionFaithful
        <5>2. mine.last_seq <= req.seq
          BY <1>3, <1>6, <1>9
        <5>3. \A m \in 1 .. s.applied : L[m].seq \in Nat
          BY <1>0, <1>2
        <5>4. \A m \in 1 .. s.applied : L[m].client = d => L[m].seq <= req.seq
          BY <1>3, <1>6, <5>1, <5>2, <5>3
        <5> QED BY <1>2, <1>3, <5>4
      <4>3. index \in 1 .. index /\ L[index].client = d /\ L[index].seq = req.seq /\ req.seq # 0
        BY <1>2, <1>3, <1>4, <3>2
      <4> QED BY Zenon, <2>1, <3>1, <4>1, <4>2, <4>3 DEF SessionFaithful
    <3>3. CASE d # c
      <4>1. t.sessions[d] = s.sessions[d] /\ L[index].client # d
        BY Zenon, <1>4, <2>8, <3>3
      <4> QED BY <1>2, <3>1, <4>1 DEF SessionFaithful
    <3> QED BY <3>2, <3>3
  <2>10. /\ e.data \in Seq(Versions) /\ e.data # <<>>
         /\ \A k \in 1 .. Len(e.data) : e.data[k].seq <= t.sessions[e.data[k].client].last_seq
         /\ \A m, n \in 1 .. Len(e.data) :
              m < n /\ e.data[m].client = e.data[n].client => e.data[m].seq < e.data[n].seq
    <3>1. DataFaithful(L, s)
      BY DEF Faithful
    <3>2. \A k \in 1 .. Len(s.data) :
            /\ s.data[k].client \in Clients /\ s.data[k].seq \in Nat
            /\ s.data[k].seq <= t.sessions[s.data[k].client].last_seq
            /\ s.data[k].client = c => s.data[k].seq < req.seq
      <4>1. ASSUME NEW k \in 1 .. Len(s.data)
            PROVE  s.data[k].client \in Clients /\ s.data[k].seq \in Nat
        <5>1. s.data[k] \in Versions
          BY <1>1
        <5> QED BY <5>1 DEF Versions
      <4>2. \A k \in 1 .. Len(s.data) : s.data[k].seq <= s.sessions[s.data[k].client].last_seq
        BY <3>1 DEF DataFaithful
      <4>3. t.sessions[c].last_seq = req.seq
        BY <2>8
      <4>4. ASSUME NEW k \in 1 .. Len(s.data)
            PROVE  /\ s.data[k].seq <= t.sessions[s.data[k].client].last_seq
                   /\ s.data[k].client = c => s.data[k].seq < req.seq
        <5>1. CASE s.data[k].client = c
          <6>1. s.data[k].seq <= mine.last_seq
            BY <1>5, <4>2, <5>1
          <6> QED BY <1>3, <1>6, <1>9, <4>1, <4>3, <5>1, <6>1
        <5>2. CASE s.data[k].client # c
          BY Zenon, <2>8, <4>1, <4>2, <5>2
        <5> QED BY <5>1, <5>2
      <4> QED BY <4>1, <4>4
    <3>3. CASE e.data = s.data /\ s.data # <<>>
      BY Zenon, <1>1, <3>1, <3>2, <3>3 DEF DataFaithful
    <3>4. CASE e.data = write(s.data, index, req)
      <4>1. PICK w : w = e.data
        OBVIOUS
      <4>2. /\ Newest(w, s.data, [version |-> index, client |-> req.client, seq |-> req.seq])
            /\ w \in Seq(Versions) /\ w # <<>> /\ Len(w) \in Nat
        <5>1. w = write(s.data, index, req)
          BY <3>4, <4>1
        <5>2. index \in Nat /\ s.data \in Seq(Versions)
          BY <1>1, <1>2
        <5>3. Newest(w, s.data, [version |-> index, client |-> req.client, seq |-> req.seq])
          BY ZenonT(60), <1>3, <5>1, <5>2, WrittenIs
        <5> QED BY Zenon, <5>3 DEF Newest
      <4>3. PICK n \in Nat : n = Len(s.data)
        BY <1>1
      <4>4. PICK lo \in Nat :
              /\ Len(w) + lo = n + 1
              /\ \A k \in 1 .. Len(w) :
                   w[k] = IF k + lo <= n THEN s.data[k + lo]
                          ELSE [version |-> index, client |-> req.client, seq |-> req.seq]
        BY Zenon, <4>2, <4>3 DEF Newest
      <4>5. \A k \in 1 .. Len(w) :
              \/ k + lo \in 1 .. n /\ w[k] = s.data[k + lo]
              \/ k + lo = n + 1 /\ w[k].client = c /\ w[k].seq = req.seq
        BY <1>4, <4>2, <4>4
      <4>6. \A k \in 1 .. Len(w) : w[k].seq <= t.sessions[w[k].client].last_seq
        <5>1. t.sessions[c].last_seq = req.seq
          BY <2>8
        <5>2. ASSUME NEW k \in 1 .. Len(w) PROVE w[k].seq <= t.sessions[w[k].client].last_seq
          <6>1. CASE k + lo \in 1 .. n /\ w[k] = s.data[k + lo]
            BY <3>2, <4>3, <6>1
          <6>2. CASE w[k].client = c /\ w[k].seq = req.seq
            BY <1>3, <5>1, <6>2
          <6> QED BY <4>5, <6>1, <6>2
        <5> QED BY <5>2
      <4>7. ASSUME NEW k \in 1 .. Len(w), NEW m \in 1 .. Len(w), k < m, w[k].client = w[m].client
            PROVE  w[k].seq < w[m].seq
        <5>1. k + lo \in 1 .. n /\ w[k] = s.data[k + lo] /\ k + lo < m + lo
          BY <4>2, <4>5, <4>7
        <5>2. CASE m + lo = n + 1 /\ w[m].client = c /\ w[m].seq = req.seq
          BY Zenon, <3>2, <4>3, <4>7, <5>1, <5>2
        <5>3. CASE m + lo \in 1 .. n /\ w[m] = s.data[m + lo]
          BY Zenon, <3>1, <4>3, <4>7, <5>1, <5>3 DEF DataFaithful
        <5> QED BY <4>5, <5>2, <5>3
      <4> QED BY <4>1, <4>2, <4>6, <4>7
    <3> QED BY Zenon, <2>2, <3>3, <3>4 DEF execute
  <2>11. t \in Stores /\ t.applied = index /\ t.data = e.data
    <3>1. index \in Nat
      BY <1>2
    <3>2. PICK data, sessions :
            /\ data = e.data /\ sessions = t.sessions /\ data \in Seq(Versions)
            /\ sessions \in [Clients -> [last_seq : Nat, last_outcome : Outcomes]]
            /\ t = [data |-> data, applied |-> index, sessions |-> sessions]
      BY Zenon, <2>6, <2>8, <2>10
    <3>3. t \in Stores /\ t.applied = index /\ t.data = data
      BY <3>1, <3>2, StoreMade
    <3> QED BY Zenon, <3>2, <3>3
  <2>12. DataFaithful(L, t)
    <3>1. ~ \A m \in 1 .. t.applied : ~ Executed(L, m)
      BY <1>2, <2>1, <2>11
    <3> QED BY Zenon, <2>10, <2>11, <3>1 DEF DataFaithful
  <2>13. Faithful(L, t)
    BY Zenon, <1>0, <1>2, <2>9, <2>11, <2>12 DEF Faithful
  <2> QED BY Zenon, <1>7, <2>4, <2>5, <2>13 DEF Justified
<1> QED BY <1>8, <1>9

\* The agreed log only grows, and the store that applies its next entry is told
\* of the entry that is agreed there.
LEMMA CommittedGrows ==
  ASSUME SessionsInv, NEW i \in Server, apply_committed(i)
  PROVE  LET index == kv[i].applied + 1
             req == (IF i = leader THEN log[i] ELSE committed)[index]
         IN  /\ committed' \in Seq(Entries) /\ Len(committed) <= Len(committed')
             /\ \A k \in 1 .. Len(committed) : committed'[k] = committed[k]
             /\ index \in 1 .. Len(committed') /\ committed'[index] = req
             /\ \A k \in 1 .. Len(committed') : Issued(committed'[k].client, committed'[k].seq)
             /\ leader \in Server =>
                  /\ Len(committed') <= Len(log[leader])
                  /\ \A k \in 1 .. Len(committed') : log[leader][k] = committed'[k]
<1> DEFINE index == kv[i].applied + 1
           known == IF i = leader THEN log[i] ELSE committed
           req == known[index]
<1>1. /\ committed \in Seq(Entries) /\ Len(committed) \in Nat
      /\ log[i] \in Seq(Entries) /\ Len(log[i]) \in Nat
  BY DEF SessionsInv, LogsTyped
<1>2. kv[i].applied \in Nat /\ kv[i].applied <= Len(committed)
  BY Zenon DEF SessionsInv, StoresFaithful, Faithful, Stores
<1>3. /\ index <= Len(known)
      /\ committed' = IF index > Len(committed) THEN Append(committed, req) ELSE committed
  BY DEF apply_committed
<1>4. /\ leader \in Server =>
           /\ Len(committed) <= Len(log[leader])
           /\ \A k \in 1 .. Len(committed) : log[leader][k] = committed[k]
      /\ \A k \in 1 .. Len(committed) : Issued(committed[k].client, committed[k].seq)
      /\ \A k \in 1 .. Len(log[i]) : Issued(log[i][k].client, log[i][k].seq)
  BY DEF SessionsInv, LeaderHasAll, CallsNumbered
<1>5. CASE index <= Len(committed)
  <2>1. committed' = committed /\ index \in 1 .. Len(committed)
    BY <1>1, <1>2, <1>3, <1>5
  <2>2. req = committed[index]
    BY <1>4, <2>1
  <2> QED BY <1>1, <1>4, <2>1, <2>2
<1>6. CASE index > Len(committed)
  <2>1. i = leader /\ known = log[i]
    BY <1>1, <1>2, <1>3, <1>6
  <2>2. index = Len(committed) + 1 /\ index \in 1 .. Len(log[i]) /\ req = log[i][index]
    BY <1>1, <1>2, <1>3, <1>6, <2>1
  <2>3. req \in Entries /\ committed' = Append(committed, req) /\ Issued(req.client, req.seq)
    BY <1>1, <1>3, <1>4, <1>6, <2>2
  <2>4. PICK n \in Nat : n = Len(committed)
    BY <1>1
  <2>5. PICK e \in Entries : e = req
    BY Zenon, <2>3
  <2>6. /\ committed' \in Seq(Entries) /\ Len(committed') = n + 1 /\ committed'[n + 1] = e
        /\ \A k \in 1 .. n : committed'[k] = committed[k]
    BY Zenon, <1>1, <2>3, <2>4, <2>5, EntryAppended
  <2>7. \A k \in 1 .. n + 1 : k \in 1 .. n \/ k = n + 1
    OBVIOUS
  <2>8. n + 1 <= Len(log[leader]) /\ log[leader][n + 1] = e /\ index = n + 1
    BY <1>1, <2>1, <2>2, <2>4, <2>5
  <2>9. \A k \in 1 .. n + 1 : /\ Issued(committed'[k].client, committed'[k].seq)
                              /\ log[leader][k] = committed'[k]
    BY Zenon, <1>4, <2>1, <2>3, <2>4, <2>5, <2>6, <2>7, <2>8
  <2> HIDE DEF index, known, req
  <2>10. n <= n + 1 /\ index \in 1 .. n + 1
    BY <2>8
  <2>11. /\ committed' \in Seq(Entries) /\ Len(committed) <= Len(committed')
         /\ \A k \in 1 .. Len(committed) : committed'[k] = committed[k]
         /\ index \in 1 .. Len(committed') /\ committed'[index] = req
         /\ \A k \in 1 .. Len(committed') : Issued(committed'[k].client, committed'[k].seq)
         /\ leader \in Server =>
              /\ Len(committed') <= Len(log[leader])
              /\ \A k \in 1 .. Len(committed') : log[leader][k] = committed'[k]
    BY Zenon, <2>4, <2>5, <2>6, <2>8, <2>9, <2>10
  <2> QED BY <2>11 DEF index, known, req
<1> QED BY <1>1, <1>2, <1>5, <1>6

SessionTyped(c, q) ==
  /\ q = [seq |-> q.seq, token |-> q.token, attempts |-> q.attempts, hint |-> q.hint,
          servers |-> q.servers, phase |-> q.phase, armed |-> q.armed]
  /\ q.seq \in 0 .. Len(Script[c])
  /\ q.phase # "idle" => q.seq > 0

\* A step of a client.
LEMMA ClientStep ==
  ASSUME SessionsInv, NEW c \in Client, NEW q, session' = [session EXCEPT ![c] = q],
         SessionTyped(c, q), q.seq >= session[c].seq,
         UNCHANGED servers, replies' = replies,
         \A m \in requests' : \/ m \in requests
                              \/ m.client = c /\ m.seq \in 1 .. q.seq /\ m.op \in Ops,
         AnswersAreTrue'
  PROVE  SessionsInv'
<1>0. /\ committed' = committed /\ log' = log /\ leader' = leader /\ kv' = kv /\ saved' = saved
  BY DEF servers
<1>1. /\ session' = [d \in Client |-> session'[d]]
      /\ \A d \in Client : SessionTyped(d, session'[d]) /\ session'[d].seq >= session[d].seq
  <2>1. /\ session = [d \in Client |-> session[d]]
        /\ \A d \in Client : SessionTyped(d, session[d]) /\ session[d].seq \in Nat
    BY SessionsAssumption DEF SessionsInv, CallsNumbered, SessionTyped
  <2>2. DOMAIN session = Client
    BY <2>1
  <2>3. /\ session'[c] = q /\ \A d \in Client : d # c => session'[d] = session[d]
        /\ session' = [d \in Client |-> session'[d]]
    BY Zenon, <2>2
  <2> QED BY <2>1, <2>3
<1>2. \A d \in Client : session[d].seq \in Nat /\ session'[d].seq \in Nat /\ session'[d].seq >= session[d].seq
  BY <1>1, SessionsAssumption DEF SessionsInv, CallsNumbered, SessionTyped
<1>3. \A client : \A seq \in Nat : Issued(client, seq) => Issued(client, seq)'
  BY <1>2 DEF Issued
<1>4. LogsTyped'
  <2>1. c \in Clients /\ \A x \in 1 .. q.seq : x \in Nat \ {0}
    BY SessionsAssumption DEF Clients, SessionTyped
  <2> QED BY <1>0, <2>1 DEF SessionsInv, LogsTyped
<1>5. CallsNumbered'
  <2>1. \A i \in Server : \A k \in 1 .. Len(log[i]) :
          log[i][k].seq \in Nat /\ Issued(log[i][k].client, log[i][k].seq)
    BY DEF SessionsInv, LogsTyped, CallsNumbered, Entries, Noop
  <2>2. \A k \in 1 .. Len(committed) :
          committed[k].seq \in Nat /\ Issued(committed[k].client, committed[k].seq)
    BY DEF SessionsInv, LogsTyped, CallsNumbered, Entries, Noop
  <2>3. \A m \in requests : m.seq \in Nat /\ Issued(m.client, m.seq)
    BY DEF SessionsInv, LogsTyped, CallsNumbered
  <2>4. session'[c] = q
    BY DEF SessionsInv, CallsNumbered
  <2>5. \A m \in requests' : Issued(m.client, m.seq)'
    BY <1>1, <1>3, <2>3, <2>4 DEF Issued
  <2>6. \A i \in Server : \A k \in 1 .. Len(log[i]) : Issued(log[i][k].client, log[i][k].seq)'
    BY Zenon, <1>0, <1>3, <2>1 DEF Issued
  <2>7. \A k \in 1 .. Len(committed) : Issued(committed[k].client, committed[k].seq)'
    BY <1>0, <1>3, <2>2 DEF Issued
  <2> QED BY Zenon, <1>0, <1>1, <2>5, <2>6, <2>7 DEF CallsNumbered, SessionTyped
<1>6. LeaderHasAll' /\ StoresFaithful' /\ RepliesTrue'
  BY <1>0 DEF SessionsInv, LeaderHasAll, StoresFaithful, RepliesTrue
<1> QED BY <1>4, <1>5, <1>6 DEF SessionsInv

\* The fields of a client's session.
LEMMA SessionIs ==
  ASSUME SessionsInv, NEW c \in Client
  PROVE  SessionTyped(c, session[c]) /\ session[c].seq \in Nat /\ Len(Script[c]) \in Nat
  BY SessionsAssumption DEF SessionsInv, CallsNumbered, SessionTyped

\* A call starts, or a deadline passes.
LEMMA CallKeeps ==
  ASSUME SessionsInv, NEW c \in Client, call(c) \/ deadline(c)
  PROVE  SessionsInv'
<1>1. UNCHANGED servers /\ replies' = replies /\ requests' = requests /\ AnswersAreTrue'
  BY DEF call, deadline, servers, SessionsInv, AnswersAreTrue
<1>2. PICK s : s = session[c]
  OBVIOUS
<1>3. SessionTyped(c, s) /\ s.seq \in Nat /\ Len(Script[c]) \in Nat
  BY <1>2, SessionIs
<1>4. CASE call(c)
  <2>1. PICK q : q = [s EXCEPT !.seq = @ + 1, !.attempts = 0, !.phase = "ready"]
    OBVIOUS
  <2>2. session' = [session EXCEPT ![c] = q] /\ s.seq < Len(Script[c])
    BY <1>2, <1>4, <2>1 DEF call
  <2>3. /\ q = [seq |-> s.seq + 1, token |-> s.token, attempts |-> 0, hint |-> s.hint,
                servers |-> s.servers, phase |-> "ready", armed |-> s.armed]
    BY Zenon, <1>3, <2>1 DEF SessionTyped
  <2>4. SessionTyped(c, q) /\ q.seq >= s.seq
    BY <1>3, <2>2, <2>3 DEF SessionTyped
  <2> QED BY Zenon, <1>1, <1>2, <2>2, <2>4, ClientStep
<1>5. CASE deadline(c)
  <2>0. PICK t : t = Min(session[c].armed)
    OBVIOUS
  <2>1. PICK p : p = IF s.phase = "waiting" /\ t = s.token THEN "ready" ELSE s.phase
    OBVIOUS
  <2>2. PICK q : q = [s EXCEPT !.armed = @ \ {t}, !.phase = IF @ = "waiting" /\ t = s.token THEN "ready" ELSE @]
    OBVIOUS
  <2>3. session' = [session EXCEPT ![c] = q]
    BY <1>2, <1>5, <2>0, <2>2 DEF deadline
  <2>4. q = [seq |-> s.seq, token |-> s.token, attempts |-> s.attempts, hint |-> s.hint,
             servers |-> s.servers, phase |-> p, armed |-> s.armed \ {t}]
    BY Zenon, <1>3, <2>1, <2>2 DEF SessionTyped
  <2>5. SessionTyped(c, q) /\ q.seq >= s.seq
    BY <1>3, <2>1, <2>4 DEF SessionTyped
  <2> QED BY Zenon, <1>1, <1>2, <2>3, <2>5, ClientStep
<1> QED BY <1>4, <1>5

\* An attempt sends a number its client has come to.
LEMMA AttemptKeeps ==
  ASSUME SessionsInv, NEW c \in Client, attempt(c)
  PROVE  SessionsInv'
<1>1. UNCHANGED servers /\ replies' = replies /\ AnswersAreTrue'
  BY DEF attempt, servers, SessionsInv, AnswersAreTrue
<1>2. PICK s : s = session[c]
  OBVIOUS
<1>3. SessionTyped(c, s) /\ s.seq \in Nat /\ Len(Script[c]) \in Nat
  BY <1>2, SessionIs
<1>4. s.phase = "ready" /\ s.seq > 0 /\ s.seq \in 1 .. Len(Script[c])
  BY <1>2, <1>3 DEF attempt, SessionTyped
<1>5. PICK q : q = [s EXCEPT !.attempts = @ + 1, !.token = @ + 1, !.phase = "waiting",
                             !.armed = @ \cup deadlines(c)]
  OBVIOUS
<1>6. session' = [session EXCEPT ![c] = q]
  BY <1>2, <1>5 DEF attempt
<1>7. q = [seq |-> s.seq, token |-> s.token + 1, attempts |-> s.attempts + 1, hint |-> s.hint,
           servers |-> s.servers, phase |-> "waiting", armed |-> s.armed \cup deadlines(c)]
  BY Zenon, <1>3, <1>5 DEF SessionTyped
<1>8. SessionTyped(c, q) /\ q.seq >= s.seq /\ q.seq = s.seq
  BY <1>3, <1>4, <1>7 DEF SessionTyped
<1>9. Script[c][s.seq] \in Ops
  BY <1>4, SessionsAssumption DEF Ops
<1>10. \A m \in requests' : \/ m \in requests
                            \/ m.client = c /\ m.seq \in 1 .. q.seq /\ m.op \in Ops
  <2>1. PICK to : requests' = requests \cup {[to |-> to, client |-> c, seq |-> s.seq, op |-> Script[c][s.seq]]}
    BY <1>2 DEF attempt
  <2> QED BY <1>4, <1>8, <1>9, <2>1
<1> QED BY Zenon, <1>1, <1>2, <1>6, <1>8, <1>10, ClientStep

\* The end of an attempt: the call is over, or tries again.
Ends(s, q) ==
  /\ q = [seq |-> s.seq, token |-> s.token, attempts |-> s.attempts, hint |-> q.hint,
          servers |-> q.servers, phase |-> q.phase, armed |-> s.armed]
  /\ q.phase \in {"idle", "ready"}

LEMMA EndsIs ==
  ASSUME NEW c, NEW s, SessionTyped(c, s), NEW hint
  PROVE  /\ Ends(s, [s EXCEPT !.phase = "idle"])
         /\ Ends(s, [s EXCEPT !.hint = None, !.phase = "ready"])
         /\ Ends(s, [learn(s, hint) EXCEPT !.phase = "ready"])
<1>1. PICK seq, token, attempts, h, known, phase, armed :
        s = [seq |-> seq, token |-> token, attempts |-> attempts, hint |-> h,
             servers |-> known, phase |-> phase, armed |-> armed]
  BY DEF SessionTyped
<1>2. /\ s.seq = seq /\ s.token = token /\ s.attempts = attempts /\ s.armed = armed
  BY <1>1
<1>3. [s EXCEPT !.phase = "idle"] =
        [seq |-> seq, token |-> token, attempts |-> attempts, hint |-> h,
         servers |-> known, phase |-> "idle", armed |-> armed]
  BY <1>1
<1>4. [s EXCEPT !.hint = None, !.phase = "ready"] =
        [seq |-> seq, token |-> token, attempts |-> attempts, hint |-> None,
         servers |-> known, phase |-> "ready", armed |-> armed]
  <2>1. PICK t : t = [s EXCEPT !.hint = None]
    BY Zenon
  <2>2. t = [seq |-> seq, token |-> token, attempts |-> attempts, hint |-> None,
             servers |-> known, phase |-> phase, armed |-> armed]
    BY <1>1, <2>1
  <2>3. [t EXCEPT !.phase = "ready"] =
          [seq |-> seq, token |-> token, attempts |-> attempts, hint |-> None,
           servers |-> known, phase |-> "ready", armed |-> armed]
    BY <2>2
  <2> QED BY Zenon, <2>1, <2>3
<1>5. PICK more : more = IF hint = None THEN known ELSE known \cup {hint}
  BY Zenon
<1>6. learn(s, hint) =
        [seq |-> seq, token |-> token, attempts |-> attempts, hint |-> hint,
         servers |-> more, phase |-> phase, armed |-> armed]
  <2>1. PICK t : t = [s EXCEPT !.hint = hint]
    OBVIOUS
  <2>2. t = [seq |-> seq, token |-> token, attempts |-> attempts, hint |-> hint,
             servers |-> known, phase |-> phase, armed |-> armed]
    BY <1>1, <2>1
  <2>3. [t EXCEPT !.servers = more] =
          [seq |-> seq, token |-> token, attempts |-> attempts, hint |-> hint,
           servers |-> more, phase |-> phase, armed |-> armed]
    BY <2>2
  <2>4. s.servers = known
    BY <1>1
  <2> QED BY Zenon, <1>5, <2>1, <2>3, <2>4 DEF learn
<1>7. [learn(s, hint) EXCEPT !.phase = "ready"] =
        [seq |-> seq, token |-> token, attempts |-> attempts, hint |-> hint,
         servers |-> more, phase |-> "ready", armed |-> armed]
  BY <1>6
<1>8. ASSUME NEW x, NEW y, NEW z \in {"idle", "ready"}, NEW q,
             q = [seq |-> seq, token |-> token, attempts |-> attempts, hint |-> x,
                  servers |-> y, phase |-> z, armed |-> armed]
      PROVE  Ends(s, q)
  BY <1>2, <1>8 DEF Ends
<1> QED BY Zenon, <1>3, <1>4, <1>7, <1>8

\* What a call returns was in its reply.
LEMMA ReturnKeeps ==
  ASSUME SessionsInv, NEW c \in Client, give_up(c) \/ receive(c)
  PROVE  SessionsInv'
<1>1. UNCHANGED servers /\ replies' = replies /\ requests' = requests /\ committed' = committed
  BY DEF give_up, receive, servers
<1>2. PICK s : s = session[c]
  OBVIOUS
<1>3. SessionTyped(c, s) /\ s.seq \in Nat /\ Len(Script[c]) \in Nat
  BY <1>2, SessionIs
<1>4. ASSUME NEW q, Ends(s, q), s.phase # "idle", session' = [session EXCEPT ![c] = q],
             AnswersAreTrue'
      PROVE  SessionsInv'
  <2>1. SessionTyped(c, q) /\ q.seq >= s.seq
    BY <1>3, <1>4 DEF SessionTyped, Ends
  <2> QED BY Zenon, <1>1, <1>2, <1>4, <2>1, ClientStep
<1>5. ASSUME NEW r, r \in replies, r.client = c, r.seq = s.seq,
             r.outcome.kind # "not_leader", Return(c, r.outcome)
      PROVE  AnswersAreTrue'
  <2>1. TrueAnswer(committed, c, s.seq, r.outcome)
    BY <1>5 DEF SessionsInv, RepliesTrue
  <2>2. results' = results \cup {[client |-> c, seq |-> s.seq, op |-> Script[c][s.seq],
                                  result |-> r.outcome]}
    BY <1>2, <1>5 DEF Return
  <2> QED BY <1>1, <2>1, <2>2 DEF SessionsInv, AnswersAreTrue
<1>6. CASE give_up(c)
  <2>1. session' = [session EXCEPT ![c] = [s EXCEPT !.phase = "idle"]] /\ s.phase # "idle"
    BY <1>2, <1>6 DEF give_up
  <2>2. AnswersAreTrue'
    <3>1. results' = results \cup {[client |-> c, seq |-> s.seq, op |-> Script[c][s.seq],
                                    result |-> Outcome("unknown", 0)]}
      BY <1>2, <1>6 DEF give_up, Return
    <3>2. Outcome("unknown", 0).kind = "unknown"
      BY Zenon DEF Outcome
    <3> QED BY <1>1, <3>1, <3>2 DEF SessionsInv, AnswersAreTrue
  <2>3. Ends(s, [s EXCEPT !.phase = "idle"])
    BY Zenon, <1>3, EndsIs
  <2> QED BY ZenonT(60), <1>4, <2>1, <2>2, <2>3
<1>7. CASE receive(c)
  <2>1. PICK r \in replies :
          /\ answers_call(c, r) /\ s.phase = "waiting"
          /\ \/ /\ session' = [session EXCEPT ![c] = [learn(s, r.outcome.hint) EXCEPT !.phase = "ready"]]
                /\ UNCHANGED results
             \/ /\ session' = [session EXCEPT ![c] = [s EXCEPT !.hint = None, !.phase = "ready"]]
                /\ UNCHANGED results
             \/ /\ r.outcome.kind # "not_leader"
                /\ session' = [session EXCEPT ![c] = [s EXCEPT !.phase = "idle"]]
                /\ Return(c, r.outcome)
    BY <1>2, <1>7 DEF receive
  <2>2. r.client = c /\ r.seq = s.seq /\ s.phase # "idle"
    BY <1>2, <2>1 DEF answers_call
  <2>3. UNCHANGED results => AnswersAreTrue'
    BY <1>1 DEF SessionsInv, AnswersAreTrue
  <2>4. \E q : Ends(s, q) /\ session' = [session EXCEPT ![c] = q]
    <3>1. /\ Ends(s, [s EXCEPT !.phase = "idle"])
          /\ Ends(s, [s EXCEPT !.hint = None, !.phase = "ready"])
          /\ Ends(s, [learn(s, r.outcome.hint) EXCEPT !.phase = "ready"])
      BY Zenon, <1>3, EndsIs
    <3> QED BY ZenonT(60), <2>1, <3>1
  <2>5. AnswersAreTrue'
    BY ZenonT(60), <1>5, <2>1, <2>2, <2>3
  <2> QED BY Zenon, <1>4, <2>2, <2>4, <2>5
<1> QED BY <1>6, <1>7

\* Servers redirect, whatever they have accepted.
LEMMA RedirectTrue ==
  ASSUME SessionsInv, NEW answers, Send(answers), committed' = committed,
         \A r \in answers : r.outcome.kind = "not_leader"
  PROVE  RepliesTrue'
<1>1. \A r \in replies' : r \in replies \/ (r \in answers /\ r.client \in Client)
  BY DEF Send
<1> QED BY <1>1 DEF SessionsInv, RepliesTrue

\* A redirect is no answer.
LEMMA NotLeaderKind ==
  ASSUME NEW p, NEW hint
  PROVE  Reply(p, NotLeader(hint)).outcome.kind = "not_leader"
  BY DEF Reply, NotLeader

\* A server's log changes, and nothing else that the invariant is about.
LEMMA LogKeeps ==
  ASSUME SessionsInv, NEW i \in Server, NEW l \in Seq(Entries), log' = [log EXCEPT ![i] = l],
         leader' = leader \/ leader' = i,
         leader' = i => /\ Len(committed) <= Len(l)
                        /\ \A k \in 1 .. Len(committed) : l[k] = committed[k],
         \A k \in 1 .. Len(l) : Issued(l[k].client, l[k].seq),
         UNCHANGED <<committed, kv, saved, session, requests, results>>, RepliesTrue'
  PROVE  SessionsInv'
<1>1. /\ log'[i] = l /\ \A j \in Server : j # i => log'[j] = log[j]
      /\ log' \in [Server -> Seq(Entries)]
  BY DEF SessionsInv, LogsTyped
<1>2. LogsTyped'
  BY Zenon, <1>1 DEF SessionsInv, LogsTyped
<1>3. CallsNumbered'
  <2>1. \A j \in Server : \A k \in 1 .. Len(log'[j]) : Issued(log'[j][k].client, log'[j][k].seq)
    BY <1>1 DEF SessionsInv, CallsNumbered
  <2>2. \A client, seq : Issued(client, seq)' <=> Issued(client, seq)
    BY DEF Issued
  <2> QED BY <2>1, <2>2 DEF SessionsInv, CallsNumbered, Issued
<1>4. LeaderHasAll'
  BY <1>1 DEF SessionsInv, LeaderHasAll
<1>5. StoresFaithful' /\ AnswersAreTrue'
  BY DEF SessionsInv, StoresFaithful, AnswersAreTrue
<1> QED BY Zenon, <1>2, <1>3, <1>4, <1>5 DEF SessionsInv

\* Nothing changes but what is pending, who leads, and replies.
LEMMA RepliesKeep ==
  ASSUME SessionsInv, leader' = leader \/ leader' = None,
         UNCHANGED <<committed, log, kv, saved, session, requests, results>>, RepliesTrue'
  PROVE  SessionsInv'
<1>1. LogsTyped' /\ CallsNumbered'
  BY DEF SessionsInv, LogsTyped, CallsNumbered, Issued
<1>2. LeaderHasAll'
  BY SessionsAssumption DEF SessionsInv, LeaderHasAll
<1>3. StoresFaithful' /\ AnswersAreTrue'
  BY DEF SessionsInv, StoresFaithful, AnswersAreTrue
<1> QED BY Zenon, <1>1, <1>2, <1>3 DEF SessionsInv

\* A leader appends a request; another server redirects.
LEMMA HandleKeeps ==
  ASSUME SessionsInv, handle_client
  PROVE  SessionsInv'
<1>1. UNCHANGED <<committed, leader, leading, kv, saved, session, requests, results, used>>
  BY DEF handle_client
<1>2. PICK m \in requests :
        \/ /\ log' = [log EXCEPT ![m.to] = Append(log[m.to], [client |-> m.client, seq |-> m.seq, op |-> m.op])]
           /\ UNCHANGED replies
        \/ /\ Send({Reply([client |-> m.client, seq |-> m.seq, op |-> m.op], NotLeader(Hint(m.to)))})
           /\ UNCHANGED log
  BY Zenon DEF handle_client
<1>3. CASE /\ Send({Reply([client |-> m.client, seq |-> m.seq, op |-> m.op], NotLeader(Hint(m.to)))})
           /\ UNCHANGED log
  <2>1. RepliesTrue'
    BY <1>1, <1>3, RedirectTrue, NotLeaderKind
  <2> QED BY <1>1, <1>3, <2>1, RepliesKeep
<1>4. CASE /\ log' = [log EXCEPT ![m.to] = Append(log[m.to], [client |-> m.client, seq |-> m.seq, op |-> m.op])]
           /\ UNCHANGED replies
  <2>1. RepliesTrue'
    BY <1>1, <1>4 DEF SessionsInv, RepliesTrue
  <2>2. CASE m.to \notin Server
    <3>1. log' = log
      BY Zenon, <1>4, <2>2 DEF SessionsInv, LogsTyped
    <3> QED BY <1>1, <2>1, <3>1, RepliesKeep
  <2>3. CASE m.to \in Server
    <3>1. PICK e : e = [client |-> m.client, seq |-> m.seq, op |-> m.op]
      BY Zenon
    <3>2. PICK l : l = log[m.to]
      OBVIOUS
    <3>3. e \in Entries /\ Issued(e.client, e.seq)
      BY <3>1 DEF SessionsInv, LogsTyped, CallsNumbered, Entries
    <3>4. l \in Seq(Entries) /\ \A k \in 1 .. Len(l) : Issued(l[k].client, l[k].seq)
      BY <2>3, <3>2 DEF SessionsInv, LogsTyped, CallsNumbered
    <3>5. PICK l1 : l1 = Append(l, e)
      BY Zenon
    <3>6. /\ l1 \in Seq(Entries) /\ Len(l) \in Nat /\ Len(l1) = Len(l) + 1 /\ l1[Len(l) + 1] = e
          /\ \A k \in 1 .. Len(l) : l1[k] = l[k]
          /\ \A k \in 1 .. Len(l) + 1 : k \in 1 .. Len(l) \/ k = Len(l) + 1
      BY Zenon, <3>3, <3>4, <3>5, EntryAppended
    <3>7. \A k \in 1 .. Len(l1) : Issued(l1[k].client, l1[k].seq)
      BY Zenon, <3>3, <3>4, <3>6
    <3>8. leader' = m.to => /\ Len(committed) <= Len(l1)
                            /\ \A k \in 1 .. Len(committed) : l1[k] = committed[k]
      <4>1. Len(committed) \in Nat
        BY DEF SessionsInv, LogsTyped
      <4>2. leader = m.to => /\ Len(committed) <= Len(l)
                             /\ \A k \in 1 .. Len(committed) : l[k] = committed[k]
        BY <2>3, <3>2 DEF SessionsInv, LeaderHasAll
      <4> QED BY <1>1, <3>6, <4>1, <4>2
    <3>9. log' = [log EXCEPT ![m.to] = l1] /\ leader' = leader
      BY Zenon, <1>1, <1>4, <3>1, <3>2, <3>5
    <3> QED BY Zenon, <1>1, <2>1, <2>3, <3>6, <3>7, <3>8, <3>9, LogKeeps
  <2> QED BY <2>2, <2>3
<1> QED BY Zenon, <1>2, <1>3, <1>4

\* A new leader has everything that is committed, and appends a no-op.
LEMMA LeadKeeps ==
  ASSUME SessionsInv, NEW i \in Server, become_leader(i)
  PROVE  SessionsInv'
<1>1. /\ UNCHANGED <<committed, kv, saved, session, requests, replies, results>> /\ leader' = i
  BY DEF become_leader
<1>2. PICK k \in Server : \E n \in Len(committed) .. Len(log[k]) :
        IsPrefix(committed, log[k]) /\ log' = [log EXCEPT ![i] = Append(SubSeq(log[k], 1, n), Noop)]
  BY Zenon DEF become_leader
<1>2a. PICK n \in Len(committed) .. Len(log[k]) :
        IsPrefix(committed, log[k]) /\ log' = [log EXCEPT ![i] = Append(SubSeq(log[k], 1, n), Noop)]
  BY Zenon, <1>2
<1>3. PICK l : l = SubSeq(log[k], 1, n)
  BY Zenon
<1>4. /\ log[k] \in Seq(Entries) /\ Len(log[k]) \in Nat /\ Len(committed) \in Nat /\ committed \in Seq(Entries)
      /\ n \in Nat /\ Len(committed) <= n /\ n <= Len(log[k])
      /\ \A x \in 1 .. Len(log[k]) : Issued(log[k][x].client, log[k][x].seq)
  <2>1. /\ log[k] \in Seq(Entries) /\ committed \in Seq(Entries)
        /\ \A x \in 1 .. Len(log[k]) : Issued(log[k][x].client, log[k][x].seq)
    BY DEF SessionsInv, LogsTyped, CallsNumbered
  <2> QED BY <2>1
<1>5. /\ l \in Seq(Entries) /\ Len(l) = n /\ \A x \in 1 .. n : l[x] = log[k][x]
  <2>1. \A x \in 1 .. n : log[k][x] \in Entries
    BY <1>4
  <2>2. /\ l \in Seq(Entries) /\ Len(l) = IF 1 <= n THEN n - 1 + 1 ELSE 0
        /\ \A x \in 1 .. n - 1 + 1 : l[x] = log[k][1 + x - 1]
    BY <1>3, <1>4, <2>1, SubSeqProperties
  <2>3. n - 1 + 1 = n /\ (~ (1 <= n) => n = 0) /\ \A x \in 1 .. n : 1 + x - 1 = x
    BY <1>4
  <2> QED BY <2>2, <2>3
<1>6. \A x \in 1 .. Len(committed) : log[k][x] = committed[x]
  <2>1. PICK a, b : a = SubSeq(committed, 1, Len(committed)) /\ b = SubSeq(log[k], 1, Len(committed)) /\ a = b
    BY Zenon, <1>2a DEF IsPrefix
  <2>2. \A x \in 1 .. Len(committed) : a[x] = committed[x] /\ b[x] = log[k][x]
    <3>1. \A x \in 1 .. Len(committed) : committed[x] \in Entries /\ log[k][x] \in Entries
      BY <1>4
    <3>2. /\ \A x \in 1 .. Len(committed) - 1 + 1 : a[x] = committed[1 + x - 1]
          /\ \A x \in 1 .. Len(committed) - 1 + 1 : b[x] = log[k][1 + x - 1]
      BY <1>4, <2>1, <3>1, SubSeqProperties
    <3>3. Len(committed) - 1 + 1 = Len(committed) /\ \A x \in 1 .. Len(committed) : 1 + x - 1 = x
      BY <1>4
    <3> QED BY <3>2, <3>3
  <2> QED BY <2>1, <2>2
<1>7. PICK l1 : l1 = Append(l, Noop)
  BY Zenon
<1>8. /\ l1 \in Seq(Entries) /\ Len(l1) = n + 1 /\ l1[n + 1] = Noop
      /\ \A x \in 1 .. n : l1[x] = l[x]
      /\ \A x \in 1 .. n + 1 : x \in 1 .. n \/ x = n + 1
  <2>1. Noop \in Entries
    BY DEF Entries
  <2> QED BY <1>5, <1>7, <2>1, EntryAppended
<1>9. \A x \in 1 .. Len(l1) : Issued(l1[x].client, l1[x].seq)
  <2>1. Issued(Noop.client, Noop.seq)
    BY SessionIs DEF Issued, Noop
  <2>2. \A x \in 1 .. n : x \in 1 .. Len(log[k])
    BY <1>4
  <2> QED BY Zenon, <1>4, <1>5, <1>8, <2>1, <2>2
<1>10. /\ Len(committed) <= Len(l1) /\ \A x \in 1 .. Len(committed) : l1[x] = committed[x]
  <2>1. \A x \in 1 .. Len(committed) : x \in 1 .. n
    BY <1>4
  <2> QED BY <1>4, <1>5, <1>6, <1>8, <2>1
<1>11. log' = [log EXCEPT ![i] = l1] /\ RepliesTrue'
  BY Zenon, <1>1, <1>2a, <1>3, <1>7 DEF SessionsInv, RepliesTrue
<1> QED BY Zenon, <1>1, <1>8, <1>9, <1>10, <1>11, LogKeeps

\* What was pending is redirected.
LEMMA StepDownKeeps ==
  ASSUME SessionsInv, NEW i \in Server, lose_leadership(i)
  PROVE  SessionsInv'
<1>1. /\ UNCHANGED <<committed, leader, log, kv, saved, session, requests, results>>
      /\ Send({Reply(p, NotLeader(Hint(i))) : p \in pending[i]})
  BY DEF lose_leadership
<1>2. \A r \in {Reply(p, NotLeader(Hint(i))) : p \in pending[i]} : r.outcome.kind = "not_leader"
  BY NotLeaderKind
<1>3. RepliesTrue'
  BY Zenon, <1>1, <1>2, RedirectTrue
<1> QED BY <1>1, <1>3, RepliesKeep

\* The answer to a call that still waits is the true one: a request that its
\* client's next one has overtaken is of a call that has ended.
LEMMA AnswerTrue ==
  ASSUME NEW L, L \in Seq(Entries), NEW req, NEW outcome, NEW p, NEW r, r = answer(p, req, outcome),
         Justified(L, req, outcome),
         req.seq \in Nat,
         \A k \in 1 .. Len(L) : Issued(L[k].client, L[k].seq),
         \A k \in 1 .. Len(L) : L[k].seq \in Nat,
         \A c \in Client : session[c].seq \in Nat,
         r.client \in Client, r.seq = session[r.client].seq
  PROVE  r.outcome.kind = "not_leader" \/ TrueAnswer(L, r.client, r.seq, r.outcome)
<1>1. CASE Request(p) # Request(req)
  <2>1. r = Reply(p, NotLeader(None))
    BY <1>1 DEF answer
  <2> QED BY <2>1, NotLeaderKind
<1>2. CASE Request(p) = Request(req)
  <2>1. p.client = req.client /\ p.seq = req.seq
    BY Zenon, <1>2 DEF Request
  <2>2. r.client = req.client /\ r.seq = req.seq /\ r.outcome = outcome
    BY Zenon, <1>2, <2>1 DEF answer, Reply
  <2>3. ~ \E m \in 1 .. Len(L) : L[m].client = req.client /\ req.seq < L[m].seq
    <3>1. SUFFICES ASSUME NEW m \in 1 .. Len(L), L[m].client = req.client, req.seq < L[m].seq
                   PROVE  FALSE
      OBVIOUS
    <3>2. L[m].seq <= session[req.client].seq
      BY <2>2, <3>1 DEF Issued
    <3> QED BY <2>2, <3>1, <3>2
  <2> QED BY <2>2, <2>3 DEF Justified
<1> QED BY Zenon, <1>1, <1>2

\* Committing, applying and answering one entry.
LEMMA ApplyKeeps ==
  ASSUME SessionsInv, NEW i \in Server, apply_committed(i)
  PROVE  SessionsInv'
<1>1. PICK index : index = kv[i].applied + 1
  OBVIOUS
<1>2. PICK L, M : L = committed /\ M = committed'
  OBVIOUS
<1>3. PICK req : req = (IF i = leader THEN log[i] ELSE committed)[index]
  OBVIOUS
<1>4. PICK s : s = kv[i]
  OBVIOUS
<1>5. PICK a : a = apply(s, index, req)
  OBVIOUS
<1>6. /\ M \in Seq(Entries) /\ Len(L) <= Len(M) /\ \A k \in 1 .. Len(L) : M[k] = L[k]
      /\ index \in 1 .. Len(M) /\ M[index] = req
      /\ \A k \in 1 .. Len(M) : Issued(M[k].client, M[k].seq)
      /\ leader \in Server => /\ Len(M) <= Len(log[leader])
                              /\ \A k \in 1 .. Len(M) : log[leader][k] = M[k]
  BY <1>1, <1>2, <1>3, CommittedGrows
<1>7. Len(L) \in Nat /\ Len(M) \in Nat
  <2>1. L \in Seq(Entries)
    BY <1>2 DEF SessionsInv, LogsTyped
  <2> QED BY <1>6, <2>1
<1>8. /\ UNCHANGED <<log, leader, saved, session, requests, results>>
      /\ \/ req = Noop /\ kv' = [kv EXCEPT ![i].applied = index] /\ UNCHANGED replies
         \/ /\ req # Noop /\ kv' = [kv EXCEPT ![i] = a.store]
            /\ Send({answer(p, req, a.outcome) : p \in {p \in pending[i] : p.index = index}})
  BY <1>1, <1>3, <1>4, <1>5, ZenonT(60) DEF apply_committed
<1>9. /\ \A j \in Server : Faithful(L, kv[j]) /\ Faithful(L, restored(saved[j]))
      /\ kv = [j \in Server |-> kv[j]] /\ saved = [j \in Server |-> saved[j]]
  BY <1>2 DEF SessionsInv, StoresFaithful
<1>10. \A j \in Server : Faithful(M, kv[j]) /\ Faithful(M, restored(saved[j]))
  BY <1>6, <1>7, <1>9, FaithfulStays
<1>11. \A client, seq, outcome : TrueAnswer(L, client, seq, outcome) => TrueAnswer(M, client, seq, outcome)
  BY <1>6, <1>7, AnswerStays
<1>11a. index <= Len(M) /\ index = s.applied + 1 /\ Faithful(M, s)
  BY <1>1, <1>4, <1>6, <1>7, <1>10
<1>11b. req # Noop => Faithful(M, a.store) /\ Justified(M, req, a.outcome)
  BY Zenon, <1>5, <1>6, <1>11a, ApplyFaithful
<1>12. \E t : Faithful(M, t) /\ kv' = [kv EXCEPT ![i] = t]
  <2>1. CASE req = Noop /\ kv' = [kv EXCEPT ![i].applied = index]
    <3>1. PICK t : t = [s EXCEPT !.applied = index]
      BY Zenon
    <3>2. kv' = [kv EXCEPT ![i] = t]
      BY <1>4, <2>1, <3>1
    <3>3. Faithful(M, t)
      BY Zenon, <1>6, <1>7, <1>11a, <2>1, <3>1, NoopApplied
    <3> QED BY Zenon, <3>2, <3>3
  <2>2. CASE req # Noop /\ kv' = [kv EXCEPT ![i] = a.store]
    BY Zenon, <1>11b, <2>2
  <2> QED BY <1>8, <2>1, <2>2
<1>13. PICK t : Faithful(M, t) /\ kv' = [kv EXCEPT ![i] = t]
  BY Zenon, <1>12
<1>14. StoresFaithful'
  <2>1. /\ kv' = [j \in Server |-> kv'[j]] /\ saved' = [j \in Server |-> saved'[j]]
        /\ kv'[i] = t /\ \A j \in Server : j # i => kv'[j] = kv[j]
    BY Zenon, <1>8, <1>9, <1>13
  <2>2. \A j \in Server : Faithful(M, kv'[j])
    BY <1>10, <1>13, <2>1
  <2>3. \A j \in Server : Faithful(M, restored(saved'[j]))
    BY <1>8, <1>10
  <2> QED BY <1>2, <2>1, <2>2, <2>3 DEF StoresFaithful
<1>15. AnswersAreTrue'
  <2>1. \A r \in {q \in results' : q.result.kind # "unknown"} : TrueAnswer(M, r.client, r.seq, r.result)
    BY <1>2, <1>8, <1>11 DEF SessionsInv, AnswersAreTrue
  <2> QED BY <1>2, <2>1 DEF AnswersAreTrue
<1>16. RepliesTrue'
  <2>1. \A r \in replies : /\ r.client \in Client
                           /\ r.outcome.kind = "not_leader" \/ TrueAnswer(M, r.client, r.seq, r.outcome)
    BY <1>2, <1>11 DEF SessionsInv, RepliesTrue
  <2>2. CASE UNCHANGED replies
    BY Zenon, <1>2, <2>1, <2>2 DEF RepliesTrue
  <2>3. CASE req # Noop /\ Send({answer(p, req, a.outcome) : p \in {p \in pending[i] : p.index = index}})
    <3>1. Justified(M, req, a.outcome)
      BY <1>11b, <2>3
    <3>2. /\ \A k \in 1 .. Len(M) : M[k].seq \in Nat
          /\ req.seq \in Nat
      BY <1>6 DEF Entries, Noop
    <3>3. \A c \in Client : session[c].seq \in Nat
      BY SessionIs
    <3>4. ASSUME NEW r \in replies', r \notin replies
          PROVE  /\ r.client \in Client
                 /\ r.outcome.kind = "not_leader" \/ TrueAnswer(M, r.client, r.seq, r.outcome)
      <4>1. PICK p \in pending[i] : r = answer(p, req, a.outcome)
        BY Zenon, <2>3, <3>4 DEF Send
      <4>2. r.client \in Client /\ r.seq = session[r.client].seq
        BY Zenon, <2>3, <3>4 DEF Send
      <4> QED BY Zenon, <1>6, <3>1, <3>2, <3>3, <4>1, <4>2, AnswerTrue
    <3> QED BY Zenon, <1>2, <2>1, <3>4 DEF RepliesTrue
  <2> QED BY Zenon, <1>8, <2>2, <2>3
<1>17. LogsTyped'
  BY Zenon, <1>2, <1>6, <1>8 DEF SessionsInv, LogsTyped
<1>18. CallsNumbered'
  <2>1. \A k \in 1 .. Len(committed') :
          committed'[k].client \in Client => committed'[k].seq <= session'[committed'[k].client].seq
    BY <1>2, <1>6, <1>8 DEF Issued
  <2> QED BY <1>8, <2>1 DEF SessionsInv, CallsNumbered, Issued
<1>19. LeaderHasAll'
  BY <1>2, <1>6, <1>8 DEF LeaderHasAll
<1> QED BY Zenon, <1>14, <1>15, <1>16, <1>17, <1>18, <1>19 DEF SessionsInv

\* A store is replaced by a faithful one, or saved.
LEMMA SnapshotKeeps ==
  ASSUME SessionsInv, NEW i \in Server, NEW t, Faithful(committed, t),
         \/ kv' = kv
         \/ kv' = [kv EXCEPT ![i] = t],
         saved' = saved \/ saved' = [saved EXCEPT ![i] = snapshot(t)],
         leader' = leader \/ leader' = None,
         UNCHANGED <<committed, log, session, requests, replies, results>>
  PROVE  SessionsInv'
<1>1. LogsTyped' /\ CallsNumbered' /\ RepliesTrue' /\ AnswersAreTrue'
  BY Zenon DEF SessionsInv, LogsTyped, CallsNumbered, Issued, RepliesTrue, AnswersAreTrue
<1>2. LeaderHasAll'
  BY SessionsAssumption DEF SessionsInv, LeaderHasAll
<1>3. restored(snapshot(t)) = t
  BY RestoredSnapshot
<1>4. PICK b : b = snapshot(t)
  OBVIOUS
<1>5. /\ kv = [j \in Server |-> kv[j]] /\ saved = [j \in Server |-> saved[j]]
      /\ \A j \in Server : Faithful(committed, kv[j]) /\ Faithful(committed, restored(saved[j]))
  BY DEF SessionsInv, StoresFaithful
<1>6. /\ kv' = [j \in Server |-> kv'[j]] /\ saved' = [j \in Server |-> saved'[j]]
      /\ \A j \in Server : kv'[j] = kv[j] \/ kv'[j] = t
      /\ \A j \in Server : saved'[j] = saved[j] \/ saved'[j] = b
  BY <1>4, <1>5
<1>7. \A j \in Server : Faithful(committed, kv'[j]) /\ Faithful(committed, restored(saved'[j]))
  BY Zenon, <1>3, <1>4, <1>5, <1>6
<1>8. StoresFaithful'
  BY <1>6, <1>7 DEF StoresFaithful
<1> QED BY Zenon, <1>1, <1>2, <1>8 DEF SessionsInv

\* Taking and installing snapshots, and crashes.
LEMMA StoreStepKeeps ==
  ASSUME SessionsInv, NEW i \in Server,
         take_snapshot(i) \/ crash(i) \/ \E from \in Server : install_snapshot(i, from)
  PROVE  SessionsInv'
<1>1. \A j \in Server : Faithful(committed, kv[j]) /\ Faithful(committed, restored(saved[j]))
  BY DEF SessionsInv, StoresFaithful
<1>2. CASE take_snapshot(i)
  <2>1. /\ saved' = [saved EXCEPT ![i] = snapshot(kv[i])] /\ kv' = kv /\ leader' = leader
        /\ UNCHANGED <<committed, log, session, requests, replies, results>>
    BY <1>2 DEF take_snapshot
  <2> QED BY Zenon, <1>1, <2>1, SnapshotKeeps
<1>3. CASE crash(i)
  <2>1. /\ kv' = [kv EXCEPT ![i] = restored(saved[i])] /\ saved' = saved
        /\ leader' = leader \/ leader' = None
        /\ UNCHANGED <<committed, log, session, requests, replies, results>>
    BY <1>3 DEF crash
  <2> QED BY Zenon, <1>1, <2>1, SnapshotKeeps
<1>4. CASE \E from \in Server : install_snapshot(i, from)
  <2>1. PICK from \in Server : install_snapshot(i, from)
    BY <1>4
  <2>2. PICK t : t = kv[from]
    OBVIOUS
  <2>3. Faithful(committed, t) /\ restored(snapshot(t)) = t
    BY <1>1, <2>2, RestoredSnapshot
  <2>4. /\ saved' = [saved EXCEPT ![i] = snapshot(t)] /\ leader' = leader
        /\ kv' = [kv EXCEPT ![i] = restored(saved'[i])]
        /\ UNCHANGED <<committed, log, session, requests, replies, results>>
    BY <2>1, <2>2 DEF install_snapshot
  <2>5. saved'[i] = snapshot(t)
    BY <2>4 DEF SessionsInv, StoresFaithful
  <2>6. kv' = [kv EXCEPT ![i] = t]
    BY Zenon, <2>3, <2>4, <2>5
  <2> QED BY Zenon, <2>3, <2>4, <2>6, SnapshotKeeps
<1> QED BY <1>2, <1>3, <1>4

\* A new store is faithful to a log that holds the first leader's no-op.
LEMMA FreshFaithful ==
  Faithful(<<Noop>>, [Fresh EXCEPT !.applied = 1])
<1> DEFINE s == [Fresh EXCEPT !.applied = 1]
           L == <<Noop>>
<1>1. /\ s.data = <<>> /\ s.applied = 1 /\ s.sessions = Fresh.sessions
      /\ s = [data |-> <<>>, applied |-> 1, sessions |-> Fresh.sessions]
  BY DEF Fresh
<1>2. /\ Fresh.sessions = [c \in Clients |-> [last_seq |-> 0, last_outcome |-> Unavailable]]
      /\ Unavailable \in Outcomes
  BY DEF Fresh, Clients, Unavailable, Outcome, Outcomes
<1>3. Fresh.sessions \in [Clients -> [last_seq : Nat, last_outcome : Outcomes]]
  BY <1>2
<1>4. s \in Stores
  <2>1. <<>> \in Seq(Versions)
    OBVIOUS
  <2> HIDE DEF s
  <2> QED BY <1>1, <1>3, <2>1 DEF Stores
<1>5. /\ Len(L) = 1 /\ L[1] = Noop /\ Noop.seq = 0 /\ ~ Executed(L, 1)
      /\ \A m \in 1 .. 1 : m = 1
  BY DEF Noop, Executed
<1> HIDE DEF s, L
<1>6. ASSUME NEW c \in Clients PROVE SessionFaithful(L, s, c)
  <2>1. s.sessions[c] = [last_seq |-> 0, last_outcome |-> Unavailable]
    BY Zenon, <1>1, <1>2
  <2> QED BY <1>1, <1>5, <2>1 DEF SessionFaithful
<1>7. DataFaithful(L, s)
  <2>1. Len(s.data) = 0
    BY Zenon, <1>1
  <2> QED BY <1>1, <1>5, <2>1 DEF DataFaithful
<1>8. Faithful(L, s)
  BY <1>1, <1>4, <1>5, <1>6, <1>7 DEF Faithful
<1> QED BY <1>8 DEF L, s

\* The invariant holds at the start.
LEMMA SessionsInit ==
  Init => SessionsInv
<1> SUFFICES ASSUME Init PROVE SessionsInv
  OBVIOUS
<1>1. PICK s : s = [Fresh EXCEPT !.applied = 1]
  BY Zenon
<1>2. PICK L : L = <<Noop>>
  BY Zenon
<1>3. L \in Seq(Entries) /\ Len(L) = 1 /\ L[1] = Noop
  BY <1>2 DEF Entries
<1>4. Faithful(L, s) /\ restored(snapshot(s)) = s
  BY <1>1, <1>2, FreshFaithful, RestoredSnapshot
<1>5. /\ committed = L /\ log = [i \in Server |-> L]
      /\ kv = [i \in Server |-> s] /\ saved = [i \in Server |-> snapshot(kv[i])]
      /\ requests = InFlight /\ replies = {} /\ results = {}
  BY <1>1, <1>2 DEF Init
<1>6. StoresFaithful
  <2>1. kv = [i \in Server |-> kv[i]] /\ saved = [i \in Server |-> saved[i]]
    BY <1>5
  <2>2. \A i \in Server : kv[i] = s /\ saved[i] = snapshot(s)
    BY <1>5
  <2> QED BY Zenon, <1>4, <1>5, <2>1, <2>2 DEF StoresFaithful
<1>7. LogsTyped
  BY Zenon, <1>3, <1>5, SessionsAssumption DEF LogsTyped, Clients, Ops
<1>8. CallsNumbered
  <2>1. /\ session = [c \in Client |-> session[c]]
        /\ \A c \in Client : session[c] = [seq |-> Ended, token |-> 0, attempts |-> 0,
              hint |-> None, servers |-> Configured, phase |-> "idle", armed |-> {}]
    BY DEF Init
  <2>2. /\ \A c \in Client :
             /\ session[c] = [seq |-> session[c].seq, token |-> session[c].token,
                              attempts |-> session[c].attempts, hint |-> session[c].hint,
                              servers |-> session[c].servers, phase |-> session[c].phase,
                              armed |-> session[c].armed]
             /\ session[c].seq = Ended /\ session[c].phase = "idle"
    BY <2>1
  <2>3. \A c \in Client : Ended \in 0 .. Len(Script[c])
    <3>1. \A c \in Client : Len(Script[c]) \in Nat
      BY SessionsAssumption
    <3> QED BY <3>1, SessionsAssumption
  <2>4. \A m \in requests : Issued(m.client, m.seq)
    BY Zenon, <1>5, <2>2, SessionsAssumption DEF Issued
  <2>5. Issued(Noop.client, Noop.seq)
    <3>1. Ended \in Nat /\ Noop.seq = 0
      BY SessionsAssumption DEF Noop
    <3>2. \A c \in Client : session[c].seq = Ended
      BY <2>2, Zenon
    <3>3. \A c \in Client : 0 <= session[c].seq
      BY <3>1, <3>2
    <3> QED BY <3>1, <3>3 DEF Issued
  <2>6. /\ \A i \in Server : \A k \in 1 .. Len(log[i]) : log[i][k] = Noop
        /\ \A k \in 1 .. Len(committed) : committed[k] = Noop
    <3>1. \A k \in 1 .. 1 : k = 1
      OBVIOUS
    <3> QED BY Zenon, <1>3, <1>5, <3>1
  <2> QED BY Zenon, <2>1, <2>2, <2>3, <2>4, <2>5, <2>6 DEF CallsNumbered
<1>9. LeaderHasAll
  BY <1>3, <1>5 DEF LeaderHasAll
<1>10. RepliesTrue /\ AnswersAreTrue
  BY <1>5 DEF RepliesTrue, AnswersAreTrue
<1> QED BY Zenon, <1>6, <1>7, <1>8, <1>9, <1>10 DEF SessionsInv

\* Every step keeps the invariant.
LEMMA SessionsStep ==
  SessionsInv /\ [Next]_vars => SessionsInv'
<1> SUFFICES ASSUME SessionsInv, [Next]_vars PROVE SessionsInv'
  OBVIOUS
<1>1. CASE UNCHANGED vars
  <2>1. UNCHANGED <<committed, log, leader, kv, saved, session, requests, replies, results>>
    BY <1>1 DEF vars, servers
  <2>2. RepliesTrue'
    BY <2>1 DEF SessionsInv, RepliesTrue
  <2> QED BY Zenon, <2>1, <2>2, RepliesKeep
<1>2. ASSUME NEW c \in Client, call(c) \/ attempt(c) \/ give_up(c) \/ receive(c) \/ deadline(c)
      PROVE  SessionsInv'
  BY Zenon, <1>2, CallKeeps, AttemptKeeps, ReturnKeeps
<1>3. CASE handle_client
  BY <1>3, HandleKeeps
<1>4. ASSUME NEW i \in Server,
             \/ become_leader(i)
             \/ lose_leadership(i)
             \/ apply_committed(i)
             \/ take_snapshot(i)
             \/ crash(i)
             \/ \E from \in Server : install_snapshot(i, from)
      PROVE  SessionsInv'
  BY <1>4, LeadKeeps, StepDownKeeps, ApplyKeeps, StoreStepKeeps
<1> QED BY Zenon, <1>1, <1>2, <1>3, <1>4 DEF Next, ServerStep

\* What the invariant is for.
LEMMA SessionsSafe ==
  SessionsInv => ExactlyOnce /\ AnswersAreTrue /\ LiveCallNotRefused
<1> SUFFICES ASSUME SessionsInv PROVE ExactlyOnce /\ AnswersAreTrue /\ LiveCallNotRefused
  BY Zenon
<1>1. ExactlyOnce
  BY Zenon DEF SessionsInv, StoresFaithful, Faithful, DataFaithful, ExactlyOnce
<1>2. LiveCallNotRefused
  <2>1. ASSUME NEW r \in replies, r.outcome = Unavailable PROVE FALSE
    <3>1. r.outcome.kind = "unavailable"
      BY <2>1 DEF Unavailable, Outcome
    <3>2. TrueAnswer(committed, r.client, r.seq, r.outcome)
      BY <3>1 DEF SessionsInv, RepliesTrue
    <3>3. PICK n : r.outcome = TrueOutcome(committed, n)
      BY <3>2 DEF TrueAnswer
    <3> QED BY <3>1, <3>3 DEF TrueOutcome, Applied, CasFailed, Outcome
  <2> QED BY <2>1 DEF LiveCallNotRefused
<1> QED BY <1>1, <1>2 DEF SessionsInv

\* The session invariant holds in every behaviour.
LEMMA SessionsInvariant == Spec => []SessionsInv
  BY SessionsInit, SessionsStep, PTL DEF Spec

\* However often a request is sent, delivered, proposed and committed, and
\* through snapshots and restarts, a write takes effect at most once and in its
\* client's order (kv.rs, apply).  For every number of servers, clients, calls
\* and attempts.
THEOREM RequestsRunOnce == Spec => []ExactlyOnce
  BY SessionsInvariant, SessionsSafe, PTL

\* An answer a call returns is that of the one execution of its own request,
\* whichever server and whichever attempt it came from (node.rs, client.rs).
THEOREM AnswersTrue == Spec => []AnswersAreTrue
  BY SessionsInvariant, SessionsSafe, PTL

\* No call that still waits is refused in favour of a later one (kv.rs, the
\* check of the session's sequence number).
THEOREM LiveCallsServed == Spec => []LiveCallNotRefused
  BY SessionsInvariant, SessionsSafe, PTL
=============================================================================
