------------------------------ MODULE Sessions ------------------------------
(***************************************************************************)
(* Client sessions end to end: the retry loop of a client                   *)
(* (chronolog/src/client.rs), the requests a node has accepted and still    *)
(* owes an answer (node.rs), and the session table of the replicated store  *)
(* (kv.rs) that makes a retry idempotent.                                   *)
(*                                                                         *)
(* Consensus is the subject of module Cluster and is reduced to what the    *)
(* sessions can see of it: committed is the agreed log, one leader extends  *)
(* it, and other servers may still believe they lead.  Messages may be      *)
(* lost, repeated, delayed and reordered: a message that was sent stays     *)
(* deliverable.  A client's queue of events adds no order that the network  *)
(* does not have, so a client takes its replies straight from it.           *)
(***************************************************************************)
EXTENDS Integers, SequencesExt, FiniteSetsExt

CONSTANTS Server, Client,
          Others,          \* clients whose calls are not followed
          Configured,      \* the servers a client starts with
          None,
          KeepVersions,    \* keep_versions
          MaxAttempts,     \* max_attempts
          First,           \* the leader at the start
          Script,          \* client -> the operations it calls, in order
          Ended,           \* how many of them have returned Unknown at the start
          InFlight,        \* the requests then still on their way
          MaxLog,
          MaxEvents        \* elections, snapshots and crashes together

\* The store keeps 16 versions of a key; a script is of puts and cas; what is on
\* its way at the start is of calls that have ended, or of the other clients.
ASSUME SessionsAssumption ==
  /\ KeepVersions \in Nat \ {0} /\ Ended \in Nat
  /\ None \notin Server
  /\ \A c \in Client : Script[c] \in Seq({"put", "cas"}) /\ Ended <= Len(Script[c])
  /\ \A m \in InFlight :
       /\ m.client \in Client \cup Others /\ m.seq \in Nat \ {0} /\ m.op \in {"put", "cas"}
       /\ m.client \in Client => m.seq <= Ended

VARIABLES committed,  \* the agreed log
          log,        \* server -> its own log
          leader,     \* the leader of the latest term
          leading,    \* the servers that believe they lead
          pending,    \* server -> pending_writes
          kv,         \* server -> its store
          saved,      \* server -> its newest snapshot
          session,    \* client -> the fields of Client and of the call it is in
          requests,   \* client messages on their way
          replies,    \* answers on their way
          results,    \* what the calls returned
          used

servers == <<committed, log, leader, leading, pending, kv, saved>>
vars == <<servers, session, requests, replies, results, used>>

-----------------------------------------------------------------------------
(* The store, kv.rs.  There is one key; a write stores the request itself. *)

Noop == [client |-> None, seq |-> 0, op |-> "noop"]

Outcome(kind, at) == [kind |-> kind, at |-> at]
Applied(version) == Outcome("applied", version)
CasFailed == Outcome("cas_failed", 0)
Unavailable == Outcome("unavailable", 0)
NotLeader(hint) == [kind |-> "not_leader", hint |-> hint]

Fresh == [data |-> <<>>, applied |-> 0,
          sessions |-> [c \in Client \cup Others |-> [last_seq |-> 0, last_outcome |-> Unavailable]]]

write(data, version, req) ==
  LET all == Append(data, [version |-> version, client |-> req.client, seq |-> req.seq])
  IN  SubSeq(all, Max({0, Len(all) - KeepVersions}) + 1, Len(all))

\* The new store and the outcome.  A cas expects the key to be absent.
execute(s, index, req) ==
  IF req.op = "put" \/ s.data = <<>>
  THEN [data |-> write(s.data, index, req), outcome |-> Applied(index)]
  ELSE [data |-> s.data, outcome |-> CasFailed]

\* Variant: a repeated request is refused like an overtaken one.
apply_refuses(s, index, req) ==
  LET seen == s.sessions[req.client]
      e == execute(s, index, req)
  IN  IF req.seq <= seen.last_seq
      THEN [store |-> [s EXCEPT !.applied = index], outcome |-> Unavailable]
      ELSE [store |-> [data |-> e.data, applied |-> index,
                       sessions |-> [s.sessions EXCEPT ![req.client] =
                         [last_seq |-> req.seq, last_outcome |-> e.outcome]]],
            outcome |-> e.outcome]

apply(s, index, req) ==
  LET seen == s.sessions[req.client]
      e == execute(s, index, req)
      kept(outcome) == [store |-> [s EXCEPT !.applied = index], outcome |-> outcome]
  IN  CASE req.seq = seen.last_seq -> kept(seen.last_outcome)
        [] req.seq < seen.last_seq -> kept(Unavailable)
        [] OTHER ->
             [store |-> [data |-> e.data, applied |-> index,
                         sessions |-> [s.sessions EXCEPT ![req.client] =
                           [last_seq |-> req.seq, last_outcome |-> e.outcome]]],
              outcome |-> e.outcome]

\* KvStore::snapshot: the sessions are written as a list, one item for each
\* client in the table, with its remembered answer as a response.
snapshot(s) ==
  [applied |-> s.applied, versions |-> s.data,
   table |-> {[id |-> c, last_seq |-> s.sessions[c].last_seq,
               response |-> [client |-> c, seq |-> s.sessions[c].last_seq,
                             outcome |-> s.sessions[c].last_outcome]] :
                c \in {c \in DOMAIN s.sessions : s.sessions[c].last_seq > 0}}]

\* Variant: the session table is not rebuilt.
restored_data(buf) ==
  [data |-> buf.versions, applied |-> buf.applied, sessions |-> Fresh.sessions]

\* KvStore::restore: the table has the clients of the list and no others.
restored(buf) ==
  [data |-> buf.versions, applied |-> buf.applied,
   sessions |-> [c \in DOMAIN Fresh.sessions |->
     IF \A item \in buf.table : item.id # c
     THEN Fresh.sessions[c]
     ELSE LET item == CHOOSE item \in buf.table : item.id = c
          IN  [last_seq |-> item.last_seq, last_outcome |-> item.response.outcome]]]

-----------------------------------------------------------------------------
(* The servers, node.rs *)

Reply(req, outcome) == [client |-> req.client, seq |-> req.seq, outcome |-> outcome]

Request(p) == [client |-> p.client, seq |-> p.seq]

\* The loop of call throws the answer to a call that has ended away.
Send(answers) ==
  replies' = replies \cup {r \in answers : /\ r.client \in Client
                                          /\ r.seq = session[r.client].seq}

\* The leader this server knows of; the answer may be delayed until it is wrong.
Hint(i) == IF leader = i THEN None ELSE leader

\* The writes of handle_client.
handle_client ==
  \E m \in requests :
    LET i == m.to
        req == [client |-> m.client, seq |-> m.seq, op |-> m.op]
    IN  \/ /\ i \in leading /\ Len(log[i]) < MaxLog
           /\ log' = [log EXCEPT ![i] = Append(@, req)]
           /\ pending' = [pending EXCEPT ![i] =
                {p \in @ : p.index # Len(log'[i])}
                  \cup {[index |-> Len(log'[i]), client |-> m.client, seq |-> m.seq]}]
           /\ UNCHANGED replies
        \/ /\ i \notin leading
           /\ Send({Reply(req, NotLeader(Hint(i)))})
           /\ UNCHANGED <<log, pending>>
  /\ UNCHANGED <<committed, leader, leading, kv, saved, session, requests, results, used>>

\* i wins an election with a log that holds everything committed, and appends
\* a no-op.  If it still believed it led, it lost and regained leadership
\* between two looks of the driver, which keeps what is pending.
become_leader(i) ==
  /\ used < MaxEvents
  /\ \E k \in Server : \E n \in Len(committed) .. Len(log[k]) :
       /\ IsPrefix(committed, log[k]) /\ n < MaxLog
       /\ log' = [log EXCEPT ![i] = Append(SubSeq(log[k], 1, n), Noop)]
  /\ leader' = i /\ leading' = leading \cup {i}
  /\ used' = used + 1
  /\ UNCHANGED <<committed, pending, kv, saved, session, requests, replies, results>>

\* The driver sees that leadership is gone and sends its clients elsewhere.
lose_leadership(i) ==
  /\ i \in leading /\ i # leader
  /\ leading' = leading \ {i}
  /\ Send({Reply(p, NotLeader(Hint(i))) : p \in pending[i]})
  /\ pending' = [pending EXCEPT ![i] = {}]
  /\ UNCHANGED <<committed, log, leader, kv, saved, session, requests, results, used>>

\* Variant: the index alone says whose answer it is.
answer_by_index(p, req, outcome) == Reply(p, outcome)

\* The index may hold another entry than the one this server accepted there.
answer(p, req, outcome) ==
  IF Request(p) = Request(req) THEN Reply(p, outcome) ELSE Reply(p, NotLeader(None))

\* One cycle of the driver, for one entry.  The leader commits the next entry
\* of its log when a quorum has it, and applies it in the same cycle.
\* A server that believes it leads knows no other log than its own: a newer
\* leader's message ends its leadership before anything is applied.
apply_committed(i) ==
  LET index == kv[i].applied + 1
      known == IF i = leader THEN log[i] ELSE committed
      req == known[index]
      a == apply(kv[i], index, req)
      owed == {p \in pending[i] : p.index = index}
  IN  /\ index <= Len(known)
      /\ committed' = IF index > Len(committed) THEN Append(committed, req) ELSE committed
      /\ i \in leading => IsPrefix(SubSeq(known, 1, index), log[i])
      /\ \/ /\ req = Noop
            /\ kv' = [kv EXCEPT ![i].applied = index]
            /\ UNCHANGED <<pending, replies>>
         \/ /\ req # Noop
            /\ kv' = [kv EXCEPT ![i] = a.store]
            /\ pending' = [pending EXCEPT ![i] = @ \ owed]
            /\ Send({answer(p, req, a.outcome) : p \in owed})
      /\ UNCHANGED <<log, leader, leading, saved, session, requests, results, used>>

take_snapshot(i) ==
  /\ saved[i].applied < kv[i].applied
  /\ used < MaxEvents
  /\ used' = used + 1
  /\ saved' = [saved EXCEPT ![i] = snapshot(kv[i])]
  /\ UNCHANGED <<committed, log, leader, leading, pending, kv, session, requests, replies, results>>

\* A leader ships its state machine to a server that is behind.
install_snapshot(i, from) ==
  /\ i \notin leading
  /\ kv[i].applied < kv[from].applied
  /\ used < MaxEvents
  /\ used' = used + 1
  /\ saved' = [saved EXCEPT ![i] = snapshot(kv[from])]
  /\ kv' = [kv EXCEPT ![i] = restored(saved'[i])]
  /\ UNCHANGED <<committed, log, leader, leading, pending, session, requests, replies, results>>

\* A crash forgets what was pending; recovery starts from the snapshot.
crash(i) ==
  /\ used < MaxEvents
  /\ used' = used + 1
  /\ kv' = [kv EXCEPT ![i] = restored(saved[i])]
  /\ pending' = [pending EXCEPT ![i] = {}]
  /\ leading' = leading \ {i}
  /\ leader' = IF leader = i THEN None ELSE leader
  /\ UNCHANGED <<committed, log, saved, session, requests, replies, results>>

-----------------------------------------------------------------------------
(* The client, client.rs *)

\* Client::call: the next session number; target and attempts start over.
call(c) ==
  /\ session[c].phase = "idle" /\ session[c].seq < Len(Script[c])
  /\ session' = [session EXCEPT ![c] =
       [session[c] EXCEPT !.seq = @ + 1, !.attempts = 0, !.phase = "ready"]]
  /\ UNCHANGED <<servers, requests, replies, results, used>>

\* Client::target: the hint, else a random server it knows.
target(c) ==
  IF session[c].hint # None THEN {session[c].hint} ELSE session[c].servers

\* Variant: one deadline is set for the whole call.
deadlines_once(c) ==
  IF session[c].attempts = 0 THEN {session[c].token + 1} ELSE {}

\* The deadline task an attempt spawns carries the attempt's token.
deadlines(c) == {session[c].token + 1}

\* One attempt: send, and set its deadline.
attempt(c) ==
  /\ session[c].phase = "ready" /\ session[c].attempts < MaxAttempts
  /\ \E to \in target(c) :
       requests' = requests \cup
         {[to |-> to, client |-> c, seq |-> session[c].seq, op |-> Script[c][session[c].seq]]}
  /\ session' = [session EXCEPT ![c] =
       [session[c] EXCEPT !.attempts = @ + 1, !.token = @ + 1, !.phase = "waiting",
                          !.armed = @ \cup deadlines(c)]]
  /\ UNCHANGED <<servers, replies, results, used>>

Return(c, result) ==
  results' = results \cup {[client |-> c, seq |-> session[c].seq, op |-> Script[c][session[c].seq],
                            result |-> result]}

\* Every attempt is spent: whether the request took effect is not known.
give_up(c) ==
  /\ session[c].phase = "ready" /\ session[c].attempts = MaxAttempts
  /\ session' = [session EXCEPT ![c].phase = "idle"]
  /\ Return(c, Outcome("unknown", 0))
  /\ UNCHANGED <<servers, requests, replies, used>>

\* Client::learn: a hint names the next target, and a server not known so far.
learn(s, hint) ==
  [s EXCEPT !.hint = hint, !.servers = IF hint = None THEN @ ELSE @ \cup {hint}]

\* Anything else is a duplicate of an earlier call's answer.
answers_call(c, r) == r.client = c /\ r.seq = session[c].seq

\* The loop of call takes a reply that answers this call.  After a redirect it
\* sleeps for redirect_backoff, however long, before the next attempt.
receive(c) ==
  /\ session[c].phase = "waiting"
  /\ \E r \in replies :
       /\ answers_call(c, r)
       /\ CASE r.outcome.kind = "not_leader" ->
                 /\ session' = [session EXCEPT ![c] =
                      [learn(session[c], r.outcome.hint) EXCEPT !.phase = "ready"]]
                 /\ UNCHANGED results
            [] r.outcome.kind = "unavailable" ->
                 /\ session' = [session EXCEPT ![c] =
                      [session[c] EXCEPT !.hint = None, !.phase = "ready"]]
                 /\ UNCHANGED results
            [] OTHER ->
                 /\ session' = [session EXCEPT ![c].phase = "idle"]
                 /\ Return(c, r.outcome)
  /\ UNCHANGED <<servers, requests, replies, used>>

\* A deadline passes, the one set first before the others: all wait the same
\* time on the same clock.  It ends the attempt it was set for and no other; the
\* hint stays.
deadline(c) ==
  LET t == Min(session[c].armed) IN
    /\ session[c].armed # {}
    /\ session' = [session EXCEPT ![c] =
         [session[c] EXCEPT
            !.armed = @ \ {t},
            !.phase = IF @ = "waiting" /\ t = session[c].token THEN "ready" ELSE @]]
    /\ UNCHANGED <<servers, requests, replies, results, used>>

-----------------------------------------------------------------------------
\* First has been elected, and its no-op is committed and applied.  Requests
\* of other clients, and of calls that were given up, are on their way.
Init ==
  /\ committed = <<Noop>> /\ log = [i \in Server |-> committed]
  /\ leader = First /\ leading = {First}
  /\ pending = [i \in Server |-> {}]
  /\ kv = [i \in Server |-> [Fresh EXCEPT !.applied = 1]] /\ saved = [i \in Server |-> snapshot(kv[i])]
  /\ session = [c \in Client |-> [seq |-> Ended, token |-> 0, attempts |-> 0,
                   hint |-> None, servers |-> Configured, phase |-> "idle", armed |-> {}]]
  /\ requests = InFlight
  /\ replies = {} /\ results = {}
  /\ used = 0

ServerStep ==
  \/ handle_client
  \/ \E i \in Server :
       \/ become_leader(i)
       \/ lose_leadership(i)
       \/ apply_committed(i)
       \/ take_snapshot(i)
       \/ crash(i)
       \/ \E from \in Server : install_snapshot(i, from)

Next ==
  \/ ServerStep
  \/ \E c \in Client : call(c) \/ attempt(c) \/ give_up(c) \/ receive(c)
                          \/ deadline(c)

\* A runnable task is polled and a timer fires; the network promises nothing.
Fairness ==
  \A c \in Client : /\ WF_vars(attempt(c)) /\ WF_vars(give_up(c))
                    /\ WF_vars(deadline(c))

Spec == Init /\ [][Next]_vars /\ Fairness

-----------------------------------------------------------------------------
(* The properties *)

\* A write takes effect at most once, and a client's writes take effect in the
\* order it issued them, however often a request was sent, delivered, proposed
\* and committed, and through snapshots and restarts: the session check of
\* KvStore::apply, with the table a snapshot carries.
ExactlyOnce ==
  \A i \in Server : LET data == kv[i].data IN
    \A m, n \in 1 .. Len(data) :
      m < n /\ data[m].client = data[n].client => data[m].seq < data[n].seq

\* The reference: entry n is executed iff no entry of its client with this or a
\* later number came before.
Executed(entries, n) ==
  /\ entries[n] # Noop
  /\ \A m \in 1 .. n - 1 : entries[m].client = entries[n].client
                           => entries[m].seq < entries[n].seq

\* The key exists once a put, or a first cas, has been executed.
TrueOutcome(entries, n) ==
  IF entries[n].op = "put" \/ \A m \in 1 .. n - 1 : ~ Executed(entries, m)
  THEN Applied(n) ELSE CasFailed

\* outcome is that of the one execution of the request seq of client.
TrueAnswer(entries, client, seq, outcome) ==
  \E n \in 1 .. Len(entries) :
    /\ entries[n].client = client /\ entries[n].seq = seq
    /\ Executed(entries, n) /\ outcome = TrueOutcome(entries, n)

\* An answer a call returns is the outcome of the one execution of its own
\* request: not that of another request at the index it was accepted at, not
\* that of a second execution, and never of a write that was not committed
\* (apply_committed, the pending writes, and the loop of Client::call).
AnswersAreTrue ==
  \A r \in {q \in results : q.result.kind # "unknown"} :
    TrueAnswer(committed, r.client, r.seq, r.result)

\* A write is told Unavailable only when a later one of the same client has
\* overtaken it: never a write whose call is still waiting (kv.rs, the middle
\* case of apply; a client has one call at a time).  Reads are not in this
\* model: a leader may turn one away at any time (node.rs:774).
LiveCallNotRefused ==
  \A r \in replies : r.outcome = Unavailable => r.seq < session[r.client].seq

\* Every call returns, whatever the network and the servers do: each attempt
\* has a deadline of its own and the attempts are counted (Client::call).
CallsReturn ==
  \A c \in Client : session[c].phase # "idle" ~> session[c].phase = "idle"

-----------------------------------------------------------------------------
(* Why the answers are true: the inductive invariant.                       *)

Clients == Client \cup Others
Ops == {"put", "cas"}
Entries == {Noop} \cup [client : Clients, seq : Nat \ {0}, op : Ops]

Versions == [version : Nat, client : Clients, seq : Nat]
Outcomes == [kind : {"applied", "cas_failed", "unavailable"}, at : Nat]
Stores == [data : Seq(Versions), applied : Nat,
           sessions : [Clients -> [last_seq : Nat, last_outcome : Outcomes]]]

LogsTyped ==
  /\ committed \in Seq(Entries) /\ log \in [Server -> Seq(Entries)]
  /\ \A m \in requests : m.client \in Clients /\ m.seq \in Nat \ {0} /\ m.op \in Ops

\* A client numbers its calls from one, and nothing carries a number it has
\* not come to.
Issued(client, seq) == client \in Client => seq <= session[client].seq

CallsNumbered ==
  /\ session = [c \in Client |-> session[c]]
  /\ \A c \in Client :
       /\ session[c] = [seq |-> session[c].seq, token |-> session[c].token,
                        attempts |-> session[c].attempts, hint |-> session[c].hint,
                        servers |-> session[c].servers, phase |-> session[c].phase,
                        armed |-> session[c].armed]
       /\ session[c].seq \in 0 .. Len(Script[c])
       /\ session[c].phase # "idle" => session[c].seq > 0
  /\ \A i \in Server : \A k \in 1 .. Len(log[i]) : Issued(log[i][k].client, log[i][k].seq)
  /\ \A k \in 1 .. Len(committed) : Issued(committed[k].client, committed[k].seq)
  /\ \A m \in requests : Issued(m.client, m.seq)

\* The latest leader has everything that is committed.
LeaderHasAll ==
  leader \in Server =>
    /\ Len(committed) <= Len(log[leader])
    /\ \A k \in 1 .. Len(committed) : log[leader][k] = committed[k]

\* A client's session in a store that has applied a prefix of entries: its last
\* number is the highest among them, and the remembered answer is the true one.
SessionFaithful(entries, s, c) ==
  /\ \A m \in 1 .. s.applied : entries[m].client = c => entries[m].seq <= s.sessions[c].last_seq
  /\ IF s.sessions[c].last_seq = 0
     THEN s.sessions[c].last_outcome = Unavailable
     ELSE \E n \in 1 .. s.applied :
            /\ entries[n].client = c /\ entries[n].seq = s.sessions[c].last_seq
            /\ Executed(entries, n) /\ s.sessions[c].last_outcome = TrueOutcome(entries, n)

\* The versions of the key are of executed requests, oldest first.
DataFaithful(entries, s) ==
  /\ s.data = <<>> <=> \A m \in 1 .. s.applied : ~ Executed(entries, m)
  /\ \A k \in 1 .. Len(s.data) : s.data[k].seq <= s.sessions[s.data[k].client].last_seq
  /\ \A m, n \in 1 .. Len(s.data) :
       m < n /\ s.data[m].client = s.data[n].client => s.data[m].seq < s.data[n].seq

Faithful(entries, s) ==
  /\ s \in Stores /\ s.applied <= Len(entries)
  /\ \A c \in Clients : SessionFaithful(entries, s, c)
  /\ DataFaithful(entries, s)

\* What a server runs on is faithful, and so is what it would restore.
StoresFaithful ==
  /\ kv = [i \in Server |-> kv[i]] /\ saved = [i \in Server |-> saved[i]]
  /\ \A i \in Server : /\ Faithful(committed, kv[i])
                       /\ Faithful(committed, restored(saved[i]))

RepliesTrue ==
  \A r \in replies :
    /\ r.client \in Client
    /\ r.outcome.kind = "not_leader" \/ TrueAnswer(committed, r.client, r.seq, r.outcome)

SessionsInv ==
  LogsTyped /\ CallsNumbered /\ LeaderHasAll /\ StoresFaithful /\ RepliesTrue /\ AnswersAreTrue

=============================================================================
