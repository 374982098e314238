------------------------------- MODULE Kernel -------------------------------
(***************************************************************************)
(* The simulator's kernel (chrono-sim/src/kernel.rs): tasks, wakers, timers *)
(* and faults, driving the tasks a server runs (the feeders and the driver  *)
(* loop of chronolog/src/node.rs, over the queue of chan.rs), under the     *)
(* harness that samples it in slices and then lets it recover               *)
(* (chrono-oracle/src/scenario.rs).                                         *)
(*                                                                         *)
(* The kernel is single-threaded: a poll runs a task until it waits, and    *)
(* is one step here.  Every draw of the kernel's generator is a choice.     *)
(* Payloads do not matter, so mailboxes and queues are counted.  What the   *)
(* driver does with a batch is module Cluster; here it writes, waits for    *)
(* the disk, and sends.                                                    *)
(***************************************************************************)
EXTENDS Integers, FiniteSetsExt, Functions, TLC

CONSTANTS Node,
          Delays,        \* latencies of messages and of the disk
          Spells,        \* how long a partition, pause or outage lasts
          BatchLimit,    \* how much of its queue the driver takes at once
          MinAlive,      \* min_alive
          Duration, Recovery,
          MaxSends, MaxFaults

VARIABLES now,
          timers,        \* the heap
          tasks,         \* the live tasks and what each waits for
          ready,         \* tasks that were woken
          node,          \* NodeState
          chan,          \* the driver's queue of each node
          blocked,       \* directed link -> by how many partitions it is cut
          chaos_on,
          target,        \* the horizon of the current run_until
          outcome,       \* "running", or how the last one returned
          ends,          \* when the harness stops asking for slices
          phase,         \* the harness: "run", "recovery", "done"
          used

clock == <<now, target, outcome, ends, phase>>
vars == <<clock, timers, tasks, ready, node, chan, blocked, chaos_on, used>>

Links == {l \in Node \X Node : l[1] # l[2]}

-----------------------------------------------------------------------------
(* Tasks, wakers and timers.  A task is named by its node, the boot that     *)
(* spawned it and its role, so a name is never used twice.                  *)

Task(n, boots, role) == [node |-> n, boots |-> boots, role |-> role]

\* waits: "start" before the first poll, "open" for the recovery's reads, "disk"
\* and "sleep" for a TimerSlot whose flag is fired, "recv" for the mailbox,
\* "chan" for the queue.
Waiting(what) == [waits |-> what, fired |-> FALSE]

\* Inner::runnable
runnable ==
  {t \in ready \cap DOMAIN tasks : node[t.node].up /\ ~ node[t.node].paused}

\* The entries of the heap.  Their seq is left out, as next_timer draws among
\* entries of the same time; id keeps apart two messages or partitions.
Fire(at, t) == [at |-> at, type |-> "Fire", task |-> t]
Deliver(at, to, id) == [at |-> at, type |-> "Deliver", to |-> to, id |-> id]
ChaosTick(at) == [at |-> at, type |-> "ChaosTick"]
Restart(at, n) == [at |-> at, type |-> "Restart", node |-> n]
Heal(at, links, id) == [at |-> at, type |-> "Heal", links |-> links, id |-> id]
Resume(at, n) == [at |-> at, type |-> "Resume", node |-> n]

\* SimSpawner::spawn, for each task of new; all of them are ready.
spawned(new) == [t \in DOMAIN tasks \cup new |-> IF t \in new THEN Waiting("start") ELSE tasks[t]]

\* Variant: a wake that finds the task's node frozen is lost.
woken_unless_paused(ts) == {t \in ts : ~ node[t.node].paused}

\* TaskWake::wake: the task is marked ready, whether or not it still exists.
woken(ts) == ts

\* Chan::send of k values; it takes the wakers that are registered.
chan_send(n, k) ==
  chan' = IF k = 0 THEN chan
          ELSE [chan EXCEPT ![n] = [queue |-> @.queue + k, wakers |-> {}]]

wakes(n, k) == IF k = 0 THEN {} ELSE woken(chan[n].wakers)

-----------------------------------------------------------------------------
(* Polls.  pick_runnable draws a woken task and takes it out of ready.       *)

Poll(t, role) ==
  /\ outcome = "running"
  /\ t \in runnable
  /\ t.role = role
  /\ UNCHANGED <<clock, blocked, chaos_on>>

Park(t, what) == tasks' = [tasks EXCEPT ![t] = Waiting(what)]

\* Variant: a receiver with nothing to receive marks itself ready to look again.
poll_net_rx_busy(t) ==
  LET n == t.node
  IN  /\ Poll(t, "net-rx")
      /\ node' = [node EXCEPT ![n].mailbox = 0, ![n].recv_waiters = @ \cup {t}]
      /\ Park(t, "recv")
      /\ \E k \in 0 .. node[n].mailbox :
           /\ chan_send(n, k)
           /\ ready' = ready \cup wakes(n, k)
      /\ UNCHANGED <<timers, used>>

\* The net-rx task: hand every frame that decodes to the queue, then wait for
\* the mailbox.
poll_net_rx(t) ==
  LET n == t.node
  IN  /\ Poll(t, "net-rx")
      /\ node' = [node EXCEPT ![n].mailbox = 0, ![n].recv_waiters = @ \cup {t}]
      /\ Park(t, "recv")
      /\ \E k \in 0 .. node[n].mailbox :
           /\ chan_send(n, k)
           /\ ready' = (ready \ {t}) \cup wakes(n, k)
      /\ UNCHANGED <<timers, used>>

\* The ticker task: a tick for the queue when a sleep is over, and sleep again.
poll_ticker(t) ==
  LET ticks == IF tasks[t].fired THEN 1 ELSE 0
  IN  /\ Poll(t, "ticker")
      /\ Park(t, "sleep")
      /\ timers' = timers \cup {Fire(now + 1, t)}
      /\ chan_send(t.node, ticks)
      /\ ready' = (ready \ {t}) \cup wakes(t.node, ticks)
      /\ UNCHANGED <<node, used>>

\* SimNet::send: a cut link or bad luck drops the message, and it may be
\* delivered twice.
reachable(from) == {n \in Node \ {from} : blocked[<<from, n>>] = 0}
packet(n, d, copy) == Deliver(now + d, n, <<used.sends, copy>>)
once(from) == {{packet(n, d, 1)} : n \in reachable(from), d \in Delays}
twice(from) ==
  {{packet(n, d, 1), packet(n, e, 2)} : n \in reachable(from), d \in Delays, e \in Delays}

Sent(from) == {{}} \cup (IF used.sends < MaxSends THEN once(from) \cup twice(from) ELSE {})

\* The driver on its first poll: Wal::open reads the disk.
poll_open(t) ==
  /\ Poll(t, "driver") /\ tasks[t].waits = "start"
  /\ ready' = ready \ {t}
  /\ Park(t, "open")
  /\ \E d \in Delays : timers' = timers \cup {Fire(now + d, t)}
  /\ UNCHANGED <<node, chan, used>>

\* Recovered: make the queue, spawn the feeders, and wait.
poll_recovered(t) ==
  LET n == t.node
      feeders == {Task(n, t.boots, role) : role \in {"net-rx", "ticker"}}
  IN  /\ Poll(t, "driver") /\ tasks[t].waits = "open"
      /\ tasks' = [spawned(feeders) EXCEPT ![t] = Waiting("chan")]
      /\ ready' = (ready \ {t}) \cup feeders
      /\ chan' = [chan EXCEPT ![n] = [queue |-> 0, wakers |-> {t}]]
      /\ UNCHANGED <<node, timers, used>>

\* The driver's loop, from the point where recv or persist lets it go on: batches
\* with nothing to persist are answered at once; the k-th batch, if it has
\* something, is written and the driver waits for the disk.
poll_driver(t) ==
  LET n == t.node
      queue == chan[n].queue
  IN  /\ Poll(t, "driver") /\ tasks[t].waits \in {"chan", "disk"}
      /\ ready' = ready \ {t}
      /\ \E out \in Sent(n) :
           /\ used' = IF out = {} THEN used ELSE [used EXCEPT !.sends = @ + 1]
           /\ \/ /\ Park(t, "chan")
                 /\ chan' = [chan EXCEPT ![n] = [queue |-> 0, wakers |-> @.wakers \cup {t}]]
                 /\ timers' = timers \cup out
              \/ \E k \in 1 .. queue, d \in Delays :
                 /\ (k - 1) * BatchLimit < queue
                 /\ Park(t, "disk")
                 /\ chan' = [chan EXCEPT ![n].queue = Max({0, @ - k * BatchLimit})]
                 /\ timers' = timers \cup out \cup {Fire(now + d, t)}
      /\ UNCHANGED node

\* The disk failed for good: the driver returns, and its feeders live on.
driver_stops(t) ==
  /\ Poll(t, "driver") /\ tasks[t].waits \in {"open", "disk"}
  /\ used.faults < MaxFaults
  /\ used' = [used EXCEPT !.faults = @ + 1]
  /\ tasks' = Restrict(tasks, DOMAIN tasks \ {t})
  /\ ready' = ready \ {t}
  /\ UNCHANGED <<node, timers, chan>>

-----------------------------------------------------------------------------
(* Timers.  Time moves only when nothing can run.                           *)

\* next_timer, after pick_runnable found nothing and dropped the woken tasks
\* that no longer exist.
Pop(timer) ==
  /\ outcome = "running"
  /\ runnable = {}
  /\ timer \in timers
  /\ timer.at <= target /\ \A other \in timers : timer.at <= other.at
  /\ now' = timer.at
  /\ UNCHANGED <<target, outcome, ends, phase>>

alive_ready == ready \cap DOMAIN tasks

\* Action::Fire: the slot is marked, and who waits on it is woken.
fire_slot(timer) ==
  LET t == timer.task
  IN  /\ Pop(timer) /\ timer.type = "Fire"
      /\ timers' = timers \ {timer}
      /\ tasks' = [u \in DOMAIN tasks |-> IF u = t THEN [tasks[u] EXCEPT !.fired = TRUE] ELSE tasks[u]]
      /\ ready' = alive_ready \cup woken({t})
      /\ UNCHANGED <<node, chan, blocked, chaos_on, used>>

\* Action::Deliver: lost when the node is down; kept in the mailbox of a frozen one.
deliver(timer) ==
  LET n == timer.to
  IN  /\ Pop(timer) /\ timer.type = "Deliver"
      /\ timers' = timers \ {timer}
      /\ IF node[n].up
         THEN /\ node' = [node EXCEPT ![n].mailbox = @ + 1, ![n].recv_waiters = {}]
              /\ ready' = alive_ready \cup woken(node[n].recv_waiters)
         ELSE node' = node /\ ready' = alive_ready
      /\ UNCHANGED <<tasks, chan, blocked, chaos_on, used>>

\* boot_node, on every node of ns that is not up.
booted(nodes, ns) ==
  [n \in Node |-> IF n \in ns /\ ~ nodes[n].up
                  THEN [nodes[n] EXCEPT !.up = TRUE, !.paused = FALSE, !.boots = @ + 1]
                  ELSE nodes[n]]

\* The drivers it spawns.
spawn(ns) == {Task(n, node[n].boots + 1, "driver") : n \in {m \in ns : ~ node[m].up}}

\* Action::Restart
restart(timer) ==
  LET new == spawn({timer.node})
  IN  /\ Pop(timer) /\ timer.type = "Restart"
      /\ timers' = timers \ {timer}
      /\ node' = booted(node, {timer.node})
      /\ tasks' = spawned(new)
      /\ ready' = alive_ready \cup new
      /\ UNCHANGED <<chan, blocked, chaos_on, used>>

\* Variant: the first partition to heal reopens a link that another one cuts.
healed_at_once(links) == [l \in Links |-> IF l \in links THEN 0 ELSE blocked[l]]

\* A link opens when the last partition that cuts it heals.
healed(links) == [l \in Links |-> IF l \in links THEN Max({0, blocked[l] - 1}) ELSE blocked[l]]

\* Action::Heal
heal(timer) ==
  /\ Pop(timer) /\ timer.type = "Heal"
  /\ timers' = timers \ {timer}
  /\ blocked' = healed(timer.links)
  /\ ready' = alive_ready
  /\ UNCHANGED <<tasks, node, chan, chaos_on, used>>

\* Action::Resume
resume(timer) ==
  /\ Pop(timer) /\ timer.type = "Resume"
  /\ timers' = timers \ {timer}
  /\ node' = [node EXCEPT ![timer.node].paused = FALSE]
  /\ ready' = alive_ready
  /\ UNCHANGED <<tasks, chan, blocked, chaos_on, used>>

-----------------------------------------------------------------------------
(* Faults *)

\* The links a partition cuts: a proper part of the servers against the rest.
Cuts ==
  LET across(a) == a \X (Node \ a)
      parts == SUBSET Node \ {{}, Node}
  IN  {across(a) : a \in parts} \cup {across(a) \cup across(Node \ a) : a \in parts}

AtMostOne(S) == {{}} \cup {{x} : x \in S}

\* Variant: the crash leaves the node's tasks in place.
reaped_none(ns) == tasks

\* crash_in_lock takes the node's tasks out of the kernel.
reaped(ns) == Restrict(tasks, {t \in DOMAIN tasks : t.node \notin ns})

\* Each fault of a tick has a length of its own.
Lasting == [cut : Spells, pause : Spells, crash : Spells]

\* The faults of one tick, each with its end scheduled.
strike(timer, cut, pause, crash, lasts) ==
  LET faults == Cardinality(cut) + Cardinality(pause) + Cardinality(crash)
      at == timer.at
  IN  /\ faults > 0 => chaos_on /\ used.faults + faults <= MaxFaults
      /\ used' = [used EXCEPT !.faults = @ + faults]
      /\ blocked' = [l \in Links |-> blocked[l] + Cardinality({c \in cut : l \in c})]
      /\ node' = [n \in Node |->
           IF n \in crash
           THEN [node[n] EXCEPT !.up = FALSE, !.paused = FALSE, !.mailbox = 0, !.recv_waiters = {}]
           ELSE [node[n] EXCEPT !.paused = @ \/ n \in pause]]
      /\ tasks' = reaped(crash)
      /\ ready' = {t \in alive_ready : t.node \notin crash}
      /\ timers' = (timers \ {timer}) \cup {ChaosTick(at + 1)}
           \cup {Heal(at + lasts.cut, c, used.faults) : c \in cut}
           \cup {Resume(at + lasts.pause, n) : n \in pause}
           \cup {Restart(at + lasts.crash, n) : n \in crash}

\* chaos_tick: a partition, a pause and a crash, or some of them, and the next tick.
chaos(timer) ==
  LET up == {n \in Node : node[n].up}
  IN  /\ Pop(timer) /\ timer.type = "ChaosTick"
      /\ \E cut \in AtMostOne(Cuts), pause \in AtMostOne({n \in up : ~ node[n].paused}),
            crash \in AtMostOne(up), lasts \in Lasting :
           /\ crash # {} => Cardinality(up) > MinAlive
           /\ strike(timer, cut, pause, crash, lasts)
      /\ UNCHANGED <<chan, chaos_on>>

-----------------------------------------------------------------------------
(* The harness *)

\* run_until finds no timer within the horizon.
return ==
  LET over == timers # {}      \* then the next timer is past the horizon
  IN  /\ outcome = "running"
      /\ runnable = {}
      /\ \A timer \in timers : timer.at > target
      /\ now' = IF over THEN target ELSE now
      /\ outcome' = IF over \/ now >= target THEN "HorizonReached" ELSE "Quiesced"
      /\ ready' = alive_ready
      /\ UNCHANGED <<target, ends, phase, timers, tasks, node, chan, blocked, chaos_on, used>>

\* The next slice of the run or of the recovery.
slice ==
  /\ outcome # "running" /\ phase # "done" /\ now < ends
  /\ target' = Min({now + 1, ends})
  /\ outcome' = "running"
  /\ UNCHANGED <<now, ends, phase, timers, tasks, ready, node, chan, blocked, chaos_on, used>>

\* Variant: heal_all mends the links and leaves frozen nodes to their Resume.
resumed_later(nodes) == nodes

\* heal_all thaws every frozen node and takes the wakers of its receivers.
resumed(nodes) ==
  [n \in Node |-> IF nodes[n].paused
                  THEN [nodes[n] EXCEPT !.paused = FALSE, !.recv_waiters = {}]
                  ELSE nodes[n]]

\* The recovery phase begins, when the run is over or all clients are done: no
\* more chaos, heal_all, restart what is down.
recover ==
  LET new == spawn(Node)
  IN  /\ outcome # "running" /\ phase = "run"
      /\ phase' = "recovery"
      /\ ends' = now + Recovery
      /\ chaos_on' = FALSE
      /\ blocked' = [l \in Links |-> 0]
      /\ node' = booted(resumed(node), Node)
      /\ tasks' = spawned(new)
      /\ ready' = ready \cup new
           \cup woken(UNION {node[n].recv_waiters : n \in {m \in Node : node[m].paused}})
      /\ UNCHANGED <<now, target, outcome, timers, chan, used>>

finish ==
  /\ outcome # "running" /\ phase = "recovery" /\ now >= ends
  /\ phase' = "done"
  /\ UNCHANGED <<now, target, outcome, ends, timers, tasks, ready, node, chan, blocked, chaos_on, used>>

-----------------------------------------------------------------------------
\* After add_node and boot_all.
Init ==
  /\ now = 0 /\ target = 0 /\ outcome = "HorizonReached" /\ ends = Duration /\ phase = "run"
  /\ node = [n \in Node |-> [up |-> TRUE, paused |-> FALSE, boots |-> 1,
                             mailbox |-> 0, recv_waiters |-> {}]]
  /\ tasks = [t \in {Task(n, 1, "driver") : n \in Node} |-> Waiting("start")]
  /\ ready = DOMAIN tasks
  /\ timers = {ChaosTick(1)}
  /\ chan = [n \in Node |-> [queue |-> 0, wakers |-> {}]]
  /\ blocked = [l \in Links |-> 0]
  /\ chaos_on = TRUE
  /\ used = [sends |-> 0, faults |-> 0]

Next ==
  \/ \E t \in ready : poll_net_rx(t)
  \/ \E t \in ready : poll_ticker(t)
  \/ \E t \in ready : poll_open(t)
  \/ \E t \in ready : poll_recovered(t)
  \/ \E t \in ready : poll_driver(t)
  \/ \E t \in ready : driver_stops(t)
  \/ \E timer \in timers : fire_slot(timer)
  \/ \E timer \in timers : deliver(timer)
  \/ \E timer \in timers : restart(timer)
  \/ \E timer \in timers : heal(timer)
  \/ \E timer \in timers : resume(timer)
  \/ \E timer \in timers : chaos(timer)
  \/ return
  \/ slice
  \/ recover
  \/ finish

\* run_until and the harness are loops of one thread.
Spec == Init /\ [][Next]_vars /\ WF_vars(Next)

-----------------------------------------------------------------------------
(* Properties *)

\* No wake-up is lost: a task that is not marked ready waits for something that
\* has not happened and will wake it (RecvFuture, Recv and TimerFuture leave
\* their waker where Deliver, Chan::send and Fire look for it, across crashes,
\* restarts and freezes); and only its own timer wakes a task that waits for one.
NoLostWakeup ==
  \A t \in DOMAIN tasks :
    LET n == t.node
        w == tasks[t]
        timed == w.waits \in {"open", "disk", "sleep"}
    IN  /\ t \notin ready =>
             \/ w.waits = "recv" /\ node[n].mailbox = 0 /\ t \in node[n].recv_waiters
             \/ w.waits = "chan" /\ chan[n].queue = 0 /\ t \in chan[n].wakers
             \/ timed /\ ~ w.fired /\ \E timer \in timers : timer.type = "Fire" /\ timer.task = t
        /\ t \in ready /\ timed => w.fired

\* A node's tasks are those of its current boot (crash_in_lock reaps, boot_node
\* spawns): whatever timers and wakers a crashed boot leaves behind, two boots
\* of one node never run together, and a boot has at most one task of a role.
OneIncarnation ==
  \A t \in DOMAIN tasks : node[t.node].up /\ t.boots = node[t.node].boots

\* Every fault ends (chaos_tick schedules the end with the fault): while chaos is
\* on, a link is cut by exactly the partitions whose Heal is still to come, a
\* frozen node has a Resume to come and a crashed one a Restart.
FaultsEnd ==
  phase = "run" =>
    /\ \A l \in Links :
         blocked[l] = Cardinality({timer \in timers : timer.type = "Heal" /\ l \in timer.links})
    /\ \A n \in Node :
         /\ node[n].paused => \E timer \in timers : timer.type = "Resume" /\ timer.node = n
         /\ ~ node[n].up => \E timer \in timers : timer.type = "Restart" /\ timer.node = n

\* Recovery is calm (the scenario's "demanding progress is fair" phase): from its
\* start no server is down or frozen and no link is cut, though ends of earlier
\* faults, and chaos ticks, are still in the heap.
RecoveryIsCalm ==
  phase # "run" =>
    /\ \A n \in Node : node[n].up /\ ~ node[n].paused
    /\ \A l \in Links : blocked[l] = 0

\* The scenario ends: run_until never polls forever at one instant (what its
\* Livelock budget is there to catch) and each slice moves the clock.
RunReturns == <>(phase = "done")

-----------------------------------------------------------------------------
(* Why no wake-up is lost and no fault is left behind: the inductive         *)
(* invariants.                                                              *)

Roles == {"driver", "net-rx", "ticker"}
TaskIds == [node : Node, boots : Nat, role : Roles]

TaskSlots == [waits : {"start", "open", "chan", "disk", "recv", "sleep"}, fired : BOOLEAN]
NodeStates == [up : BOOLEAN, paused : BOOLEAN, boots : Nat, mailbox : Nat,
               recv_waiters : SUBSET TaskIds]

NodesTyped == node \in [Node -> NodeStates]

TasksTyped == DOMAIN tasks \subseteq TaskIds /\ tasks \in [DOMAIN tasks -> TaskSlots]

ChansTyped ==
  /\ chan = [n \in Node |-> chan[n]]
  /\ \A n \in Node : chan[n] = [queue |-> chan[n].queue, wakers |-> chan[n].wakers]

TimersTyped ==
  \A timer \in timers :
    /\ timer.type = "Deliver" => timer.to \in Node
    /\ timer.type \in {"Restart", "Resume"} => timer.node \in Node

KernelTyped == NodesTyped /\ TasksTyped /\ ChansTyped /\ TimersTyped

FireTimers(t) == {timer \in timers : timer.type = "Fire" /\ timer.task = t}

\* Each kind of task waits for its own kind of thing, and the feeders come after
\* the driver has recovered.
Stages ==
  \A t \in DOMAIN tasks :
    /\ tasks[t].waits \in {"open", "chan", "disk"} => t.role = "driver"
    /\ tasks[t].waits = "recv" => t.role = "net-rx"
    /\ tasks[t].waits = "sleep" => t.role = "ticker"
    /\ t.role # "driver" =>
         LET driver == Task(t.node, t.boots, "driver")
         IN  driver \in DOMAIN tasks => tasks[driver].waits \in {"chan", "disk"}

\* A waker is kept where its task waits, and names no boot to come.
Wakers ==
  \A n \in Node :
    /\ \A t \in chan[n].wakers :
         /\ t \in TaskIds /\ t.node = n /\ t.role = "driver" /\ t.boots <= node[n].boots
         /\ t \in DOMAIN tasks => tasks[t].waits = "chan" /\ t \notin ready
    /\ \A t \in node[n].recv_waiters :
         t \in DOMAIN tasks /\ t.node = n /\ tasks[t].waits = "recv"

\* A timer that has yet to fire is the only one of its task, which waits for it;
\* those of an earlier boot find no task.
Sleepers ==
  \A timer \in timers : timer.type = "Fire" =>
    LET t == timer.task
    IN  /\ t \in TaskIds /\ t.boots <= node[t.node].boots
        /\ t.boots = node[t.node].boots /\ node[t.node].up => t \in DOMAIN tasks
        /\ t \in DOMAIN tasks =>
             /\ tasks[t].waits \in {"open", "disk", "sleep"} /\ ~ tasks[t].fired /\ t \notin ready
             /\ FireTimers(t) = {timer}

WakeInv == KernelTyped /\ OneIncarnation /\ Stages /\ Wakers /\ Sleepers /\ NoLostWakeup

\* A partition's Heal is told from the others by its id; and once the recovery
\* begins there is no more chaos.
FaultInv ==
  /\ IsFiniteSet(timers) /\ used.faults \in Nat
  /\ used = [sends |-> used.sends, faults |-> used.faults]
  /\ \A timer \in timers : timer.type = "Heal" => timer.id \in Nat /\ timer.id < used.faults
  /\ phase # "run" => ~ chaos_on
  /\ FaultsEnd /\ RecoveryIsCalm

=============================================================================
