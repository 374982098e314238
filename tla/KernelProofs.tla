---------------------------- MODULE KernelProofs -----------------------------
(***************************************************************************)
(* Proofs about the kernel of the simulator: no wake-up is lost, and every  *)
(* fault is mended.                                                         *)
(***************************************************************************)
EXTENDS FaultProofs

-----------------------------------------------------------------------------
(* The kernel: wake-ups *)

\* A task that is polled lives, on a node that is up and not frozen.
LEMMA PolledIs ==
  ASSUME WakeInv, NEW t, NEW role, Poll(t, role)
  PROVE  /\ t \in DOMAIN tasks /\ t \in TaskIds /\ t \in ready /\ t.node \in Node /\ t.role = role
         /\ t.boots \in Nat /\ t = Task(t.node, t.boots, role)
         /\ node[t.node].up /\ t.boots = node[t.node].boots
         /\ \A n \in Node : t \notin chan[n].wakers
         /\ FireTimers(t) = {}
<1>1. t \in DOMAIN tasks /\ t \in TaskIds /\ t \in ready /\ t.role = role
  BY DEF Poll, runnable, WakeInv, KernelTyped, TasksTyped, TaskSlots
<1>2. t.node \in Node /\ t.boots \in Nat /\ t = Task(t.node, t.boots, role)
  BY <1>1 DEF TaskIds, Task
<1>3. node[t.node].up /\ t.boots = node[t.node].boots
  BY <1>1 DEF WakeInv, OneIncarnation
<1>4. \A n \in Node : t \notin chan[n].wakers
  BY <1>1 DEF WakeInv, Wakers
<1>5. FireTimers(t) = {}
  BY <1>1 DEF WakeInv, Sleepers, FireTimers
<1> QED BY <1>1, <1>2, <1>3, <1>4, <1>5

\* What NoLostWakeup says of one task.
Attended(t) ==
  /\ t \notin ready =>
       \/ /\ tasks[t].waits = "recv"
          /\ node[t.node].mailbox = 0 /\ t \in node[t.node].recv_waiters
       \/ tasks[t].waits = "chan" /\ chan[t.node].queue = 0 /\ t \in chan[t.node].wakers
       \/ /\ tasks[t].waits \in {"open", "disk", "sleep"} /\ ~ tasks[t].fired
          /\ FireTimers(t) # {}
  /\ t \in ready /\ tasks[t].waits \in {"open", "disk", "sleep"} => tasks[t].fired

LEMMA AttendedIs == /\ NoLostWakeup <=> \A t \in DOMAIN tasks : Attended(t)
                    /\ NoLostWakeup' <=> \A t \in DOMAIN tasks' : Attended(t)'
  BY DEF NoLostWakeup, Attended, FireTimers

\* A parked task waits for something new, and no other task is touched.
LEMMA Parked ==
  ASSUME WakeInv, NEW t \in DOMAIN tasks,
         NEW what \in {"start", "open", "chan", "disk", "recv", "sleep"}, Park(t, what)
  PROVE  /\ DOMAIN tasks' = DOMAIN tasks
         /\ tasks'[t] = [waits |-> what, fired |-> FALSE]
         /\ \A u \in DOMAIN tasks : u # t => tasks'[u] = tasks[u]
         /\ TasksTyped'
  BY DEF WakeInv, KernelTyped, TasksTyped, TaskSlots, Park, Waiting

\* Sending takes the queue's wakers and wakes them all.
LEMMA ChanSent ==
  ASSUME WakeInv, NEW n \in Node, NEW k, chan_send(n, k)
  PROVE  /\ ChansTyped'
         /\ \A m \in Node : chan'[m].wakers \subseteq chan[m].wakers
         /\ \A m \in Node : m # n => chan'[m] = chan[m]
         /\ \/ chan'[n] = chan[n] /\ wakes(n, k) = {}
            \/ chan'[n].wakers = {} /\ wakes(n, k) = chan[n].wakers
  BY ZenonT(60) DEF WakeInv, KernelTyped, ChansTyped, chan_send, wakes, woken

\* What a poll that spawns nothing may do to the wakers and timers.
Polled(t, what, W) ==
  LET n == t.node
  IN  /\ DOMAIN tasks' = DOMAIN tasks
      /\ tasks'[t] = [waits |-> what, fired |-> FALSE]
      /\ \A u \in DOMAIN tasks : u # t => tasks'[u] = tasks[u]
      /\ ready' = (ready \ {t}) \cup W
      /\ W \subseteq chan[n].wakers
      /\ \A m \in Node : m # n => chan'[m] = chan[m] /\ node'[m] = node[m]
      /\ node'[n].up = node[n].up /\ node'[n].boots = node[n].boots
      /\ \/ what # "recv" /\ node'[n] = node[n]
         \/ /\ what = "recv" /\ node'[n].mailbox = 0
            /\ node'[n].recv_waiters = node[n].recv_waiters \cup {t}
      /\ \/ what # "chan" /\ chan'[n] = chan[n] /\ W = {}
         \/ what # "chan" /\ chan'[n].wakers = {} /\ W = chan[n].wakers
         \/ what = "disk" /\ chan'[n].wakers = chan[n].wakers /\ W = {}
         \/ what = "chan" /\ W = {} /\ chan'[n].queue = 0 /\ chan'[n].wakers = chan[n].wakers \cup {t}
      /\ \A timer \in timers : timer.type = "Fire" => timer \in timers'
      /\ \A timer \in timers' : timer.type = "Fire" => timer \in timers \/ timer.task = t
      /\ IF what \in {"open", "disk", "sleep"}
         THEN \E timer : FireTimers(t)' = {timer} ELSE FireTimers(t)' = {}

LEMMA PollWakes ==
  ASSUME WakeInv, NEW t, NEW role, Poll(t, role), NEW what, NEW W, Polled(t, what, W),
         KernelTyped',
         <<role, what>> \in {<<"driver", "open">>, <<"driver", "chan">>, <<"driver", "disk">>,
                             <<"net-rx", "recv">>, <<"ticker", "sleep">>},
         what = "open" => tasks[t].waits = "start"
  PROVE  WakeInv'
<1>1. /\ t \in DOMAIN tasks /\ t \in TaskIds /\ t \in ready /\ t.node \in Node /\ t.role = role
      /\ t.boots \in Nat /\ t = Task(t.node, t.boots, role)
      /\ node[t.node].up /\ t.boots = node[t.node].boots
      /\ \A n \in Node : t \notin chan[n].wakers
      /\ FireTimers(t) = {}
  BY PolledIs
<1>2. /\ DOMAIN tasks' = DOMAIN tasks
      /\ tasks'[t] = [waits |-> what, fired |-> FALSE]
      /\ \A u \in DOMAIN tasks : u # t => tasks'[u] = tasks[u]
  BY DEF Polled
<1>3. /\ ready' = (ready \ {t}) \cup W /\ W \subseteq chan[t.node].wakers /\ t \notin ready'
      /\ \A u \in DOMAIN tasks : u # t => (u \in ready' <=> u \in ready \/ u \in W)
  BY <1>1 DEF Polled
<1>4. \A n \in Node : /\ node'[n].up = node[n].up /\ node'[n].boots = node[n].boots
                      /\ n # t.node => node'[n] = node[n] /\ chan'[n] = chan[n]
  BY ZenonT(60), <1>1 DEF Polled
<1>5. \A u \in DOMAIN tasks : u.node \in Node /\ u.boots \in Nat /\ u \in TaskIds
  BY DEF WakeInv, KernelTyped, TasksTyped, TaskIds
<1>6. OneIncarnation'
  BY <1>2, <1>4, <1>5 DEF WakeInv, OneIncarnation
<1>7. Stages'
  <2> SUFFICES ASSUME NEW u \in DOMAIN tasks
               PROVE  /\ tasks'[u].waits \in {"open", "chan", "disk"} => u.role = "driver"
                      /\ tasks'[u].waits = "recv" => u.role = "net-rx"
                      /\ tasks'[u].waits = "sleep" => u.role = "ticker"
                      /\ u.role # "driver" /\ Task(u.node, u.boots, "driver") \in DOMAIN tasks
                           => tasks'[Task(u.node, u.boots, "driver")].waits \in {"chan", "disk"}
    BY <1>2 DEF Stages
  <2>1. /\ tasks'[u].waits \in {"open", "chan", "disk"} => u.role = "driver"
        /\ tasks'[u].waits = "recv" => u.role = "net-rx"
        /\ tasks'[u].waits = "sleep" => u.role = "ticker"
    BY <1>1, <1>2 DEF WakeInv, Stages
  <2>2. ASSUME u.role # "driver", NEW d, d = Task(u.node, u.boots, "driver"), d \in DOMAIN tasks
        PROVE  tasks'[d].waits \in {"chan", "disk"}
    <3>1. tasks[d].waits \in {"chan", "disk"}
      BY <2>2 DEF WakeInv, Stages
    <3>2. d.role = "driver"
      BY <2>2 DEF Task
    <3> QED BY <1>1, <1>2, <2>2, <3>1, <3>2
  <2> QED BY <2>1, <2>2
<1>8. Wakers'
  <2>1. ASSUME NEW n \in Node, NEW u \in chan'[n].wakers
        PROVE  /\ u \in TaskIds /\ u.node = n /\ u.role = "driver" /\ u.boots <= node[n].boots
               /\ u \in DOMAIN tasks => tasks'[u].waits = "chan" /\ u \notin ready'
    <3>1. CASE u = t
      <4>1. n = t.node
        BY <1>1, <1>4, <2>1, <3>1
      <4>2. what = "chan"
        BY <1>1, <2>1, <3>1, <4>1 DEF Polled
      <4>3. t.role = "driver"
        BY <1>1, <4>2
      <4> QED BY <1>1, <1>2, <1>3, <3>1, <4>1, <4>2, <4>3
    <3>2. CASE u # t
      <4>1. u \in chan[n].wakers /\ (n = t.node => u \notin W)
        <5>1. CASE n # t.node
          BY <1>4, <2>1, <5>1
        <5>2. CASE n = t.node
          BY <1>1, <1>3, <2>1, <3>2, <5>2 DEF Polled
        <5> QED BY <5>1, <5>2
      <4>2. /\ u \in TaskIds /\ u.node = n /\ u.role = "driver" /\ u.boots <= node[n].boots
            /\ u \in DOMAIN tasks => tasks[u].waits = "chan" /\ u \notin ready
        BY <4>1 DEF WakeInv, Wakers
      <4>3. u \notin W
        BY <1>1, <1>3, <4>1, <4>2 DEF WakeInv, Wakers
      <4> QED BY <1>2, <1>3, <3>2, <4>2, <4>3
    <3> QED BY <3>1, <3>2
  <2>2. ASSUME NEW n \in Node, NEW u \in node'[n].recv_waiters
        PROVE  u \in DOMAIN tasks /\ u.node = n /\ tasks'[u].waits = "recv"
    <3>1. CASE u = t /\ n = t.node /\ what = "recv"
      BY <1>1, <1>2, <3>1
    <3>2. CASE u \in node[n].recv_waiters
      <4>1. u \in DOMAIN tasks /\ u.node = n /\ tasks[u].waits = "recv"
        BY <3>2 DEF WakeInv, Wakers
      <4>2. u = t => what = "recv"
        BY <1>1, <4>1 DEF WakeInv, Stages
      <4> QED BY <1>2, <4>1, <4>2
    <3> QED BY <1>1, <1>4, <2>2, <3>1, <3>2 DEF Polled
  <2> QED BY <1>2, <1>4, <2>1, <2>2 DEF Wakers
<1>9. Sleepers'
  <2> SUFFICES ASSUME NEW timer \in timers', timer.type = "Fire", NEW u, u = timer.task
               PROVE  /\ u \in TaskIds /\ u.boots <= node'[u.node].boots
                      /\ u.boots = node'[u.node].boots /\ node'[u.node].up => u \in DOMAIN tasks'
                      /\ u \in DOMAIN tasks' =>
                           /\ tasks'[u].waits \in {"open", "disk", "sleep"} /\ ~ tasks'[u].fired
                           /\ u \notin ready' /\ FireTimers(u)' = {timer}
    BY DEF Sleepers
  <2>1. CASE u = t
    <3>1. timer \in FireTimers(t)'
      BY ZenonT(60), <2>1 DEF FireTimers
    <3>2. what \in {"open", "disk", "sleep"} /\ FireTimers(t)' = {timer}
      BY <3>1 DEF Polled
    <3> QED BY <1>1, <1>2, <1>3, <1>4, <2>1, <3>2
  <2>2. CASE u # t
    <3>1. timer \in timers
      BY <2>2 DEF Polled
    <3>2. /\ u \in TaskIds /\ u.boots <= node[u.node].boots
          /\ u.boots = node[u.node].boots /\ node[u.node].up => u \in DOMAIN tasks
          /\ u \in DOMAIN tasks =>
               /\ tasks[u].waits \in {"open", "disk", "sleep"} /\ ~ tasks[u].fired
               /\ u \notin ready /\ FireTimers(u) = {timer}
      BY <3>1 DEF WakeInv, Sleepers
    <3>3. u \in DOMAIN tasks => u \notin W
      BY <1>1, <1>3, <3>2 DEF WakeInv, Wakers
    <3>4. FireTimers(u)' = FireTimers(u)
      BY <2>2 DEF Polled, FireTimers
    <3>5. u.node \in Node
      BY <3>2 DEF TaskIds
    <3> QED BY <1>2, <1>3, <1>4, <2>2, <3>2, <3>3, <3>4, <3>5
  <2> QED BY <2>1, <2>2
<1>10. NoLostWakeup'
  <2> SUFFICES ASSUME NEW u \in DOMAIN tasks
               PROVE  Attended(u)'
    BY <1>2, AttendedIs
  <2>1. CASE u = t
    BY <1>1, <1>2, <1>3, <2>1 DEF Polled, Attended, FireTimers
  <2>2. CASE u # t
    <3>1. Attended(u) /\ tasks'[u] = tasks[u]
      BY <1>2, <2>2, AttendedIs DEF WakeInv
    <3>2. CASE u \in W
      BY <1>1, <1>3, <3>1, <3>2 DEF WakeInv, Wakers, Attended
    <3>3. CASE u \notin W
      <4>1. u \in ready' <=> u \in ready
        BY <1>3, <2>2, <3>3
      <4>2. ASSUME tasks[u].waits = "recv", node[u.node].mailbox = 0, u \in node[u.node].recv_waiters
            PROVE  node'[u.node].mailbox = 0 /\ u \in node'[u.node].recv_waiters
        BY <1>4, <1>5, <4>2 DEF Polled
      <4>3. ASSUME u \notin ready, tasks[u].waits = "chan", chan[u.node].queue = 0, u \in chan[u.node].wakers
            PROVE  chan'[u.node].queue = 0 /\ u \in chan'[u.node].wakers
        <5>1. CASE u.node # t.node
          BY <1>4, <1>5, <4>3, <5>1
        <5>2. CASE u.node = t.node /\ role = "driver"
          <6>1. u.role = "driver" /\ u.boots = t.boots
            BY <1>1, <4>3, <5>2 DEF WakeInv, Stages, OneIncarnation
          <6>2. u = t
            BY <1>1, <1>5, <5>2, <6>1 DEF TaskIds, Task
          <6> QED BY <2>2, <6>2
        <5>3. CASE u.node = t.node /\ role # "driver"
          BY <1>1, <3>3, <4>3, <5>3 DEF Polled
        <5> QED BY <5>1, <5>2, <5>3
      <4>4. FireTimers(u)' = FireTimers(u)
        BY <2>2 DEF Polled, FireTimers
      <4> QED BY <3>1, <4>1, <4>2, <4>3, <4>4 DEF Attended
    <3> QED BY <3>2, <3>3
  <2> QED BY <2>1, <2>2
<1> QED BY <1>6, <1>7, <1>8, <1>9, <1>10 DEF WakeInv

LEMMA NetRxWakes ==
  ASSUME WakeInv, NEW t, poll_net_rx(t)
  PROVE  WakeInv'
<1>1. PICK k \in 0 .. node[t.node].mailbox :
        chan_send(t.node, k) /\ ready' = (ready \ {t}) \cup wakes(t.node, k)
  BY DEF poll_net_rx
<1>2. /\ t \in DOMAIN tasks /\ t \in TaskIds /\ t.node \in Node
      /\ FireTimers(t) = {} /\ Poll(t, "net-rx")
  BY PolledIs DEF poll_net_rx
<1>3. /\ DOMAIN tasks' = DOMAIN tasks
      /\ tasks'[t] = [waits |-> "recv", fired |-> FALSE]
      /\ \A u \in DOMAIN tasks : u # t => tasks'[u] = tasks[u]
      /\ TasksTyped'
  BY <1>2, Parked DEF poll_net_rx
<1>4. /\ ChansTyped'
      /\ \A m \in Node : m # t.node => chan'[m] = chan[m]
      /\ \/ chan'[t.node] = chan[t.node] /\ wakes(t.node, k) = {}
         \/ chan'[t.node].wakers = {} /\ wakes(t.node, k) = chan[t.node].wakers
  BY <1>1, <1>2, ChanSent
<1>5. /\ timers' = timers
      /\ node' = [node EXCEPT ![t.node].mailbox = 0, ![t.node].recv_waiters = @ \cup {t}]
  BY DEF poll_net_rx
<1>6. KernelTyped'
  BY <1>2, <1>3, <1>4, <1>5 DEF WakeInv, KernelTyped, NodesTyped, NodeStates, TimersTyped
<1>7. /\ \A m \in Node : m # t.node => node'[m] = node[m]
      /\ node'[t.node].up = node[t.node].up /\ node'[t.node].boots = node[t.node].boots
      /\ node'[t.node].mailbox = 0 /\ node'[t.node].recv_waiters = node[t.node].recv_waiters \cup {t}
  BY <1>2, <1>5 DEF WakeInv, KernelTyped, NodesTyped, NodeStates, ChansTyped
<1>8. Polled(t, "recv", wakes(t.node, k))
  BY ZenonT(60), <1>1, <1>2, <1>3, <1>4, <1>5, <1>7 DEF Polled, FireTimers
<1> QED BY <1>2, <1>6, <1>8, PollWakes

LEMMA TickerWakes ==
  ASSUME WakeInv, NEW t, poll_ticker(t)
  PROVE  WakeInv'
<1>1. PICK k : chan_send(t.node, k) /\ ready' = (ready \ {t}) \cup wakes(t.node, k)
  BY DEF poll_ticker
<1>2. /\ t \in DOMAIN tasks /\ t \in TaskIds /\ t.node \in Node
      /\ FireTimers(t) = {} /\ Poll(t, "ticker")
  BY PolledIs DEF poll_ticker
<1>3. /\ DOMAIN tasks' = DOMAIN tasks
      /\ tasks'[t] = [waits |-> "sleep", fired |-> FALSE]
      /\ \A u \in DOMAIN tasks : u # t => tasks'[u] = tasks[u]
      /\ TasksTyped'
  BY <1>2, Parked DEF poll_ticker
<1>4. /\ ChansTyped'
      /\ \A m \in Node : m # t.node => chan'[m] = chan[m]
      /\ \/ chan'[t.node] = chan[t.node] /\ wakes(t.node, k) = {}
         \/ chan'[t.node].wakers = {} /\ wakes(t.node, k) = chan[t.node].wakers
  BY <1>1, <1>2, ChanSent
<1>5. /\ timers' = timers \cup {Fire(now + 1, t)} /\ node' = node
  BY DEF poll_ticker
<1>6. KernelTyped'
  <2>1. TimersTyped'
    BY <1>5 DEF WakeInv, KernelTyped, TimersTyped, Fire
  <2> QED BY <1>2, <1>3, <1>4, <1>5, <2>1 DEF WakeInv, KernelTyped, NodesTyped, NodeStates
<1>7. FireTimers(t)' = {Fire(now + 1, t)} /\ Fire(now + 1, t).task = t
  BY <1>2, <1>5 DEF FireTimers, Fire
<1>8. Polled(t, "sleep", wakes(t.node, k))
  BY <1>1, <1>2, <1>3, <1>4, <1>5, <1>7 DEF Polled
<1> QED BY <1>2, <1>6, <1>8, PollWakes

LEMMA OpenWakes ==
  ASSUME WakeInv, NEW t, poll_open(t)
  PROVE  WakeInv'
<1>1. PICK d \in Delays : timers' = timers \cup {Fire(now + d, t)}
  BY DEF poll_open
<1>2. /\ t \in DOMAIN tasks /\ t \in TaskIds /\ t.node \in Node
      /\ FireTimers(t) = {} /\ Poll(t, "driver")
  BY PolledIs DEF poll_open
<1>3. /\ DOMAIN tasks' = DOMAIN tasks
      /\ tasks'[t] = [waits |-> "open", fired |-> FALSE]
      /\ \A u \in DOMAIN tasks : u # t => tasks'[u] = tasks[u]
      /\ TasksTyped'
  BY <1>2, Parked DEF poll_open
<1>4. /\ node' = node /\ chan' = chan /\ ready' = ready \ {t} /\ tasks[t].waits = "start"
  BY DEF poll_open
<1>5. KernelTyped'
  <2>1. TimersTyped'
    BY <1>1 DEF WakeInv, KernelTyped, TimersTyped, Fire
  <2> QED BY <1>2, <1>3, <1>4, <2>1 DEF WakeInv, KernelTyped, NodesTyped, NodeStates, ChansTyped
<1>6. FireTimers(t)' = {Fire(now + d, t)} /\ Fire(now + d, t).task = t
  BY <1>1, <1>2 DEF FireTimers, Fire
<1>7. Polled(t, "open", {})
  BY ZenonT(60), <1>1, <1>2, <1>3, <1>4, <1>6 DEF Polled
<1> QED BY <1>2, <1>4, <1>5, <1>7, PollWakes

LEMMA DriverWakes ==
  ASSUME WakeInv, NEW t, poll_driver(t)
  PROVE  WakeInv'
<1>1. PICK out \in Sent(t.node) :
        \/ /\ Park(t, "chan")
           /\ chan' = [chan EXCEPT ![t.node] = [queue |-> 0, wakers |-> @.wakers \cup {t}]]
           /\ timers' = timers \cup out
        \/ \E k \in 1 .. chan[t.node].queue, d \in Delays :
           /\ Park(t, "disk")
           /\ chan' = [chan EXCEPT ![t.node].queue = Max({0, @ - k * BatchLimit})]
           /\ timers' = timers \cup out \cup {Fire(now + d, t)}
  BY ZenonT(60) DEF poll_driver
<1>2. /\ t \in DOMAIN tasks /\ t \in TaskIds /\ t.node \in Node
      /\ FireTimers(t) = {} /\ Poll(t, "driver")
  BY PolledIs DEF poll_driver
<1>3. \A timer \in out : timer.type = "Deliver" /\ timer.to \in Node
  BY SentIs
<1>4. node' = node /\ ready' = ready \ {t}
  BY DEF poll_driver
<1>5. CASE /\ Park(t, "chan")
           /\ chan' = [chan EXCEPT ![t.node] = [queue |-> 0, wakers |-> @.wakers \cup {t}]]
           /\ timers' = timers \cup out
  <2>1. /\ DOMAIN tasks' = DOMAIN tasks
        /\ tasks'[t] = [waits |-> "chan", fired |-> FALSE]
        /\ \A u \in DOMAIN tasks : u # t => tasks'[u] = tasks[u]
        /\ TasksTyped'
    BY <1>2, <1>5, Parked
  <2>2. /\ ChansTyped'
          /\ \A m \in Node : m # t.node => chan'[m] = chan[m]
        /\ chan'[t.node].queue = 0 /\ chan'[t.node].wakers = chan[t.node].wakers \cup {t}
    BY ZenonT(60), <1>2, <1>5 DEF WakeInv, KernelTyped, NodesTyped, NodeStates, ChansTyped
  <2>3. KernelTyped'
    <3>1. TimersTyped'
      BY <1>3, <1>5 DEF WakeInv, KernelTyped, TimersTyped
    <3> QED BY <1>2, <1>4, <2>1, <2>2, <3>1 DEF WakeInv, KernelTyped, NodesTyped, NodeStates
  <2>4. FireTimers(t)' = {}
    BY <1>2, <1>3, <1>5 DEF FireTimers
  <2>5. Polled(t, "chan", {})
    BY <1>2, <1>3, <1>4, <1>5, <2>1, <2>2, <2>4 DEF Polled
  <2> QED BY <1>2, <2>3, <2>5, PollWakes
<1>6. ASSUME NEW k \in 1 .. chan[t.node].queue, NEW d \in Delays,
             Park(t, "disk"),
             chan' = [chan EXCEPT ![t.node].queue = Max({0, @ - k * BatchLimit})],
             timers' = timers \cup out \cup {Fire(now + d, t)}
      PROVE  WakeInv'
  <2>1. /\ DOMAIN tasks' = DOMAIN tasks
        /\ tasks'[t] = [waits |-> "disk", fired |-> FALSE]
        /\ \A u \in DOMAIN tasks : u # t => tasks'[u] = tasks[u]
        /\ TasksTyped'
    BY <1>2, <1>6, Parked
  <2>2. PICK q : chan' = [chan EXCEPT ![t.node].queue = q]
    BY ZenonT(60), <1>6
  <2>3. /\ ChansTyped'
          /\ \A m \in Node : m # t.node => chan'[m] = chan[m]
        /\ chan'[t.node].wakers = chan[t.node].wakers
    BY <1>2, <2>2 DEF WakeInv, KernelTyped, ChansTyped
  <2>4. KernelTyped'
    <3>1. TimersTyped'
      BY <1>3, <1>6 DEF WakeInv, KernelTyped, TimersTyped, Fire
    <3> QED BY <1>2, <1>4, <2>1, <2>3, <3>1 DEF WakeInv, KernelTyped, NodesTyped, NodeStates
  <2>5. FireTimers(t)' = {Fire(now + d, t)} /\ Fire(now + d, t).task = t
    BY <1>2, <1>3, <1>6 DEF FireTimers, Fire
  <2>6. Polled(t, "disk", {})
    BY ZenonT(60), <1>2, <1>3, <1>4, <1>6, <2>1, <2>3, <2>5 DEF Polled
  <2> QED BY <1>2, <2>4, <2>6, PollWakes
<1> QED BY ZenonT(60), <1>1, <1>5, <1>6

LEMMA RecoveredWakes ==
  ASSUME WakeInv, NEW t, poll_recovered(t)
  PROVE  WakeInv'
<1> DEFINE n == t.node
           rx == Task(n, t.boots, "net-rx")
           tick == Task(n, t.boots, "ticker")
<1>1. /\ t \in DOMAIN tasks /\ t \in TaskIds /\ t \in ready /\ t.node \in Node /\ t.role = "driver"
      /\ t.boots \in Nat /\ t = Task(t.node, t.boots, "driver")
      /\ node[t.node].up /\ t.boots = node[t.node].boots
      /\ FireTimers(t) = {}
  BY PolledIs DEF poll_recovered
<1>2. /\ tasks[t].waits = "open"
      /\ tasks' = [spawned({rx, tick}) EXCEPT ![t] = Waiting("chan")]
      /\ ready' = (ready \ {t}) \cup {rx, tick}
      /\ chan' = [chan EXCEPT ![n] = [queue |-> 0, wakers |-> {t}]]
      /\ node' = node /\ timers' = timers
  <2>1. {Task(n, t.boots, role) : role \in {"net-rx", "ticker"}} = {rx, tick}
    OBVIOUS
  <2> QED BY ZenonT(60), <2>1 DEF poll_recovered
<1>3. /\ rx \in TaskIds /\ rx.node = n /\ rx.boots = t.boots /\ rx.role = "net-rx"
      /\ tick \in TaskIds /\ tick.node = n /\ tick.boots = t.boots /\ tick.role = "ticker"
  BY <1>1 DEF Task, TaskIds, Roles
<1>4. rx \notin DOMAIN tasks /\ tick \notin DOMAIN tasks
  BY <1>1, <1>2, <1>3 DEF WakeInv, Stages
<1> HIDE DEF rx, tick
<1>5. /\ DOMAIN tasks' = DOMAIN tasks \cup {rx, tick}
      /\ tasks'[t] = [waits |-> "chan", fired |-> FALSE]
      /\ \A u \in {rx, tick} : tasks'[u] = [waits |-> "start", fired |-> FALSE]
      /\ \A u \in DOMAIN tasks : u # t => tasks'[u] = tasks[u]
  BY ZenonT(60), <1>1, <1>2, <1>4 DEF spawned, Waiting
<1>6. TasksTyped'
  BY ZenonT(60), <1>1, <1>2, <1>3, <1>5 DEF WakeInv, KernelTyped, TasksTyped, TaskSlots, spawned, Waiting
<1>7. /\ ChansTyped'
      /\ chan'[n] = [queue |-> 0, wakers |-> {t}]
      /\ \A m \in Node : m # n => chan'[m] = chan[m]
  BY ZenonT(60), <1>1, <1>2 DEF WakeInv, KernelTyped, ChansTyped
<1>8. KernelTyped'
  BY <1>2, <1>6, <1>7 DEF WakeInv, KernelTyped, NodesTyped, NodeStates, TimersTyped
<1>9. OneIncarnation'
  BY <1>1, <1>2, <1>3, <1>5 DEF WakeInv, OneIncarnation
<1>10. Stages'
  <2> SUFFICES ASSUME NEW u \in DOMAIN tasks'
               PROVE  /\ tasks'[u].waits \in {"open", "chan", "disk"} => u.role = "driver"
                      /\ tasks'[u].waits = "recv" => u.role = "net-rx"
                      /\ tasks'[u].waits = "sleep" => u.role = "ticker"
                      /\ u.role # "driver" /\ Task(u.node, u.boots, "driver") \in DOMAIN tasks'
                           => tasks'[Task(u.node, u.boots, "driver")].waits \in {"chan", "disk"}
    BY DEF Stages
  <2>1. /\ tasks'[u].waits \in {"open", "chan", "disk"} => u.role = "driver"
        /\ tasks'[u].waits = "recv" => u.role = "net-rx"
        /\ tasks'[u].waits = "sleep" => u.role = "ticker"
    BY <1>1, <1>5 DEF WakeInv, Stages
  <2>2. ASSUME u.role # "driver", NEW d, d = Task(u.node, u.boots, "driver"), d \in DOMAIN tasks'
        PROVE  tasks'[d].waits \in {"chan", "disk"}
    <3>1. d.role = "driver" /\ d \in DOMAIN tasks
      BY <1>3, <1>5, <2>2 DEF Task
    <3>2. CASE d = t
      BY <1>5, <3>2
    <3>3. CASE d # t
      <4>1. u \in DOMAIN tasks
        BY <1>1, <1>3, <1>5, <2>2, <3>3
      <4> QED BY <1>5, <2>2, <3>1, <3>3, <4>1 DEF WakeInv, Stages
    <3> QED BY <3>2, <3>3
  <2> QED BY <2>1, <2>2
<1>11. Wakers'
  <2>1. ASSUME NEW m \in Node, NEW u \in chan'[m].wakers
        PROVE  /\ u \in TaskIds /\ u.node = m /\ u.role = "driver" /\ u.boots <= node[m].boots
               /\ u \in DOMAIN tasks' => tasks'[u].waits = "chan" /\ u \notin ready'
    <3>1. CASE m = n
      BY <1>1, <1>2, <1>3, <1>5, <1>7, <2>1, <3>1
    <3>2. CASE m # n
      <4>1. /\ u \in TaskIds /\ u.node = m /\ u.role = "driver" /\ u.boots <= node[m].boots
            /\ u \in DOMAIN tasks => tasks[u].waits = "chan" /\ u \notin ready
        BY <1>7, <2>1, <3>2 DEF WakeInv, Wakers
      <4> QED BY ZenonT(60), <1>2, <1>3, <1>5, <3>2, <4>1
    <3> QED BY <3>1, <3>2
  <2>2. ASSUME NEW m \in Node, NEW u \in node[m].recv_waiters
        PROVE  u \in DOMAIN tasks' /\ u.node = m /\ tasks'[u].waits = "recv"
    <3>1. u \in DOMAIN tasks /\ u.node = m /\ tasks[u].waits = "recv"
      BY DEF WakeInv, Wakers
    <3> QED BY ZenonT(60), <1>2, <1>5, <3>1
  <2> QED BY ZenonT(60), <1>2, <2>1, <2>2 DEF Wakers
<1>12. Sleepers'
  <2> SUFFICES ASSUME NEW timer \in timers, timer.type = "Fire", NEW u, u = timer.task
               PROVE  /\ u \in TaskIds /\ u.boots <= node[u.node].boots
                      /\ u.boots = node[u.node].boots /\ node[u.node].up => u \in DOMAIN tasks'
                      /\ u \in DOMAIN tasks' =>
                           /\ tasks'[u].waits \in {"open", "disk", "sleep"} /\ ~ tasks'[u].fired
                           /\ u \notin ready' /\ FireTimers(u)' = {timer}
    BY ZenonT(60), <1>2 DEF Sleepers
  <2>1. /\ u \in TaskIds /\ u.boots <= node[u.node].boots
        /\ u.boots = node[u.node].boots /\ node[u.node].up => u \in DOMAIN tasks
        /\ u \in DOMAIN tasks =>
             /\ tasks[u].waits \in {"open", "disk", "sleep"} /\ ~ tasks[u].fired
             /\ u \notin ready /\ FireTimers(u) = {timer}
    BY DEF WakeInv, Sleepers
  <2>2. u # t
    BY <1>1 DEF FireTimers
  <2>3. u # rx /\ u # tick
    BY <1>1, <1>3, <1>4, <2>1
  <2>4. FireTimers(u)' = FireTimers(u)
    BY <1>2 DEF FireTimers
  <2> QED BY ZenonT(60), <1>2, <1>5, <2>1, <2>2, <2>3, <2>4
<1>13. NoLostWakeup'
  <2> SUFFICES ASSUME NEW u \in DOMAIN tasks' PROVE Attended(u)'
    BY AttendedIs
  <2>1. CASE u = t
    BY <1>2, <1>3, <1>5, <1>7, <2>1 DEF Attended
  <2>2. CASE u \in {rx, tick}
    BY <1>2, <1>5, <2>2 DEF Attended
  <2>3. CASE u \in DOMAIN tasks /\ u # t /\ u \notin {rx, tick}
    <3>1. Attended(u) /\ tasks'[u] = tasks[u] /\ (u \in ready' <=> u \in ready)
      BY ZenonT(60), <1>2, <1>5, <2>3, AttendedIs DEF WakeInv
    <3>2. u.node \in Node /\ u \in TaskIds
      BY <2>3 DEF WakeInv, KernelTyped, TasksTyped, TaskIds
    <3>3. tasks[u].waits = "chan" => u.node # n
      <4>1. ASSUME tasks[u].waits = "chan", u.node = n PROVE FALSE
        <5>1. u.role = "driver" /\ u.boots = t.boots
          BY <1>1, <2>3, <4>1 DEF WakeInv, Stages, OneIncarnation
        <5> QED BY <1>1, <2>3, <3>2, <4>1, <5>1 DEF TaskIds, Task
      <4> QED BY <4>1
    <3>4. FireTimers(u)' = FireTimers(u)
      BY <1>2 DEF FireTimers
    <3> QED BY <1>2, <1>7, <3>1, <3>2, <3>3, <3>4 DEF Attended
  <2> QED BY <1>5, <2>1, <2>2, <2>3
<1> QED BY <1>8, <1>9, <1>10, <1>11, <1>12, <1>13 DEF WakeInv

\* What happens to tasks, wakers and timers outside polls and fired timers: nodes
\* of C crash, drivers new are spawned, and receivers X are woken.
Happened(C, new, X) ==
  /\ DOMAIN tasks' = {u \in DOMAIN tasks : u.node \notin C} \cup new
  /\ \A u \in DOMAIN tasks' :
       /\ tasks'[u] = IF u \in new THEN [waits |-> "start", fired |-> FALSE] ELSE tasks[u]
       /\ u \in ready' <=> u \in new \/ u \in ready \/ u \in X
  /\ \A u \in new : /\ u \in TaskIds /\ u.role = "driver" /\ node'[u.node].up /\ ~ node[u.node].up
                    /\ u.boots = node[u.node].boots + 1
  /\ \A u \in X : \E n \in Node : u \in node[n].recv_waiters
  /\ \A n \in Node :
       /\ n \in C => ~ node'[n].up /\ node'[n].recv_waiters = {}
       /\ n \notin C /\ node[n].up => node'[n].up
       /\ node'[n].boots = IF node'[n].up /\ ~ node[n].up THEN node[n].boots + 1 ELSE node[n].boots
       /\ node'[n].recv_waiters = {} \/ node'[n].recv_waiters = node[n].recv_waiters
       /\ n \notin C => node[n].recv_waiters \ node'[n].recv_waiters \subseteq X
       /\ node'[n].mailbox = node[n].mailbox \/ node'[n].recv_waiters = {}
  /\ chan' = chan
  /\ \A timer : timer.type = "Fire" => (timer \in timers' <=> timer \in timers)

LEMMA EventWakes ==
  ASSUME WakeInv, NEW C, NEW new, NEW X, Happened(C, new, X), KernelTyped'
  PROVE  WakeInv'
<1>1. \A u \in DOMAIN tasks : /\ u.node \in Node /\ u \in TaskIds /\ node[u.node].up
                              /\ u.boots = node[u.node].boots
  BY DEF WakeInv, KernelTyped, TasksTyped, TaskIds, OneIncarnation
<1>2. \A n \in Node : node[n].boots \in Nat
  BY DEF WakeInv, KernelTyped, NodesTyped, NodeStates
<1>3. \A u \in new : /\ u \in TaskIds /\ u.node \in Node /\ u.role = "driver" /\ u \notin DOMAIN tasks
                     /\ u.boots = node[u.node].boots + 1
                     /\ ~ node[u.node].up /\ node'[u.node].up
  BY <1>1 DEF Happened, TaskIds
<1>4. \A u \in X : u \in DOMAIN tasks => tasks[u].waits = "recv"
  BY DEF Happened, WakeInv, Wakers
<1>5. \A u \in DOMAIN tasks' :
        \/ u \in new /\ tasks'[u] = [waits |-> "start", fired |-> FALSE] /\ u \in ready'
        \/ /\ u \notin new /\ u \in DOMAIN tasks /\ u.node \notin C /\ tasks'[u] = tasks[u]
           /\ u \in ready' <=> u \in ready \/ u \in X
  BY DEF Happened
<1>6. \A n \in Node : /\ node[n].up /\ node'[n].up => node'[n].boots = node[n].boots
                      /\ ~ node[n].up /\ node'[n].up => node'[n].boots = node[n].boots + 1
                      /\ node'[n].boots >= node[n].boots /\ (node'[n].up => n \notin C)
  BY <1>2 DEF Happened
<1>7. OneIncarnation'
  <2> SUFFICES ASSUME NEW u \in DOMAIN tasks'
               PROVE  node'[u.node].up /\ u.boots = node'[u.node].boots
    BY DEF OneIncarnation
  <2>1. CASE u \in new
    BY <1>3, <1>6, <2>1
  <2>2. CASE u \in DOMAIN tasks /\ u.node \notin C
    <3>1. node'[u.node].up
      BY <1>1, <2>2 DEF Happened
    <3> QED BY <1>1, <1>6, <2>2, <3>1
  <2> QED BY <1>5, <2>1, <2>2
<1>8. Stages'
  <2> SUFFICES ASSUME NEW u \in DOMAIN tasks'
               PROVE  /\ tasks'[u].waits \in {"open", "chan", "disk"} => u.role = "driver"
                      /\ tasks'[u].waits = "recv" => u.role = "net-rx"
                      /\ tasks'[u].waits = "sleep" => u.role = "ticker"
                      /\ u.role # "driver" /\ Task(u.node, u.boots, "driver") \in DOMAIN tasks'
                           => tasks'[Task(u.node, u.boots, "driver")].waits \in {"chan", "disk"}
    BY DEF Stages
  <2>1. CASE u \in new
    BY <1>3, <1>5, <2>1
  <2>2. CASE u \notin new
    <3>1. /\ u \in DOMAIN tasks /\ tasks'[u] = tasks[u]
          /\ tasks[u].waits \in {"open", "chan", "disk"} => u.role = "driver"
          /\ tasks[u].waits = "recv" => u.role = "net-rx"
          /\ tasks[u].waits = "sleep" => u.role = "ticker"
      BY <1>5, <2>2 DEF WakeInv, Stages
    <3>2. ASSUME u.role # "driver", NEW d, d = Task(u.node, u.boots, "driver"), d \in DOMAIN tasks'
          PROVE  tasks'[d].waits \in {"chan", "disk"}
      <4>1. d.node = u.node
        BY <3>2 DEF Task
      <4>2. d \notin new
        BY <1>1, <1>3, <3>1, <4>1
      <4>3. d \in DOMAIN tasks /\ tasks'[d] = tasks[d]
        BY <1>5, <3>2, <4>2
      <4> QED BY <3>1, <3>2, <4>3 DEF WakeInv, Stages
    <3> QED BY <3>1, <3>2
  <2> QED BY <2>1, <2>2
<1>9. Wakers'
  <2>1. ASSUME NEW n \in Node, NEW u \in chan'[n].wakers
        PROVE  /\ u \in TaskIds /\ u.node = n /\ u.role = "driver" /\ u.boots <= node'[n].boots
               /\ u \in DOMAIN tasks' => tasks'[u].waits = "chan" /\ u \notin ready'
    <3>1. /\ u \in TaskIds /\ u.node = n /\ u.role = "driver" /\ u.boots <= node[n].boots
          /\ u \in DOMAIN tasks => tasks[u].waits = "chan" /\ u \notin ready
      BY <2>1 DEF WakeInv, Wakers, Happened
    <3>2. u.boots \in Nat /\ node'[n].boots \in Nat
      BY <1>2, <1>6, <3>1 DEF TaskIds, KernelTyped, NodesTyped, NodeStates
    <3>3. u \notin new
      BY <1>2, <1>3, <3>1, <3>2
    <3>4. u \in DOMAIN tasks => u \notin X
      BY <1>4, <3>1
    <3> QED BY <1>2, <1>5, <1>6, <3>1, <3>2, <3>3, <3>4
  <2>2. ASSUME NEW n \in Node, NEW u \in node'[n].recv_waiters
        PROVE  u \in DOMAIN tasks' /\ u.node = n /\ tasks'[u].waits = "recv"
    <3>1. n \notin C /\ u \in node[n].recv_waiters
      BY <2>2 DEF Happened
    <3>2. u \in DOMAIN tasks /\ u.node = n /\ tasks[u].waits = "recv"
      BY <3>1 DEF WakeInv, Wakers
    <3>3. u \in DOMAIN tasks' /\ u \notin new
      BY <1>3, <3>1, <3>2 DEF Happened
    <3> QED BY ZenonT(60), <1>5, <3>2, <3>3
  <2> QED BY <2>1, <2>2 DEF Wakers
<1>10. Sleepers'
  <2> SUFFICES ASSUME NEW timer \in timers', timer.type = "Fire", NEW u, u = timer.task
               PROVE  /\ u \in TaskIds /\ u.boots <= node'[u.node].boots
                      /\ u.boots = node'[u.node].boots /\ node'[u.node].up => u \in DOMAIN tasks'
                      /\ u \in DOMAIN tasks' =>
                           /\ tasks'[u].waits \in {"open", "disk", "sleep"} /\ ~ tasks'[u].fired
                           /\ u \notin ready' /\ FireTimers(u)' = {timer}
    BY DEF Sleepers
  <2>1. /\ u \in TaskIds /\ u.boots <= node[u.node].boots
        /\ u.boots = node[u.node].boots /\ node[u.node].up => u \in DOMAIN tasks
        /\ u \in DOMAIN tasks =>
             /\ tasks[u].waits \in {"open", "disk", "sleep"} /\ ~ tasks[u].fired
             /\ u \notin ready /\ FireTimers(u) = {timer}
    BY ZenonT(60) DEF WakeInv, Sleepers, Happened
  <2>2. /\ u.node \in Node /\ u.boots \in Nat
        /\ node[u.node].boots \in Nat /\ node'[u.node].boots \in Nat
    BY <1>2, <2>1 DEF TaskIds, KernelTyped, NodesTyped, NodeStates
  <2>3. u \notin new
    BY <1>3, <2>1, <2>2
  <2>4. u \in DOMAIN tasks => u \notin X
    BY <1>4, <2>1
  <2>5. FireTimers(u)' = FireTimers(u)
    BY DEF FireTimers, Happened
  <2>6. ASSUME u.boots = node'[u.node].boots, node'[u.node].up PROVE u \in DOMAIN tasks'
    <3>1. node[u.node].up /\ u.boots = node[u.node].boots /\ u.node \notin C
      BY <1>6, <2>1, <2>2, <2>6
    <3> QED BY <2>1, <3>1 DEF Happened
  <2> QED BY <1>5, <1>6, <2>1, <2>2, <2>3, <2>4, <2>5, <2>6
<1>11. NoLostWakeup'
  <2> SUFFICES ASSUME NEW u \in DOMAIN tasks' PROVE Attended(u)'
    BY AttendedIs
  <2>1. CASE u \in new
    BY <1>5, <2>1 DEF Attended
  <2>2. CASE u \notin new
    <3>1. /\ u \in DOMAIN tasks /\ u.node \notin C /\ tasks'[u] = tasks[u] /\ Attended(u)
          /\ u \in ready' <=> u \in ready \/ u \in X
      BY <1>5, <2>2, AttendedIs DEF WakeInv
    <3>2. CASE u \in X
      BY <1>4, <3>1, <3>2 DEF Attended
    <3>3. CASE u \notin X
      <4>1. u \in node[u.node].recv_waiters /\ node[u.node].mailbox = 0
              => u \in node'[u.node].recv_waiters /\ node'[u.node].mailbox = 0
        <5>1. u.node \in Node
          BY <1>1, <3>1
        <5> QED BY <3>1, <3>3, <5>1 DEF Happened
      <4>2. FireTimers(u)' = FireTimers(u) /\ chan' = chan
        BY DEF FireTimers, Happened
      <4> QED BY <3>1, <3>3, <4>1, <4>2 DEF Attended
    <3> QED BY <3>2, <3>3
  <2> QED BY <2>1, <2>2
<1> QED BY <1>7, <1>8, <1>9, <1>10, <1>11 DEF WakeInv

LEMMA StopsWakes ==
  ASSUME WakeInv, NEW t, driver_stops(t)
  PROVE  WakeInv'
<1>1. t \in DOMAIN tasks /\ t.role = "driver" /\ FireTimers(t) = {} /\ tasks[t].waits # "recv"
  BY PolledIs DEF driver_stops
<1>2. /\ DOMAIN tasks' = DOMAIN tasks \ {t} /\ \A u \in DOMAIN tasks' : tasks'[u] = tasks[u]
      /\ ready' = ready \ {t} /\ node' = node /\ chan' = chan /\ timers' = timers
      /\ tasks' = [u \in DOMAIN tasks' |-> tasks'[u]]
  BY DEF driver_stops, Restrict
<1>3. TasksTyped'
  BY <1>2 DEF WakeInv, KernelTyped, TasksTyped, TaskSlots
<1>4. KernelTyped'
  BY <1>2, <1>3 DEF WakeInv, KernelTyped, NodesTyped, NodeStates, ChansTyped, TimersTyped
<1>5. OneIncarnation'
  BY <1>2 DEF WakeInv, OneIncarnation
<1>6. Stages'
  BY <1>2 DEF WakeInv, Stages
<1>7. Wakers'
  <2>1. ASSUME NEW n \in Node, NEW u \in chan[n].wakers
        PROVE  /\ u \in TaskIds /\ u.node = n /\ u.role = "driver" /\ u.boots <= node[n].boots
               /\ u \in DOMAIN tasks' => tasks'[u].waits = "chan" /\ u \notin ready'
    <3>1. /\ u \in TaskIds /\ u.node = n /\ u.role = "driver" /\ u.boots <= node[n].boots
          /\ u \in DOMAIN tasks => tasks[u].waits = "chan" /\ u \notin ready
      BY DEF WakeInv, Wakers
    <3> QED BY <1>2, <3>1
  <2>2. ASSUME NEW n \in Node, NEW u \in node[n].recv_waiters
        PROVE  u \in DOMAIN tasks' /\ u.node = n /\ tasks'[u].waits = "recv"
    <3>1. u \in DOMAIN tasks /\ u.node = n /\ tasks[u].waits = "recv"
      BY DEF WakeInv, Wakers
    <3> QED BY <1>1, <1>2, <3>1
  <2> QED BY <1>2, <2>1, <2>2 DEF Wakers
<1>8. Sleepers'
  <2> SUFFICES ASSUME NEW timer \in timers, timer.type = "Fire", NEW u, u = timer.task
               PROVE  /\ u \in TaskIds /\ u.boots <= node[u.node].boots
                      /\ u.boots = node[u.node].boots /\ node[u.node].up => u \in DOMAIN tasks'
                      /\ u \in DOMAIN tasks' =>
                           /\ tasks'[u].waits \in {"open", "disk", "sleep"} /\ ~ tasks'[u].fired
                           /\ u \notin ready' /\ FireTimers(u)' = {timer}
    BY <1>2 DEF Sleepers
  <2>1. u # t /\ FireTimers(u)' = FireTimers(u)
    BY <1>1, <1>2 DEF FireTimers
  <2> QED BY <1>2, <2>1 DEF WakeInv, Sleepers
<1>9. NoLostWakeup'
  <2> SUFFICES ASSUME NEW u \in DOMAIN tasks' PROVE Attended(u)'
    BY AttendedIs
  <2>1. Attended(u) /\ u # t /\ (u \in ready' <=> u \in ready) /\ tasks'[u] = tasks[u]
    BY <1>2, AttendedIs DEF WakeInv
  <2>2. FireTimers(u)' = FireTimers(u)
    BY <1>2 DEF FireTimers
  <2> QED BY <1>2, <2>1, <2>2 DEF Attended
<1> QED BY <1>4, <1>5, <1>6, <1>7, <1>8, <1>9 DEF WakeInv

LEMMA FireWakes ==
  ASSUME WakeInv, NEW timer \in timers, fire_slot(timer)
  PROVE  WakeInv'
<1>0. PICK t : t = timer.task
  OBVIOUS
<1>1. /\ timer.type = "Fire" /\ timers' = timers \ {timer}
      /\ tasks' = [u \in DOMAIN tasks |->
                     IF u = t THEN [tasks[u] EXCEPT !.fired = TRUE] ELSE tasks[u]]
      /\ ready' = (ready \cap DOMAIN tasks) \cup {t} /\ node' = node /\ chan' = chan
  BY <1>0 DEF fire_slot, alive_ready, woken
<1>2. /\ t \in TaskIds
      /\ t \in DOMAIN tasks =>
           /\ tasks[t].waits \in {"open", "disk", "sleep"} /\ FireTimers(t) = {timer}
  BY <1>0, <1>1 DEF WakeInv, Sleepers
<1>3. /\ DOMAIN tasks' = DOMAIN tasks
      /\ \A u \in DOMAIN tasks : /\ tasks'[u].waits = tasks[u].waits
                                 /\ u # t => tasks'[u] = tasks[u]
                                 /\ u = t => tasks'[u].fired
                                 /\ u \in ready' <=> u \in ready \/ u = t
  BY <1>1 DEF WakeInv, KernelTyped, TasksTyped, TaskSlots
<1>4. TasksTyped'
  BY ZenonT(60), <1>1, <1>3 DEF WakeInv, KernelTyped, TasksTyped, TaskSlots
<1>5. KernelTyped'
  BY <1>1, <1>4 DEF WakeInv, KernelTyped, NodesTyped, NodeStates, ChansTyped, TimersTyped
<1>6. OneIncarnation'
  BY <1>1, <1>3 DEF WakeInv, OneIncarnation
<1>7. Stages'
  BY <1>3 DEF WakeInv, Stages
<1>8. Wakers'
  <2>1. ASSUME NEW n \in Node, NEW u \in chan[n].wakers
        PROVE  /\ u \in TaskIds /\ u.node = n /\ u.role = "driver" /\ u.boots <= node[n].boots
               /\ u \in DOMAIN tasks => tasks'[u].waits = "chan" /\ u \notin ready'
    <3>1. /\ u \in TaskIds /\ u.node = n /\ u.role = "driver" /\ u.boots <= node[n].boots
          /\ u \in DOMAIN tasks => tasks[u].waits = "chan" /\ u \notin ready
      BY DEF WakeInv, Wakers
    <3> QED BY <1>2, <1>3, <3>1
  <2>2. ASSUME NEW n \in Node, NEW u \in node[n].recv_waiters
        PROVE  u \in DOMAIN tasks /\ u.node = n /\ tasks'[u].waits = "recv"
    <3>1. u \in DOMAIN tasks /\ u.node = n /\ tasks[u].waits = "recv"
      BY DEF WakeInv, Wakers
    <3> QED BY <1>3, <3>1
  <2> QED BY <1>1, <1>3, <2>1, <2>2 DEF Wakers
<1>9. Sleepers'
  <2> SUFFICES ASSUME NEW other \in timers', other.type = "Fire", NEW u, u = other.task
               PROVE  /\ u \in TaskIds /\ u.boots <= node[u.node].boots
                      /\ u.boots = node[u.node].boots /\ node[u.node].up => u \in DOMAIN tasks
                      /\ u \in DOMAIN tasks =>
                           /\ tasks'[u].waits \in {"open", "disk", "sleep"} /\ ~ tasks'[u].fired
                           /\ u \notin ready' /\ FireTimers(u)' = {other}
    BY <1>1, <1>3 DEF Sleepers
  <2>1. /\ other \in timers /\ other # timer
        /\ u \in TaskIds /\ u.boots <= node[u.node].boots
        /\ u.boots = node[u.node].boots /\ node[u.node].up => u \in DOMAIN tasks
        /\ u \in DOMAIN tasks =>
             /\ tasks[u].waits \in {"open", "disk", "sleep"} /\ ~ tasks[u].fired
             /\ u \notin ready /\ FireTimers(u) = {other}
    BY <1>1 DEF WakeInv, Sleepers
  <2>2. u \in DOMAIN tasks => u # t
    BY <1>2, <2>1
  <2>3. u \in DOMAIN tasks => FireTimers(u)' = {other}
    BY <1>1, <2>1 DEF FireTimers
  <2> QED BY <1>3, <2>1, <2>2, <2>3
<1>10. NoLostWakeup'
  <2> SUFFICES ASSUME NEW u \in DOMAIN tasks PROVE Attended(u)'
    BY <1>3, AttendedIs
  <2>1. CASE u = t
    BY <1>3, <2>1 DEF Attended
  <2>2. CASE u # t
    <3>1. Attended(u) /\ (u \in ready' <=> u \in ready) /\ tasks'[u] = tasks[u]
      BY <1>3, <2>2, AttendedIs DEF WakeInv
    <3>2. FireTimers(u)' = FireTimers(u)
      BY <1>0, <1>1, <2>2 DEF FireTimers
    <3> QED BY <1>1, <3>1, <3>2 DEF Attended
  <2> QED BY <2>1, <2>2
<1> QED BY <1>5, <1>6, <1>7, <1>8, <1>9, <1>10 DEF WakeInv

LEMMA DeliverWakes ==
  ASSUME WakeInv, NEW timer \in timers, deliver(timer)
  PROVE  WakeInv'
<1>0. PICK n \in Node : n = timer.to
  BY DEF deliver, WakeInv, KernelTyped, TimersTyped
<1>1. /\ timer.type = "Deliver" /\ timers' = timers \ {timer} /\ tasks' = tasks /\ chan' = chan
      /\ \/ /\ node[n].up
            /\ node' = [node EXCEPT ![n].mailbox = @ + 1, ![n].recv_waiters = {}]
            /\ ready' = (ready \cap DOMAIN tasks) \cup node[n].recv_waiters
         \/ node' = node /\ ready' = (ready \cap DOMAIN tasks)
  BY <1>0 DEF deliver, alive_ready, woken
<1>2. KernelTyped'
  <2>1. TimersTyped' /\ TasksTyped' /\ ChansTyped'
    BY <1>1 DEF WakeInv, KernelTyped, TasksTyped, ChansTyped, TimersTyped
  <2>2. NodesTyped'
    BY <1>1 DEF WakeInv, KernelTyped, NodesTyped, NodeStates
  <2> QED BY <2>1, <2>2 DEF KernelTyped
<1>3. CASE node' = node /\ ready' = (ready \cap DOMAIN tasks)
  <2>1. Happened({}, {}, {})
    BY <1>1, <1>3 DEF Happened
  <2> QED BY <1>2, <2>1, EventWakes
<1>4. CASE /\ node[n].up
           /\ node' = [node EXCEPT ![n].mailbox = @ + 1, ![n].recv_waiters = {}]
           /\ ready' = (ready \cap DOMAIN tasks) \cup node[n].recv_waiters
  <2>1. /\ \A m \in Node : m # n => node'[m] = node[m]
        /\ node'[n].up = node[n].up /\ node'[n].boots = node[n].boots
        /\ node'[n].recv_waiters = {}
    BY ZenonT(60), <1>4 DEF WakeInv, KernelTyped, NodesTyped, NodeStates
  <2>2. \A u \in DOMAIN tasks : u \in ready' <=> u \in ready \/ u \in node[n].recv_waiters
    BY <1>4
  <2>3. Happened({}, {}, node[n].recv_waiters)
    BY <1>1, <2>1, <2>2 DEF Happened
  <2> QED BY <1>2, <2>3, EventWakes
<1> QED BY <1>1, <1>3, <1>4

LEMMA SpawnIs ==
  ASSUME NodesTyped, NEW ns \in SUBSET Node, NEW u \in spawn(ns)
  PROVE  /\ u \in TaskIds /\ u.role = "driver" /\ u.node \in ns /\ ~ node[u.node].up
         /\ u.boots = node[u.node].boots + 1
<1>1. PICK n \in {m \in ns : ~ node[m].up} : u = Task(n, node[n].boots + 1, "driver")
  BY DEF spawn
<1>2. node[n].boots + 1 \in Nat /\ n \in Node
  BY <1>1 DEF NodesTyped, NodeStates
<1> QED BY <1>1, <1>2 DEF Task, TaskIds, Roles

LEMMA SpawnedIs ==
  ASSUME TasksTyped, NEW new \in SUBSET TaskIds, tasks' = spawned(new)
  PROVE  /\ DOMAIN tasks' = DOMAIN tasks \cup new
         /\ \A u \in DOMAIN tasks' :
              tasks'[u] = IF u \in new THEN [waits |-> "start", fired |-> FALSE] ELSE tasks[u]
         /\ TasksTyped'
<1>1. /\ DOMAIN tasks' = DOMAIN tasks \cup new
      /\ \A u \in DOMAIN tasks' :
           tasks'[u] = IF u \in new THEN [waits |-> "start", fired |-> FALSE] ELSE tasks[u]
      /\ tasks' = [u \in DOMAIN tasks' |-> tasks'[u]]
  BY DEF spawned, Waiting
<1>2. \A u \in DOMAIN tasks' :
        tasks'[u] \in TaskSlots
  <2>1. [waits |-> "start", fired |-> FALSE] \in TaskSlots
    BY DEF TaskSlots
  <2> QED BY <1>1, <2>1 DEF TasksTyped
<1>3. TasksTyped'
  BY <1>1, <1>2 DEF TasksTyped
<1> QED BY <1>1, <1>3

LEMMA RestartWakes ==
  ASSUME WakeInv, NEW timer \in timers, restart(timer)
  PROVE  WakeInv'
<1>0. PICK n \in Node : n = timer.node
  BY DEF restart, WakeInv, KernelTyped, TimersTyped
<1>1. /\ timer.type = "Restart" /\ timers' = timers \ {timer} /\ chan' = chan
      /\ node' = booted(node, {n}) /\ tasks' = spawned(spawn({n}))
      /\ ready' = (ready \cap DOMAIN tasks) \cup spawn({n})
  BY <1>0 DEF restart, alive_ready
<1> DEFINE new == spawn({n})
<1>2. /\ NodesTyped'
      /\ \A m \in Node :
           /\ node'[m].up <=> node[m].up \/ m = n
           /\ node'[m].boots = IF node'[m].up /\ ~ node[m].up THEN node[m].boots + 1 ELSE node[m].boots
           /\ node'[m].mailbox = node[m].mailbox /\ node'[m].recv_waiters = node[m].recv_waiters
      /\ \A u \in new : /\ u \in TaskIds /\ u.role = "driver" /\ u.node = n /\ ~ node[u.node].up
                        /\ u.boots = node[u.node].boots + 1
  <2>1. NodesTyped /\ {n} \in SUBSET Node
    BY ZenonT(60) DEF WakeInv, KernelTyped
  <2>3. /\ NodesTyped'
        /\ \A m \in Node :
             /\ node'[m].up <=> node[m].up \/ m = n
             /\ node'[m].boots = IF node'[m].up /\ ~ node[m].up THEN node[m].boots + 1 ELSE node[m].boots
             /\ node'[m].mailbox = node[m].mailbox /\ node'[m].recv_waiters = node[m].recv_waiters
    BY ZenonT(60), <1>1, <2>1, RestartNodes
  <2>4. \A u \in new : /\ u \in TaskIds /\ u.role = "driver" /\ u.node \in {n}
                       /\ ~ node[u.node].up /\ u.boots = node[u.node].boots + 1
    BY ZenonT(60), <2>1, SpawnIs
  <2> HIDE DEF new
  <2> QED BY ZenonT(60), <2>3, <2>4
<1> HIDE DEF new
<1>3. /\ DOMAIN tasks' = DOMAIN tasks \cup new
      /\ \A u \in DOMAIN tasks' :
           tasks'[u] = IF u \in new THEN [waits |-> "start", fired |-> FALSE] ELSE tasks[u]
      /\ TasksTyped'
  <2>1. tasks' = spawned(new) /\ new \in SUBSET TaskIds /\ DOMAIN tasks \subseteq TaskIds
    BY ZenonT(60), <1>1, <1>2 DEF new, WakeInv, KernelTyped, TasksTyped
  <2> QED BY ZenonT(60), <2>1, SpawnedIs DEF WakeInv, KernelTyped
<1>4. KernelTyped'
  BY <1>1, <1>2, <1>3 DEF WakeInv, KernelTyped, ChansTyped, TimersTyped
<1>5. \A u \in DOMAIN tasks' : u \in ready' <=> u \in new \/ u \in ready
  BY ZenonT(60), <1>1, <1>3 DEF new
<1>6. Happened({}, new, {})
  BY ZenonT(60), <1>1, <1>2, <1>3, <1>5 DEF Happened
<1> QED BY <1>4, <1>6, EventWakes

LEMMA RecoverWakes ==
  ASSUME WakeInv, recover
  PROVE  WakeInv'
<1> DEFINE new == spawn(Node)
           X == UNION {node[n].recv_waiters : n \in {m \in Node : node[m].paused}}
<1>1. /\ node' = booted(resumed(node), Node) /\ tasks' = spawned(new) /\ ready' = ready \cup new \cup X
      /\ timers' = timers /\ chan' = chan
  BY DEF recover, woken
<1>3. /\ NodesTyped'
      /\ \A n \in Node :
           /\ node'[n].up
           /\ node'[n].boots = IF node'[n].up /\ ~ node[n].up THEN node[n].boots + 1 ELSE node[n].boots
           /\ node'[n].mailbox = node[n].mailbox
           /\ node'[n].recv_waiters = IF node[n].paused THEN {} ELSE node[n].recv_waiters
      /\ \A u \in new : /\ u \in TaskIds /\ u.role = "driver" /\ u.node \in Node
                        /\ ~ node[u.node].up /\ u.boots = node[u.node].boots + 1
  <2>1. NodesTyped /\ Node \in SUBSET Node
    BY ZenonT(60) DEF WakeInv, KernelTyped
  <2>2. /\ NodesTyped'
        /\ \A n \in Node :
             /\ node'[n].up
             /\ node'[n].boots = IF node'[n].up /\ ~ node[n].up THEN node[n].boots + 1 ELSE node[n].boots
             /\ node'[n].mailbox = node[n].mailbox
             /\ node'[n].recv_waiters = IF node[n].paused THEN {} ELSE node[n].recv_waiters
    BY ZenonT(60), <1>1, <2>1, RecoverNodes
  <2>3. \A u \in new : /\ u \in TaskIds /\ u.role = "driver" /\ u.node \in Node
                       /\ ~ node[u.node].up /\ u.boots = node[u.node].boots + 1
    BY ZenonT(60), <2>1, SpawnIs
  <2> HIDE DEF new
  <2> QED BY ZenonT(60), <2>2, <2>3
<1>4. /\ \A u \in X : \E n \in Node : u \in node[n].recv_waiters
      /\ \A n \in Node : node[n].paused => node[n].recv_waiters \subseteq X
  OBVIOUS
<1> HIDE DEF new, X
<1>5. /\ DOMAIN tasks' = DOMAIN tasks \cup new
      /\ \A u \in DOMAIN tasks' :
           tasks'[u] = IF u \in new THEN [waits |-> "start", fired |-> FALSE] ELSE tasks[u]
      /\ TasksTyped'
  <2>1. new \in SUBSET TaskIds /\ DOMAIN tasks \subseteq TaskIds
    BY <1>3 DEF WakeInv, KernelTyped, TasksTyped
  <2> QED BY ZenonT(60), <1>1, <2>1, SpawnedIs DEF WakeInv, KernelTyped
<1>6. KernelTyped'
  BY <1>1, <1>3, <1>5 DEF WakeInv, KernelTyped, ChansTyped, TimersTyped
<1>7. Happened({}, new, X)
  BY <1>1, <1>3, <1>4, <1>5 DEF Happened
<1> QED BY <1>6, <1>7, EventWakes

\* A step that touches neither tasks nor wakers.
LEMMA QuietWakes ==
  ASSUME WakeInv, NodesTyped', TimersTyped', tasks' = tasks, chan' = chan,
         \A u \in DOMAIN tasks : u \in ready' <=> u \in ready,
         \A n \in Node : /\ node'[n].up = node[n].up /\ node'[n].boots = node[n].boots
                         /\ node'[n].mailbox = node[n].mailbox
                         /\ node'[n].recv_waiters = node[n].recv_waiters,
         \A timer : timer.type = "Fire" => (timer \in timers' <=> timer \in timers)
  PROVE  WakeInv'
<1>1. KernelTyped'
  BY DEF WakeInv, KernelTyped, TasksTyped, ChansTyped
<1>2. Happened({}, {}, {})
  BY ZenonT(60) DEF Happened
<1> QED BY <1>1, <1>2, EventWakes

LEMMA DownState ==
  ASSUME NEW boots \in Nat
  PROVE  [up |-> FALSE, paused |-> FALSE, boots |-> boots, mailbox |-> 0, recv_waiters |-> {}]
           \in NodeStates
  BY DEF NodeStates

LEMMA StruckNode ==
  ASSUME NodesTyped, NEW n \in Node, NEW crash, NEW pause,
         node'[n] = IF n \in crash
                    THEN [node[n] EXCEPT !.up = FALSE, !.paused = FALSE,
                                         !.mailbox = 0, !.recv_waiters = {}]
                    ELSE [node[n] EXCEPT !.paused = @ \/ n \in pause]
  PROVE  /\ node'[n] \in NodeStates
         /\ node'[n].up <=> node[n].up /\ n \notin crash
         /\ node'[n].boots = node[n].boots
         /\ node'[n].paused <=> n \notin crash /\ (node[n].paused \/ n \in pause)
         /\ n \in crash => node'[n].recv_waiters = {}
         /\ n \notin crash => /\ node'[n].recv_waiters = node[n].recv_waiters
                              /\ node'[n].mailbox = node[n].mailbox
<1>1. node[n] \in NodeStates
  BY DEF NodesTyped
<1>2. CASE n \in crash
  <2>1. node'[n] = [up |-> FALSE, paused |-> FALSE, boots |-> node[n].boots, mailbox |-> 0,
                    recv_waiters |-> {}]
    BY ZenonT(60), <1>1, <1>2 DEF NodeStates
  <2>2. node'[n] \in NodeStates
    <3>1. node[n].boots \in Nat
      BY <1>1 DEF NodeStates
    <3> QED BY <2>1, <3>1, DownState
  <2>3. /\ node'[n].up = FALSE /\ node'[n].paused = FALSE /\ node'[n].boots = node[n].boots
        /\ node'[n].recv_waiters = {}
    BY <2>1
  <2> QED BY <1>2, <2>2, <2>3
<1>3. CASE n \notin crash
  <2>1. node'[n] = [up |-> node[n].up, paused |-> (node[n].paused \/ n \in pause),
                    boots |-> node[n].boots, mailbox |-> node[n].mailbox,
                    recv_waiters |-> node[n].recv_waiters]
    BY <1>1, <1>3 DEF NodeStates
  <2> QED BY ZenonT(60), <1>1, <1>3, <2>1 DEF NodeStates
<1> QED BY <1>2, <1>3

LEMMA ChaosWakes ==
  ASSUME WakeInv, NEW timer \in timers, chaos(timer)
  PROVE  WakeInv'
<1>1. PICK cut \in AtMostOne(Cuts), pause \in SUBSET {n \in Node : node[n].up /\ ~ node[n].paused},
           crash \in SUBSET {n \in Node : node[n].up}, lasts \in Lasting :
        strike(timer, cut, pause, crash, lasts)
  BY ChaosIs
<1>2. crash \subseteq Node /\ pause \subseteq Node
  OBVIOUS
<1>3. \A n \in Node :
         /\ node'[n] \in NodeStates
         /\ node'[n].up <=> node[n].up /\ n \notin crash
         /\ node'[n].boots = node[n].boots
         /\ n \in crash => node'[n].recv_waiters = {}
         /\ n \notin crash => /\ node'[n].recv_waiters = node[n].recv_waiters
                              /\ node'[n].mailbox = node[n].mailbox
  <2>1. NodesTyped
    BY DEF WakeInv, KernelTyped
  <2> QED BY ZenonT(60), <1>1, <2>1, StruckNode DEF strike
<1>4. NodesTyped'
  <2>1. node' = [n \in Node |-> node'[n]]
    BY ZenonT(60), <1>1 DEF strike
  <2> QED BY ZenonT(60), <1>3, <2>1 DEF NodesTyped
<1>5. /\ timer.type = "ChaosTick" /\ chan' = chan
      /\ \A other \in timers' :
           \/ other \in timers /\ other # timer
           \/ other.type \in {"ChaosTick", "Heal"}
           \/ other.type \in {"Resume", "Restart"} /\ other.node \in Node
      /\ \A other \in timers : other # timer => other \in timers'
  <2>1. ASSUME NEW other \in timers'
        PROVE  \/ other \in timers /\ other # timer
               \/ other.type \in {"ChaosTick", "Heal"}
               \/ other.type \in {"Resume", "Restart"} /\ other.node \in Node
    <3>1. CASE other = ChaosTick(timer.at + 1)
      BY <3>1 DEF ChaosTick
    <3>2. CASE other \in {Heal(timer.at + lasts.cut, c, used.faults) : c \in cut}
      BY <3>2 DEF Heal
    <3>3. CASE other \in {Resume(timer.at + lasts.pause, n) : n \in pause}
      BY <1>2, <3>3 DEF Resume
    <3>4. CASE other \in {Restart(timer.at + lasts.crash, n) : n \in crash}
      BY <1>2, <3>4 DEF Restart
    <3> QED BY ZenonT(60), <1>1, <3>1, <3>2, <3>3, <3>4 DEF strike
  <2>2. \A other \in timers : other # timer => other \in timers'
    BY ZenonT(60), <1>1 DEF strike
  <2> QED BY ZenonT(60), <2>1, <2>2, ChaosIs
<1>6. TimersTyped'
  BY ZenonT(60), <1>5 DEF WakeInv, KernelTyped, TimersTyped
<1>7. /\ DOMAIN tasks' = {u \in DOMAIN tasks : u.node \notin crash}
      /\ \A u \in DOMAIN tasks' : tasks'[u] = tasks[u] /\ (u \in ready' <=> u \in ready)
      /\ tasks' = [u \in DOMAIN tasks' |-> tasks'[u]]
  BY ZenonT(60), <1>1 DEF strike, reaped, Restrict, alive_ready
<1>8. TasksTyped'
  BY <1>7 DEF WakeInv, KernelTyped, TasksTyped
<1>9. KernelTyped'
  BY <1>4, <1>5, <1>6, <1>8 DEF WakeInv, KernelTyped, ChansTyped
<1>10. Happened(crash, {}, {})
  <2>1. \A other : other.type = "Fire" => (other \in timers' <=> other \in timers)
    BY <1>5
  <2> QED BY <1>3, <1>5, <1>7, <2>1 DEF Happened
<1> QED BY <1>9, <1>10, EventWakes

LEMMA WakeInit == Init => WakeInv
<1> SUFFICES ASSUME Init PROVE WakeInv
  OBVIOUS
<1>1. /\ node = [n \in Node |-> [up |-> TRUE, paused |-> FALSE, boots |-> 1,
                                 mailbox |-> 0, recv_waiters |-> {}]]
      /\ tasks = [t \in {Task(n, 1, "driver") : n \in Node} |-> Waiting("start")]
      /\ ready = DOMAIN tasks /\ timers = {ChaosTick(1)}
      /\ chan = [n \in Node |-> [queue |-> 0, wakers |-> {}]]
  BY DEF Init
<1>2. \A t \in DOMAIN tasks : /\ t \in TaskIds /\ t.role = "driver" /\ t.boots = 1 /\ t.node \in Node
                              /\ tasks[t] = [waits |-> "start", fired |-> FALSE] /\ t \in ready
  BY <1>1 DEF Task, TaskIds, Roles, Waiting
<1>3. \A timer \in timers : timer.type = "ChaosTick"
  BY <1>1 DEF ChaosTick
<1>4. NodesTyped /\ ChansTyped /\ TimersTyped
  BY <1>1, <1>3 DEF NodesTyped, NodeStates, ChansTyped, TimersTyped
<1>5. TasksTyped
  BY ZenonT(60), <1>1, <1>2 DEF TasksTyped, TaskSlots, Waiting
<1>6. OneIncarnation /\ Stages
  <2>1. OneIncarnation
    BY ZenonT(60), <1>1, <1>2 DEF OneIncarnation
  <2>2. Stages
    BY <1>2 DEF Stages
  <2> QED BY <2>1, <2>2
<1>7. Wakers /\ Sleepers
  BY ZenonT(60), <1>1, <1>3 DEF Wakers, Sleepers
<1>8. NoLostWakeup
  BY <1>2 DEF NoLostWakeup
<1> QED BY <1>4, <1>5, <1>6, <1>7, <1>8 DEF WakeInv, KernelTyped

LEMMA WakeStep == WakeInv /\ [Next]_vars => WakeInv'
<1> SUFFICES ASSUME WakeInv, [Next]_vars PROVE WakeInv'
  OBVIOUS
<1>1. ASSUME NEW t \in ready, poll_net_rx(t) PROVE WakeInv'
  BY <1>1, NetRxWakes
<1>2. ASSUME NEW t \in ready, poll_ticker(t) PROVE WakeInv'
  BY <1>2, TickerWakes
<1>3. ASSUME NEW t \in ready, poll_open(t) PROVE WakeInv'
  BY <1>3, OpenWakes
<1>4. ASSUME NEW t \in ready, poll_recovered(t) PROVE WakeInv'
  BY <1>4, RecoveredWakes
<1>5. ASSUME NEW t \in ready, poll_driver(t) PROVE WakeInv'
  BY <1>5, DriverWakes
<1>6. ASSUME NEW t \in ready, driver_stops(t) PROVE WakeInv'
  BY <1>6, StopsWakes
<1>7. ASSUME NEW timer \in timers, fire_slot(timer) PROVE WakeInv'
  BY <1>7, FireWakes
<1>8. ASSUME NEW timer \in timers, deliver(timer) PROVE WakeInv'
  BY <1>8, DeliverWakes
<1>9. ASSUME NEW timer \in timers, restart(timer) PROVE WakeInv'
  BY <1>9, RestartWakes
<1>10. ASSUME NEW timer \in timers, heal(timer) PROVE WakeInv'
  <2>1. NodesTyped' /\ TimersTyped'
    BY <1>10 DEF heal, WakeInv, KernelTyped, NodesTyped, TimersTyped
  <2> QED BY <1>10, <2>1, QuietWakes DEF heal, alive_ready
<1>11. ASSUME NEW timer \in timers, resume(timer) PROVE WakeInv'
  <2>1. PICK n \in Node : node' = [node EXCEPT ![n].paused = FALSE]
    BY ZenonT(60), <1>11 DEF resume, WakeInv, KernelTyped, TimersTyped
  <2>2. /\ NodesTyped'
        /\ \A m \in Node : /\ node'[m].up = node[m].up /\ node'[m].boots = node[m].boots
                           /\ node'[m].mailbox = node[m].mailbox
                           /\ node'[m].recv_waiters = node[m].recv_waiters
    BY ZenonT(60), <2>1 DEF WakeInv, KernelTyped, NodesTyped, NodeStates
  <2>3. TimersTyped'
    BY <1>11 DEF resume, WakeInv, KernelTyped, TimersTyped
  <2> QED BY <1>11, <2>2, <2>3, QuietWakes DEF resume, alive_ready
<1>12. ASSUME NEW timer \in timers, chaos(timer) PROVE WakeInv'
  BY <1>12, ChaosWakes
<1>13. CASE return
  <2>1. NodesTyped' /\ TimersTyped'
    BY <1>13 DEF return, WakeInv, KernelTyped, NodesTyped, TimersTyped
  <2> QED BY <1>13, <2>1, QuietWakes DEF return, alive_ready
<1>14. CASE slice \/ finish \/ UNCHANGED vars
  <2>1. UNCHANGED <<node, timers, tasks, chan, ready>>
    BY <1>14 DEF slice, finish, vars
  <2>2. NodesTyped' /\ TimersTyped'
    BY <2>1 DEF WakeInv, KernelTyped, NodesTyped, TimersTyped
  <2> QED BY <2>1, <2>2, QuietWakes
<1>15. CASE recover
  BY <1>15, RecoverWakes
<1> QED
  BY <1>1, <1>2, <1>3, <1>4, <1>5, <1>6, <1>7, <1>8, <1>9, <1>10, <1>11, <1>12, <1>13,
     <1>14, <1>15 DEF Next

\* Every behaviour keeps the wakeup invariant, and what it says.
LEMMA WakeupsKept == Spec => [](NoLostWakeup /\ OneIncarnation)
<1>1. WakeInv => NoLostWakeup /\ OneIncarnation
  BY DEF WakeInv
<1> QED BY <1>1, WakeInit, WakeStep, PTL DEF Spec

\* Whatever the latencies, faults and restarts, no task sleeps through what it
\* waits for (chrono-sim/src/kernel.rs).
THEOREM WakeupsNeverLost == Spec => []NoLostWakeup
  BY WakeupsKept, PTL

\* Whatever the crashes and restarts, no node runs tasks of two boots
\* (chrono-sim/src/kernel.rs, crash and boot).
THEOREM IncarnationsDisjoint == Spec => []OneIncarnation
  BY WakeupsKept, PTL

-----------------------------------------------------------------------------
(* The kernel: faults and their ends *)

\* Every behaviour keeps the fault invariant, and what it says.
LEMMA FaultsMended == Spec => [](FaultsEnd /\ RecoveryIsCalm)
<1>1. Init => WakeInv /\ FaultInv
  BY WakeInit, FaultInit
<1>2. WakeInv /\ FaultInv /\ [Next]_vars => WakeInv' /\ FaultInv'
  BY WakeStep, FaultStep DEF WakeInv, KernelTyped
<1>3. FaultInv => FaultsEnd /\ RecoveryIsCalm
  BY DEF FaultInv
<1> QED BY <1>1, <1>2, <1>3, PTL DEF Spec

\* Every fault ends: a partition, a freeze or a crash keeps its Heal, Resume or
\* Restart in the heap for as long as it lasts, for any number of nodes, any
\* bound on the faults and any lengths of the spells (chrono-sim/src/kernel.rs).
THEOREM FaultsAlwaysEnd == Spec => []FaultsEnd
  BY FaultsMended, PTL

\* Nothing that a fault left in the heap disturbs the recovery phase
\* (chrono-sim/src/kernel.rs, recover).
THEOREM RecoveryStaysCalm == Spec => []RecoveryIsCalm
  BY FaultsMended, PTL
=============================================================================
