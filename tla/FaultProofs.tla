----------------------------- MODULE FaultProofs -----------------------------
(***************************************************************************)
(* Every step of the simulator's kernel keeps the end of each fault that it *)
(* has begun (FaultInv), on well-formed nodes and timers.                   *)
(***************************************************************************)
EXTENDS Kernel, FiniteSetTheorems, TLAPS

-----------------------------------------------------------------------------
(* What the operations do *)

\* Packets are no one's timers.
LEMMA SentIs ==
  ASSUME NEW from, NEW out \in Sent(from)
  PROVE  \A timer \in out : timer.type = "Deliver" /\ timer.to \in Node
<1>1. \A n \in reachable(from) : \A d, copy :
        packet(n, d, copy).type = "Deliver" /\ packet(n, d, copy).to \in Node
  BY DEF packet, Deliver, reachable
<1>2. CASE out \in once(from)
  <2>1. PICK n \in reachable(from), d \in Delays : out = {packet(n, d, 1)}
    BY <1>2 DEF once
  <2> QED BY <1>1, <2>1
<1>3. CASE out \in twice(from)
  <2>1. PICK n \in reachable(from), d \in Delays, e \in Delays :
          out = {packet(n, d, 1), packet(n, e, 2)}
    BY <1>3 DEF twice
  <2> QED BY <1>1, <2>1
<1> QED BY <1>2, <1>3 DEF Sent

\* What boot_node does to one node.
LEMMA BootedState ==
  ASSUME NEW r \in NodeStates, NEW q,
         q = [r EXCEPT !.up = TRUE, !.paused = FALSE, !.boots = @ + 1]
  PROVE  /\ q \in NodeStates /\ q.up = TRUE /\ q.paused = FALSE /\ q.boots = r.boots + 1
         /\ q.mailbox = r.mailbox /\ q.recv_waiters = r.recv_waiters
<1>1. q = [up |-> TRUE, paused |-> FALSE, boots |-> r.boots + 1, mailbox |-> r.mailbox,
           recv_waiters |-> r.recv_waiters]
  BY ZenonT(60) DEF NodeStates
<1>2. r.boots + 1 \in Nat /\ r.mailbox \in Nat /\ r.recv_waiters \in SUBSET TaskIds
  BY DEF NodeStates
<1> QED BY ZenonT(60), <1>1, <1>2 DEF NodeStates

\* What boot_node does to the nodes, and which drivers it spawns.
LEMMA BootedIs ==
  ASSUME NodesTyped, NEW ns \in SUBSET Node, NEW nodes, NEW b, b = booted(nodes, ns),
         \A n \in Node :
           /\ nodes[n] \in NodeStates
           /\ nodes[n].up = node[n].up /\ nodes[n].boots = node[n].boots
  PROVE  /\ b \in [Node -> NodeStates]
         /\ \A n \in Node :
              /\ b[n].up <=> node[n].up \/ n \in ns
              /\ b[n].boots = IF b[n].up /\ ~ node[n].up THEN node[n].boots + 1 ELSE node[n].boots
              /\ b[n].paused <=> nodes[n].paused /\ (node[n].up \/ n \notin ns)
              /\ b[n].mailbox = nodes[n].mailbox
              /\ b[n].recv_waiters = nodes[n].recv_waiters
<1>1. ASSUME NEW n \in Node
      PROVE  /\ b[n] \in NodeStates
             /\ b[n].up <=> node[n].up \/ n \in ns
             /\ b[n].boots = IF b[n].up /\ ~ node[n].up THEN node[n].boots + 1 ELSE node[n].boots
             /\ b[n].paused <=> nodes[n].paused /\ (node[n].up \/ n \notin ns)
             /\ b[n].mailbox = nodes[n].mailbox
             /\ b[n].recv_waiters = nodes[n].recv_waiters
  <2>1. CASE n \in ns /\ ~ nodes[n].up
    <3>1. b[n] = [nodes[n] EXCEPT !.up = TRUE, !.paused = FALSE, !.boots = @ + 1]
      BY ZenonT(60), <2>1 DEF booted
    <3>2. /\ nodes[n] \in NodeStates /\ nodes[n].boots = node[n].boots
          /\ b[n].up = TRUE /\ b[n].paused = FALSE /\ b[n].boots = nodes[n].boots + 1
          /\ b[n].mailbox = nodes[n].mailbox /\ b[n].recv_waiters = nodes[n].recv_waiters
          /\ b[n] \in NodeStates
      <4>1. nodes[n] \in NodeStates /\ nodes[n].boots = node[n].boots
        OBVIOUS
      <4> HIDE <3>1
      <4> QED BY ZenonT(60), <3>1, <4>1, BootedState
    <3>3. ~ node[n].up
      BY <2>1
    <3> QED BY ZenonT(60), <2>1, <3>2, <3>3
  <2>2. CASE ~ (n \in ns /\ ~ nodes[n].up)
    <3>1. b[n] = nodes[n]
      BY ZenonT(60), <2>2 DEF booted
    <3> QED BY ZenonT(60), <2>2, <3>1
  <2> QED BY <2>1, <2>2
<1>2. b = [n \in Node |-> b[n]]
  BY ZenonT(60) DEF booted
<1> QED BY <1>1, <1>2

\* What a restart and the recovery do to the nodes.
LEMMA RestartNodes ==
  ASSUME NodesTyped, NEW n \in Node, node' = booted(node, {n})
  PROVE  /\ NodesTyped'
         /\ \A m \in Node :
              /\ node'[m].up <=> node[m].up \/ m = n
              /\ node'[m].boots = IF node'[m].up /\ ~ node[m].up THEN node[m].boots + 1 ELSE node[m].boots
              /\ node'[m].mailbox = node[m].mailbox /\ node'[m].recv_waiters = node[m].recv_waiters
<1>1. \A m \in Node : node[m] \in NodeStates
  BY DEF NodesTyped
<1>2. {n} \in SUBSET Node
  OBVIOUS
<1> QED BY <1>1, <1>2, BootedIs DEF NodesTyped

LEMMA RecoverNodes ==
  ASSUME NodesTyped, node' = booted(resumed(node), Node)
  PROVE  /\ NodesTyped'
         /\ \A n \in Node :
              /\ node'[n].up
              /\ node'[n].boots = IF node'[n].up /\ ~ node[n].up THEN node[n].boots + 1 ELSE node[n].boots
              /\ node'[n].mailbox = node[n].mailbox
              /\ node'[n].recv_waiters = IF node[n].paused THEN {} ELSE node[n].recv_waiters
<1>1. \A n \in Node :
        /\ resumed(node)[n] \in NodeStates
        /\ resumed(node)[n].up = node[n].up /\ resumed(node)[n].boots = node[n].boots
        /\ resumed(node)[n].mailbox = node[n].mailbox
        /\ resumed(node)[n].recv_waiters = IF node[n].paused THEN {} ELSE node[n].recv_waiters
  BY ZenonT(60) DEF NodesTyped, NodeStates, resumed
<1>2. Node \in SUBSET Node
  OBVIOUS
<1>3. /\ node' \in [Node -> NodeStates]
      /\ \A n \in Node :
           /\ node'[n].up <=> node[n].up \/ n \in Node
           /\ node'[n].boots = IF node'[n].up /\ ~ node[n].up THEN node[n].boots + 1 ELSE node[n].boots
           /\ node'[n].mailbox = resumed(node)[n].mailbox
           /\ node'[n].recv_waiters = resumed(node)[n].recv_waiters
  BY <1>1, <1>2, BootedIs
<1> QED BY <1>1, <1>3 DEF NodesTyped

LEMMA ChaosIs ==
  ASSUME NEW timer, chaos(timer)
  PROVE  /\ timer.type = "ChaosTick" /\ chan' = chan /\ chaos_on' = chaos_on /\ phase' = phase
         /\ \E cut \in AtMostOne(Cuts), pause \in SUBSET {n \in Node : node[n].up /\ ~ node[n].paused},
               crash \in SUBSET {n \in Node : node[n].up}, lasts \in Lasting :
              /\ pause \in AtMostOne(Node) /\ crash \in AtMostOne(Node)
              /\ strike(timer, cut, pause, crash, lasts)
<1> DEFINE up == {n \in Node : node[n].up}
<1>1. \A S \in SUBSET Node : \A x \in AtMostOne(S) : x \in SUBSET S /\ x \in AtMostOne(Node)
  BY DEF AtMostOne
<1>2. up \in SUBSET Node /\ {n \in up : ~ node[n].paused} \in SUBSET Node
  OBVIOUS
<1>3. /\ timer.type = "ChaosTick" /\ chan' = chan /\ chaos_on' = chaos_on /\ phase' = phase
      /\ \E cut \in AtMostOne(Cuts), pause \in AtMostOne({n \in up : ~ node[n].paused}),
            crash \in AtMostOne(up), lasts \in Lasting :
           strike(timer, cut, pause, crash, lasts)
  BY ZenonT(60) DEF chaos, Pop
<1> QED BY <1>1, <1>2, <1>3

-----------------------------------------------------------------------------
(* Faults and their ends *)

FaultEnds == {"Heal", "Resume", "Restart"}

Heals(l) == {timer \in timers : timer.type = "Heal" /\ l \in timer.links}

TimersKept ==
  /\ IsFiniteSet(timers')
  /\ \A timer : timer.type \in FaultEnds => (timer \in timers' <=> timer \in timers)

\* A step that neither begins nor ends a fault.
LEMMA FaultsKept ==
  ASSUME FaultInv, TimersKept,
         used'.faults \in Nat, used'.faults >= used.faults,
         used' = [sends |-> used'.sends, faults |-> used'.faults],
         \A n \in Node : node'[n].up = node[n].up /\ node'[n].paused = node[n].paused,
         blocked' = blocked, chaos_on' = chaos_on,
         phase' = phase \/ (phase # "run" /\ phase' # "run")
  PROVE  FaultInv'
<1>1. \A timer \in timers' : timer.type = "Heal" => timer.id \in Nat /\ timer.id < used'.faults
  BY DEF FaultInv, FaultEnds, TimersKept
<1>2. \A l \in Links : Heals(l)' = Heals(l)
  BY DEF Heals, FaultEnds, TimersKept
<1>3. FaultsEnd'
  <2>1. ASSUME phase' = "run", NEW l \in Links
        PROVE  blocked'[l] = Cardinality({timer \in timers' : timer.type = "Heal" /\ l \in timer.links})
    <3>1. phase = "run" /\ blocked[l] = Cardinality(Heals(l))
      BY <2>1 DEF FaultInv, FaultsEnd, Heals
    <3> QED BY ZenonT(60), <1>2, <3>1 DEF Heals
  <2>2. ASSUME phase' = "run", NEW n \in Node
        PROVE  /\ node'[n].paused => \E timer \in timers' : timer.type = "Resume" /\ timer.node = n
               /\ ~ node'[n].up => \E timer \in timers' : timer.type = "Restart" /\ timer.node = n
    BY <2>2 DEF FaultInv, FaultsEnd, FaultEnds, TimersKept
  <2> QED BY <2>1, <2>2 DEF FaultsEnd
<1>4. RecoveryIsCalm'
  BY DEF FaultInv, RecoveryIsCalm
<1> QED BY <1>1, <1>3, <1>4 DEF FaultInv, TimersKept

LEMMA SentFinite ==
  ASSUME NEW from, NEW out \in Sent(from)
  PROVE  IsFiniteSet(out)
<1>1. ASSUME NEW x, NEW y PROVE IsFiniteSet({x}) /\ IsFiniteSet({x, y})
  <2>1. IsFiniteSet({x}) /\ IsFiniteSet({y})
    BY ZenonT(60), FS_Singleton
  <2>2. IsFiniteSet({x} \cup {y}) /\ {x, y} = {x} \cup {y}
    BY ZenonT(60), <2>1, FS_Union
  <2> QED BY <2>1, <2>2
<1>2. CASE out \in once(from)
  <2>1. PICK n \in reachable(from), d \in Delays : out = {packet(n, d, 1)}
    BY <1>2 DEF once
  <2> QED BY ZenonT(60), <1>1, <2>1
<1>3. CASE out \in twice(from)
  <2>1. PICK n \in reachable(from), d \in Delays, e \in Delays :
          out = {packet(n, d, 1), packet(n, e, 2)}
    BY <1>3 DEF twice
  <2> QED BY ZenonT(60), <1>1, <2>1
<1>4. CASE out = {}
  BY <1>4, FS_EmptySet
<1> QED BY <1>2, <1>3, <1>4 DEF Sent

\* Polls change no fault but a failing disk.
LEMMA PollFaults ==
  ASSUME FaultInv, NodesTyped, NEW t,
         \/ poll_net_rx(t) \/ poll_ticker(t) \/ poll_open(t)
         \/ poll_recovered(t) \/ poll_driver(t) \/ driver_stops(t)
  PROVE  FaultInv'
<1>1. /\ blocked' = blocked /\ chaos_on' = chaos_on /\ phase' = phase
  BY DEF poll_net_rx, poll_ticker, poll_open, poll_recovered, poll_driver, driver_stops, Poll, clock
<1>2. \A n \in Node : node'[n].up = node[n].up /\ node'[n].paused = node[n].paused
  <2>1. CASE node' = node
    BY <2>1
  <2>2. CASE \E k : node' = [node EXCEPT ![k].mailbox = 0, ![k].recv_waiters = @ \cup {t}]
    BY <2>2 DEF NodesTyped, NodeStates
  <2> QED BY ZenonT(60), <2>1, <2>2
            DEF poll_net_rx, poll_ticker, poll_open, poll_recovered, poll_driver, driver_stops
<1>3. TimersKept
  <2>1. IsFiniteSet(timers)
    BY DEF FaultInv
  <2>2. CASE timers' = timers
    BY <2>1, <2>2 DEF TimersKept
  <2>3. ASSUME NEW at, timers' = timers \cup {Fire(at, t)}
        PROVE  TimersKept
    <3>1. Fire(at, t).type \notin FaultEnds
      BY DEF Fire, FaultEnds
    <3> QED BY <2>1, <2>3, <3>1, FS_AddElement DEF TimersKept
  <2>4. ASSUME NEW out \in Sent(t.node),
               timers' = timers \cup out \/ \E at : timers' = timers \cup out \cup {Fire(at, t)}
        PROVE  TimersKept
    <3>1. IsFiniteSet(timers \cup out)
      BY ZenonT(60), <2>1, <2>4, SentFinite, FS_Union
    <3>2. \A timer \in out : timer.type \notin FaultEnds
      BY SentIs DEF FaultEnds
    <3>3. \A at : Fire(at, t).type \notin FaultEnds
      BY DEF Fire, FaultEnds
    <3> QED BY ZenonT(60), <2>4, <3>1, <3>2, <3>3, FS_AddElement DEF TimersKept
  <2>5. poll_driver(t) => \E out \in Sent(t.node) :
          timers' = timers \cup out \/ \E at : timers' = timers \cup out \cup {Fire(at, t)}
    BY ZenonT(60) DEF poll_driver
  <2> QED BY <2>2, <2>3, <2>4, <2>5
            DEF poll_net_rx, poll_ticker, poll_open, poll_recovered, driver_stops
<1>4. /\ used'.faults \in Nat /\ used'.faults >= used.faults
      /\ used' = [sends |-> used'.sends, faults |-> used'.faults]
  <2>1. used.faults \in Nat /\ used = [sends |-> used.sends, faults |-> used.faults]
    BY DEF FaultInv
  <2>2. CASE used' = used
    BY <2>1, <2>2
  <2>3. CASE used' = [used EXCEPT !.sends = @ + 1]
    BY <2>1, <2>3
  <2>4. CASE used' = [used EXCEPT !.faults = @ + 1]
    BY <2>1, <2>4
  <2> QED BY <2>2, <2>3, <2>4
            DEF poll_net_rx, poll_ticker, poll_open, poll_recovered, poll_driver, driver_stops
<1> QED BY <1>1, <1>2, <1>3, <1>4, FaultsKept

LEMMA FireFaults ==
  ASSUME FaultInv, NEW timer \in timers, fire_slot(timer) \/ deliver(timer), NodesTyped, TimersTyped
  PROVE  FaultInv'
<1>1. /\ blocked' = blocked /\ chaos_on' = chaos_on /\ phase' = phase /\ used' = used
      /\ timers' = timers \ {timer} /\ timer.type \notin FaultEnds
  BY DEF fire_slot, deliver, Pop, FaultEnds
<1>2. \A n \in Node : node'[n].up = node[n].up /\ node'[n].paused = node[n].paused
  <2>1. CASE node' = node
    BY <2>1
  <2>2. CASE \E k : node' = [node EXCEPT ![k].mailbox = @ + 1, ![k].recv_waiters = {}]
    BY <2>2 DEF NodesTyped, NodeStates
  <2> QED BY <2>1, <2>2 DEF fire_slot, deliver
<1>3. TimersKept
  BY <1>1, FS_RemoveElement DEF FaultInv, TimersKept
<1>4. used'.faults \in Nat /\ used'.faults >= used.faults
      /\ used' = [sends |-> used'.sends, faults |-> used'.faults]
  BY <1>1 DEF FaultInv
<1> QED BY <1>1, <1>2, <1>3, <1>4, FaultsKept

LEMMA QuietFaults ==
  ASSUME FaultInv,
         return \/ slice \/ finish \/ UNCHANGED vars
  PROVE  FaultInv'
<1>1. /\ blocked' = blocked /\ chaos_on' = chaos_on /\ used' = used /\ timers' = timers
      /\ node' = node /\ (phase' = phase \/ (phase # "run" /\ phase' # "run"))
  <2>1. CASE return
    BY <2>1 DEF return
  <2>2. CASE slice
    BY <2>2 DEF slice
  <2>3. CASE finish
    BY <2>3 DEF finish
  <2>4. CASE UNCHANGED vars
    BY <2>4 DEF vars, clock
  <2> QED BY <2>1, <2>2, <2>3, <2>4
<1>2. TimersKept
  BY <1>1 DEF FaultInv, TimersKept
<1>3. used'.faults \in Nat /\ used'.faults >= used.faults
      /\ used' = [sends |-> used'.sends, faults |-> used'.faults]
  BY <1>1 DEF FaultInv
<1> QED BY <1>1, <1>2, <1>3, FaultsKept

\* A link's count falls with the Heal that ends one of its cuts.
LEMMA HealFaults ==
  ASSUME FaultInv, NEW timer \in timers, heal(timer)
  PROVE  FaultInv'
<1>1. /\ blocked' = healed(timer.links) /\ chaos_on' = chaos_on /\ phase' = phase /\ used' = used
      /\ timers' = timers \ {timer} /\ timer.type = "Heal" /\ node' = node
  BY DEF heal, Pop
<1>2. IsFiniteSet(timers')
  BY <1>1, FS_RemoveElement DEF FaultInv
<1>3. \A other \in timers' : other.type = "Heal" => other.id \in Nat /\ other.id < used'.faults
  BY <1>1 DEF FaultInv
<1>4. \A x \in Int : Max({0, x}) = IF x > 0 THEN x ELSE 0
  BY DEF Max
<1>5. ASSUME NEW l \in Links, phase = "run" PROVE blocked'[l] = Cardinality(Heals(l)')
  <2>1. blocked[l] = Cardinality(Heals(l))
    BY <1>5 DEF FaultInv, FaultsEnd, Heals
  <2>2. IsFiniteSet(Heals(l))
    BY FS_Subset DEF FaultInv, Heals
  <2>3. CASE l \in timer.links
    <3>1. Heals(l)' = Heals(l) \ {timer} /\ timer \in Heals(l)
      BY <1>1, <2>3 DEF Heals
    <3>2. Cardinality(Heals(l)') = Cardinality(Heals(l)) - 1
      BY ZenonT(60), <2>2, <3>1, FS_RemoveElement
    <3>3. Cardinality(Heals(l)) \in Nat /\ Cardinality(Heals(l)') \in Nat
      BY <2>2, <3>1, FS_RemoveElement, FS_CardinalityType
    <3>4. blocked'[l] = Max({0, blocked[l] - 1})
      BY <1>1, <2>3 DEF healed
    <3> QED BY <1>4, <2>1, <3>2, <3>3, <3>4
  <2>4. CASE l \notin timer.links
    <3>1. Heals(l)' = Heals(l)
      BY <1>1, <2>4 DEF Heals
    <3> QED BY <1>1, <2>1, <2>4, <3>1 DEF healed
  <2> QED BY <2>3, <2>4
<1>6. FaultsEnd'
  BY <1>1, <1>5 DEF FaultInv, FaultsEnd, Heals
<1>7. RecoveryIsCalm'
  BY <1>1, <1>4 DEF FaultInv, RecoveryIsCalm, healed
<1> QED BY <1>1, <1>2, <1>3, <1>6, <1>7 DEF FaultInv

\* Resume and Restart: the node's own fault ends, and no other.
LEMMA EndFaults ==
  ASSUME FaultInv, NodesTyped, TimersTyped,
         NEW timer \in timers, resume(timer) \/ restart(timer)
  PROVE  FaultInv'
<1>1. /\ blocked' = blocked /\ chaos_on' = chaos_on /\ phase' = phase /\ used' = used
      /\ timers' = timers \ {timer} /\ timer.type \in {"Resume", "Restart"} /\ timer.node \in Node
  BY DEF resume, restart, Pop, TimersTyped
<1>2. /\ \A n \in Node : n # timer.node =>
           node'[n].up = node[n].up /\ node'[n].paused = node[n].paused
      /\ timer.type = "Resume" =>
           node'[timer.node].up = node[timer.node].up /\ ~ node'[timer.node].paused
      /\ timer.type = "Restart" =>
           /\ node'[timer.node].up
           /\ node'[timer.node].paused <=> node[timer.node].paused /\ node[timer.node].up
  <2>1. CASE resume(timer)
    BY ZenonT(60), <1>1, <2>1 DEF resume, NodesTyped, NodeStates
  <2>2. CASE restart(timer)
    <3>1. /\ node' = booted(node, {timer.node}) /\ timer.type = "Restart"
          /\ {timer.node} \in SUBSET Node /\ \A n \in Node : node[n] \in NodeStates
      BY <1>1, <2>2 DEF restart, NodesTyped
    <3>2. \A n \in Node : /\ node'[n].up <=> node[n].up \/ n = timer.node
                          /\ node'[n].paused <=> node[n].paused /\ (node[n].up \/ n # timer.node)
                          /\ node'[n] \in NodeStates
      BY <3>1, BootedIs
    <3>3. \A n \in Node : node'[n].up \in BOOLEAN /\ node'[n].paused \in BOOLEAN
                          /\ node[n].up \in BOOLEAN /\ node[n].paused \in BOOLEAN
      BY ZenonT(60), <3>1, <3>2 DEF NodeStates
    <3> QED BY ZenonT(60), <1>1, <3>1, <3>2, <3>3
  <2> QED BY <2>1, <2>2
<1>3. IsFiniteSet(timers')
  BY <1>1, FS_RemoveElement DEF FaultInv
<1>4. \A other \in timers' : other.type = "Heal" => other.id \in Nat /\ other.id < used'.faults
  BY <1>1 DEF FaultInv
<1>5. \A l \in Links : Heals(l)' = Heals(l)
  BY <1>1 DEF Heals
<1>6. ASSUME phase' = "run", NEW l \in Links
      PROVE  blocked'[l] = Cardinality({other \in timers' : other.type = "Heal" /\ l \in other.links})
  <2>1. blocked[l] = Cardinality(Heals(l))
    BY <1>1, <1>6 DEF FaultInv, FaultsEnd, Heals
  <2> QED BY <1>1, <1>5, <2>1 DEF Heals
<1>7. ASSUME phase' = "run", NEW n \in Node
      PROVE  /\ node'[n].paused => \E other \in timers' : other.type = "Resume" /\ other.node = n
             /\ ~ node'[n].up => \E other \in timers' : other.type = "Restart" /\ other.node = n
  <2>1. /\ node[n].paused => \E other \in timers : other.type = "Resume" /\ other.node = n
        /\ ~ node[n].up => \E other \in timers : other.type = "Restart" /\ other.node = n
    BY ZenonT(60), <1>1, <1>7 DEF FaultInv, FaultsEnd
  <2> QED BY <1>1, <1>2, <2>1
<1>8. FaultsEnd'
  BY <1>6, <1>7 DEF FaultsEnd
<1>9. RecoveryIsCalm'
  BY <1>1, <1>2 DEF FaultInv, RecoveryIsCalm
<1> QED BY <1>1, <1>3, <1>4, <1>8, <1>9 DEF FaultInv

\* recover leaves no server down or frozen and no link cut.
LEMMA RecoverFaults ==
  ASSUME FaultInv, NodesTyped, recover
  PROVE  FaultInv'
<1>1. /\ phase' = "recovery" /\ ~ chaos_on' /\ used' = used /\ timers' = timers
      /\ blocked' = [l \in Links |-> 0] /\ node' = booted(resumed(node), Node)
  BY DEF recover
<1>2. \A n \in Node : resumed(node)[n] \in NodeStates /\ ~ resumed(node)[n].paused
                      /\ resumed(node)[n].up = node[n].up /\ resumed(node)[n].boots = node[n].boots
  BY ZenonT(60) DEF resumed, NodesTyped, NodeStates
<1>3. \A n \in Node : node'[n].up /\ ~ node'[n].paused
  BY <1>1, <1>2, BootedIs
<1>4. RecoveryIsCalm'
  BY <1>1, <1>3 DEF RecoveryIsCalm
<1> QED BY ZenonT(60), <1>1, <1>4 DEF FaultInv, FaultsEnd

LEMMA AtMostOneSize ==
  ASSUME NEW S, NEW x \in AtMostOne(S)
  PROVE  /\ IsFiniteSet(x) /\ Cardinality(x) \in {0, 1} /\ (Cardinality(x) = 0 <=> x = {})
         /\ x = {} \/ \E e \in S : x = {e} /\ Cardinality(x) = 1
<1>1. CASE x = {}
  BY <1>1, FS_EmptySet
<1>2. CASE \E e \in S : x = {e}
  <2>1. PICK e \in S : x = {e}
    BY <1>2
  <2>2. IsFiniteSet(x) /\ Cardinality(x) = 1
    BY ZenonT(60), <2>1, FS_Singleton
  <2> QED BY <2>1, <2>2
<1> QED BY <1>1, <1>2 DEF AtMostOne

\* The timers a tick leaves.
LEMMA StrikeTimers ==
  ASSUME FaultInv, NEW timer \in timers, timer.type = "ChaosTick",
         NEW cut \in AtMostOne(Cuts), NEW pause \in AtMostOne(Node), NEW crash \in AtMostOne(Node),
         NEW lasts, strike(timer, cut, pause, crash, lasts), NEW then, then = timer.at + lasts.cut,
         NEW thaw, thaw = timer.at + lasts.pause, NEW back, back = timer.at + lasts.crash
  PROVE  /\ IsFiniteSet(timers')
         /\ \A other \in timers : other # timer => other \in timers'
         /\ \A c \in cut : Heal(then, c, used.faults) \in timers'
         /\ \A n \in pause : \E other \in timers' : other.type = "Resume" /\ other.node = n
         /\ \A n \in crash : \E other \in timers' : other.type = "Restart" /\ other.node = n
         /\ \A other \in timers' : other.type = "Heal" =>
              \/ other \in timers
              \/ \E c \in cut : other = Heal(then, c, used.faults)
<1> DEFINE at == timer.at
<1>0. timers' = (timers \ {timer}) \cup {ChaosTick(at + 1)}
        \cup {Heal(then, c, used.faults) : c \in cut}
        \cup {Resume(thaw, n) : n \in pause}
        \cup {Restart(back, n) : n \in crash}
  BY ZenonT(60) DEF strike
<1> HIDE DEF at
<1>1. /\ IsFiniteSet({Heal(then, c, used.faults) : c \in cut})
      /\ IsFiniteSet({Resume(thaw, n) : n \in pause})
      /\ IsFiniteSet({Restart(back, n) : n \in crash})
  <2>1. cut = {} \/ \E e : cut = {e}
    BY AtMostOneSize
  <2>2. pause = {} \/ \E e : pause = {e}
    BY AtMostOneSize
  <2>3. crash = {} \/ \E e : crash = {e}
    BY AtMostOneSize
  <2>4. {Heal(then, c, used.faults) : c \in cut} = {} \/
        \E e : {Heal(then, c, used.faults) : c \in cut} = {e}
    <3>1. cut = {} => {Heal(then, c, used.faults) : c \in cut} = {}
      OBVIOUS
    <3>2. \A e : cut = {e} => {Heal(then, c, used.faults) : c \in cut} = {Heal(then, e, used.faults)}
      OBVIOUS
    <3> QED BY Zenon, <2>1, <3>1, <3>2
  <2>5. {Resume(thaw, n) : n \in pause} = {} \/ \E e : {Resume(thaw, n) : n \in pause} = {e}
    <3>1. pause = {} => {Resume(thaw, n) : n \in pause} = {}
      OBVIOUS
    <3>2. \A e : pause = {e} => {Resume(thaw, n) : n \in pause} = {Resume(thaw, e)}
      OBVIOUS
    <3> QED BY Zenon, <2>2, <3>1, <3>2
  <2>6. {Restart(back, n) : n \in crash} = {} \/ \E e : {Restart(back, n) : n \in crash} = {e}
    <3>1. crash = {} => {Restart(back, n) : n \in crash} = {}
      OBVIOUS
    <3>2. \A e : crash = {e} => {Restart(back, n) : n \in crash} = {Restart(back, e)}
      OBVIOUS
    <3> QED BY Zenon, <2>3, <3>1, <3>2
  <2>7. \A S : S = {} \/ (\E e : S = {e}) => IsFiniteSet(S)
    BY ZenonT(60), FS_EmptySet, FS_Singleton
  <2> QED BY ZenonT(60), <2>4, <2>5, <2>6, <2>7
<1>2. IsFiniteSet(timers \ {timer})
  BY FS_RemoveElement DEF FaultInv
<1>3. IsFiniteSet((timers \ {timer}) \cup {ChaosTick(at + 1)})
  BY <1>2, FS_AddElement
<1>4. IsFiniteSet(timers')
  BY ZenonT(60), <1>0, <1>1, <1>3, FS_Union
<1>5. /\ \A n : Resume(thaw, n).type = "Resume" /\ Resume(thaw, n).node = n
      /\ \A n : Restart(back, n).type = "Restart" /\ Restart(back, n).node = n
      /\ ChaosTick(at + 1).type = "ChaosTick"
  BY DEF Resume, Restart, ChaosTick
<1> QED BY <1>0, <1>4, <1>5

\* A strike comes with its end.
LEMMA ChaosFaults ==
  ASSUME FaultInv, NodesTyped, NEW timer \in timers, chaos(timer)
  PROVE  FaultInv'
<1>1. /\ timer.type = "ChaosTick" /\ chaos_on' = chaos_on /\ phase' = phase
      /\ \E cut \in AtMostOne(Cuts), pause \in AtMostOne(Node), crash \in AtMostOne(Node), lasts \in Lasting :
           strike(timer, cut, pause, crash, lasts)
  BY ChaosIs
<1>2. PICK cut \in AtMostOne(Cuts), pause \in AtMostOne(Node), crash \in AtMostOne(Node), lasts \in Lasting :
           strike(timer, cut, pause, crash, lasts)
  BY <1>1
<1>3. /\ IsFiniteSet(cut) /\ Cardinality(cut) \in {0, 1} /\ (Cardinality(cut) = 0 <=> cut = {})
      /\ Cardinality(pause) \in {0, 1} /\ (Cardinality(pause) = 0 <=> pause = {})
      /\ Cardinality(crash) \in {0, 1} /\ (Cardinality(crash) = 0 <=> crash = {})
      /\ cut = {} \/ \E e \in Cuts : cut = {e} /\ Cardinality(cut) = 1
  BY AtMostOneSize
<1>4. PICK faults \in Nat : faults = Cardinality(cut) + Cardinality(pause) + Cardinality(crash)
  BY <1>3
<1>5. /\ faults > 0 => chaos_on
      /\ used' = [used EXCEPT !.faults = @ + faults]
      /\ blocked' = [l \in Links |-> blocked[l] + Cardinality({c \in cut : l \in c})]
      /\ node' = [n \in Node |->
           IF n \in crash
           THEN [node[n] EXCEPT !.up = FALSE, !.paused = FALSE, !.mailbox = 0, !.recv_waiters = {}]
           ELSE [node[n] EXCEPT !.paused = @ \/ n \in pause]]
  BY ZenonT(60), <1>2, <1>4 DEF strike
<1>6. PICK then, thaw, back :
        /\ then = timer.at + lasts.cut
        /\ thaw = timer.at + lasts.pause
        /\ back = timer.at + lasts.crash
  OBVIOUS
<1>7. /\ IsFiniteSet(timers')
      /\ \A other \in timers : other # timer => other \in timers'
      /\ \A c \in cut : Heal(then, c, used.faults) \in timers'
      /\ \A n \in pause : \E other \in timers' : other.type = "Resume" /\ other.node = n
      /\ \A n \in crash : \E other \in timers' : other.type = "Restart" /\ other.node = n
      /\ \A other \in timers' : other.type = "Heal" =>
           \/ other \in timers
           \/ \E c \in cut : other = Heal(then, c, used.faults)
  BY <1>1, <1>2, <1>6, StrikeTimers
<1>8. /\ used'.faults = used.faults + faults /\ used'.faults \in Nat
      /\ used' = [sends |-> used'.sends, faults |-> used'.faults]
  <2>1. used.faults \in Nat /\ used = [sends |-> used.sends, faults |-> used.faults]
    BY ZenonT(60) DEF FaultInv
  <2>2. used' = [used EXCEPT !.faults = @ + faults]
    BY ZenonT(60), <1>5
  <2> QED BY <2>1, <2>2
<1>9. \A n \in Node :
        /\ node'[n].up <=> node[n].up /\ n \notin crash
        /\ node'[n].paused => n \in pause \/ node[n].paused
  BY ZenonT(60), <1>5 DEF NodesTyped, NodeStates
<1>10. \A c : /\ Heal(then, c, used.faults).type = "Heal"
              /\ Heal(then, c, used.faults).links = c
              /\ Heal(then, c, used.faults).id = used.faults
  BY DEF Heal
<1>11. \A other \in timers' : other.type = "Heal" => other.id \in Nat /\ other.id < used'.faults
  <2>1. cut # {} => faults > 0
    BY <1>3, <1>4
  <2> QED BY <1>7, <1>8, <1>10, <2>1 DEF FaultInv
<1>12. ASSUME phase = "run", NEW l \in Links PROVE blocked'[l] = Cardinality(Heals(l)')
  <2>1. blocked[l] = Cardinality(Heals(l)) /\ IsFiniteSet(Heals(l))
    BY <1>12, FS_Subset DEF FaultInv, FaultsEnd, Heals
  <2>2. Cardinality(Heals(l)) \in Nat
    BY ZenonT(60), <2>1, FS_CardinalityType
  <2>3. blocked'[l] = blocked[l] + Cardinality({c \in cut : l \in c})
    BY ZenonT(60), <1>5
  <2>4. CASE {c \in cut : l \in c} = {}
    <3>0. \A other \in timers' : other.type = "Heal" /\ l \in other.links => other \in timers
      <4>1. \A c \in cut : l \notin c
        BY ZenonT(60), <2>4
      <4>2. SUFFICES ASSUME NEW other \in timers', other.type = "Heal", l \in other.links,
                            other \notin timers
                     PROVE  FALSE
        BY ZenonT(60)
      <4>3. PICK c \in cut : other = Heal(then, c, used.faults)
        BY ZenonT(60), <1>7, <4>2
      <4>4. other.links = c
        BY ZenonT(60), <1>10, <4>3
      <4> QED BY ZenonT(60), <4>1, <4>2, <4>3, <4>4
    <3>1. Heals(l)' = Heals(l)
      <4>1. \A other \in Heals(l)' : other \in Heals(l)
        BY ZenonT(60), <3>0 DEF Heals
      <4>2. \A other \in Heals(l) : other \in Heals(l)'
        BY <1>1, <1>7 DEF Heals
      <4> QED BY <4>1, <4>2
    <3>2. Cardinality({c \in cut : l \in c}) = 0
      BY ZenonT(60), <2>4, FS_EmptySet
    <3> QED BY <2>1, <2>2, <2>3, <3>1, <3>2
  <2>5. CASE {c \in cut : l \in c} # {}
    <3>1. PICK c : cut = {c} /\ l \in c /\ {d \in cut : l \in d} = {c}
      BY <1>3, <2>5
    <3>2. Heal(then, c, used.faults) \notin timers
      BY <1>10 DEF FaultInv
    <3>3. Heals(l)' = Heals(l) \cup {Heal(then, c, used.faults)}
      <4>1. \A other \in Heals(l)' : other \in Heals(l) \/ other = Heal(then, c, used.faults)
        BY ZenonT(60), <1>7, <3>1 DEF Heals
      <4>2. \A other \in Heals(l) : other \in Heals(l)'
        BY <1>1, <1>7 DEF Heals
      <4>3. Heal(then, c, used.faults) \in Heals(l)'
        BY <1>7, <1>10, <3>1 DEF Heals
      <4> QED BY ZenonT(60), <4>1, <4>2, <4>3
    <3>4. Heal(then, c, used.faults) \notin Heals(l)
      BY <3>2 DEF Heals
    <3>5. Cardinality(Heals(l)') = Cardinality(Heals(l)) + 1
      BY ZenonT(60), <2>1, <3>3, <3>4, FS_AddElement
    <3>6. Cardinality({d \in cut : l \in d}) = 1
      BY ZenonT(60), <3>1, FS_Singleton
    <3> QED BY <2>1, <2>2, <2>3, <3>5, <3>6
  <2> QED BY <2>4, <2>5
<1>13. ASSUME phase = "run", NEW n \in Node
       PROVE  /\ node'[n].paused => \E other \in timers' : other.type = "Resume" /\ other.node = n
              /\ ~ node'[n].up => \E other \in timers' : other.type = "Restart" /\ other.node = n
  <2>1. /\ node[n].paused => \E other \in timers : other.type = "Resume" /\ other.node = n
        /\ ~ node[n].up => \E other \in timers : other.type = "Restart" /\ other.node = n
    BY ZenonT(60), <1>13 DEF FaultInv, FaultsEnd
  <2> QED BY ZenonT(60), <1>1, <1>7, <1>9, <2>1
<1>14. FaultsEnd'
  BY ZenonT(60), <1>1, <1>12, <1>13 DEF FaultsEnd, Heals
<1>15. RecoveryIsCalm'
  <2>1. ASSUME phase # "run" PROVE cut = {} /\ pause = {} /\ crash = {}
    <3>1. ~ (faults > 0)
      BY ZenonT(60), <1>5, <2>1 DEF FaultInv
    <3> QED BY <1>3, <1>4, <3>1
  <2>2. Cardinality({}) = 0
    BY FS_EmptySet
  <2>3. ASSUME phase # "run", NEW l \in Links PROVE blocked'[l] = 0
    <3>1. {c \in cut : l \in c} = {}
      BY <2>1, <2>3
    <3>2. blocked[l] = 0
      BY ZenonT(60), <2>3 DEF FaultInv, RecoveryIsCalm
    <3>3. blocked'[l] = blocked[l] + Cardinality({c \in cut : l \in c})
      BY ZenonT(60), <1>5
    <3> QED BY <2>2, <3>1, <3>2, <3>3
  <2>4. ASSUME phase # "run", NEW n \in Node PROVE node'[n].up /\ ~ node'[n].paused
    BY <1>9, <2>1, <2>4 DEF FaultInv, RecoveryIsCalm
  <2> QED BY <1>1, <2>3, <2>4 DEF RecoveryIsCalm
<1> QED BY <1>1, <1>7, <1>8, <1>11, <1>14, <1>15 DEF FaultInv

LEMMA FaultInit ==
  ASSUME Init
  PROVE  FaultInv
<1>1. IsFiniteSet(timers)
  BY ZenonT(60), FS_Singleton DEF Init
<1>2. \A timer \in timers : timer.type = "ChaosTick"
  BY DEF Init, ChaosTick
<1>3. \A l \in Links : {timer \in timers : timer.type = "Heal" /\ l \in timer.links} = {}
  BY <1>2
<1>4. Cardinality({}) = 0
  BY FS_EmptySet
<1>5. FaultsEnd
  BY ZenonT(60), <1>3, <1>4 DEF FaultsEnd, Init
<1> QED BY <1>1, <1>2, <1>5 DEF FaultInv, RecoveryIsCalm, Init

\* Every step keeps the fault invariant.
LEMMA FaultStep ==
  ASSUME NodesTyped, TimersTyped, FaultInv, [Next]_vars
  PROVE  FaultInv'
<1>1. CASE \E t \in ready : \/ poll_net_rx(t) \/ poll_ticker(t) \/ poll_open(t)
                            \/ poll_recovered(t) \/ poll_driver(t) \/ driver_stops(t)
  BY <1>1, PollFaults
<1>2. CASE \E timer \in timers : fire_slot(timer) \/ deliver(timer)
  BY <1>2, FireFaults
<1>3. CASE \E timer \in timers : resume(timer) \/ restart(timer)
  BY <1>3, EndFaults
<1>4. CASE \E timer \in timers : heal(timer)
  BY <1>4, HealFaults
<1>5. CASE \E timer \in timers : chaos(timer)
  BY <1>5, ChaosFaults
<1>6. CASE return \/ slice \/ finish \/ UNCHANGED vars
  BY <1>6, QuietFaults
<1>7. CASE recover
  BY <1>7, RecoverFaults
<1> QED BY ZenonT(60), <1>1, <1>2, <1>3, <1>4, <1>5, <1>6, <1>7 DEF Next
=============================================================================
