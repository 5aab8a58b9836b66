-------------------------- MODULE FlowSafetyProofs --------------------------
(***************************************************************************)
(* Further theorems of FlowTracker: the bound on the table, how stale an   *)
(* active flow can be, what the exported reasons and the TCP states mean.  *)
(***************************************************************************)
EXTENDS FlowTrackerProofs

-----------------------------------------------------------------------------
(* The bound on the table *)

CapacityInv == IsFiniteSet(DOMAIN table) /\ CapacityBound

\* Attaching a packet evicts before it adds, so it never exceeds the bound.
LEMMA AttachCapacity ==
  ASSUME TypeOK, CapacityInv, NEW p \in Packets
  PROVE  /\ IsFiniteSet(DOMAIN Attach(p))
         /\ Cardinality(DOMAIN Attach(p)) <= MaxActiveFlows
  <1> DEFINE key == make_key(p.proto, p.src, p.dst)
             D == DOMAIN table
  <1>1. IsFiniteSet(D) /\ Cardinality(D) \in Nat /\ Cardinality(D) <= MaxActiveFlows
        /\ MaxActiveFlows \in Nat \ {0}
    BY FS_CardinalityType, ConfigAssumption DEF CapacityInv, CapacityBound
  <1>2. DOMAIN Attach(p) = (D \ Gone(p)) \cup {key} /\ Gone(p) \subseteq D
    BY AttachShape
  <1>3. CASE key \in D
    <2>1. Gone(p) \subseteq {key}
      BY <1>3 DEF Gone, Displaced
    <2>2. DOMAIN Attach(p) = D
      BY <1>2, <1>3, <2>1
    <2>3. QED
      BY <1>1, <2>2
  <1>4. CASE key \notin D /\ ~Full(table)
    <2>1. DOMAIN Attach(p) = D \cup {key}
      BY <1>2, <1>4 DEF Gone, Displaced
    <2>2. Cardinality(D) < MaxActiveFlows
      BY <1>1, <1>4 DEF Full
    <2>3. IsFiniteSet(D \cup {key}) /\ Cardinality(D \cup {key}) = Cardinality(D) + 1
      BY <1>1, <1>4, FS_AddElement
    <2>4. QED
      BY <1>1, <2>1, <2>2, <2>3
  <1>5. CASE key \notin D /\ Full(table)
    <2> DEFINE o == oldest(table)
    <2>1. Gone(p) = {o} /\ o \in D
      BY <1>2, <1>5 DEF Gone, Displaced
    <2>2. IsFiniteSet(D \ {o}) /\ Cardinality(D \ {o}) = Cardinality(D) - 1
      BY <1>1, <2>1, FS_RemoveElement
    <2>3. key \notin D \ {o}
      BY <1>5
    <2>4. /\ IsFiniteSet((D \ {o}) \cup {key})
          /\ Cardinality((D \ {o}) \cup {key}) = Cardinality(D \ {o}) + 1
      BY <2>2, <2>3, FS_AddElement
    <2>5. QED
      BY <1>1, <1>2, <2>1, <2>2, <2>4
  <1>6. QED
    BY <1>3, <1>4, <1>5

LEMMA UpdateCapacity ==
  ASSUME TypeOK, CapacityInv, NEW p \in Packets, Update(p)
  PROVE  CapacityInv'
  <1> DEFINE now == IF p.ts > clock THEN p.ts ELSE clock
  <1>1. IsFiniteSet(DOMAIN Attach(p)) /\ Cardinality(DOMAIN Attach(p)) <= MaxActiveFlows
    BY AttachCapacity
  <1>2. DOMAIN table' \subseteq DOMAIN Attach(p)
    <2>1. table' = Unexpired(Attach(p), now) \/ table' = Attach(p)
      BY DEF Update
    <2>2. DOMAIN Unexpired(Attach(p), now) \subseteq DOMAIN Attach(p)
      BY DEF Unexpired, Restrict
    <2>3. QED
      BY <2>1, <2>2
  <1>3. /\ IsFiniteSet(DOMAIN table')
        /\ Cardinality(DOMAIN table') <= Cardinality(DOMAIN Attach(p))
    BY <1>1, <1>2, FS_Subset
  <1>4. /\ Cardinality(DOMAIN table') \in Nat /\ Cardinality(DOMAIN Attach(p)) \in Nat
        /\ MaxActiveFlows \in Nat
    BY <1>1, <1>3, FS_CardinalityType, ConfigAssumption
  <1>5. QED
    BY <1>1, <1>3, <1>4 DEF CapacityInv, CapacityBound

LEMMA NextCapacity == TypeOK /\ CapacityInv /\ [Next]_vars => CapacityInv'
  <1> SUFFICES ASSUME TypeOK, CapacityInv, [Next]_vars PROVE CapacityInv'
    OBVIOUS
  <1>1. CASE \E p \in Packets : Update(p)
    BY <1>1, UpdateCapacity
  <1>2. CASE Flush
    <2>1. DOMAIN table' = {}
      BY <1>2 DEF Flush, Restrict
    <2>2. QED
      BY <2>1, FS_EmptySet, ConfigAssumption DEF CapacityInv, CapacityBound
  <1>3. CASE UNCHANGED table
    BY <1>3 DEF CapacityInv, CapacityBound
  <1>4. QED
    BY <1>1, <1>2, <1>3 DEF Next, Ignore, vars

\* The bound together with the finiteness it needs, for the refinement.
THEOREM TableStaysFinite == Spec => []CapacityInv
  <1>1. Init => CapacityInv
    BY FS_EmptySet, ConfigAssumption DEF Init, CapacityInv, CapacityBound
  <1>2. QED
    BY <1>1, NextCapacity, TypeCorrect, PTL DEF Spec

\* The table never outgrows max_active_flows, for any bound and any traffic.
THEOREM CapacityNeverExceeded == Spec => []CapacityBound
  <1>1. CapacityInv => CapacityBound
    BY DEF CapacityInv
  <1>2. QED
    BY <1>1, TableStaysFinite, PTL

\* An update that raises leaves no more flows than one that completes.
LEMMA UpdateRaisesCapacity ==
  ASSUME TypeOK, CapacityInv, NEW p \in Packets, UpdateRaises(p)
  PROVE  CapacityInv'
  <1> DEFINE now == IF p.ts > clock THEN p.ts ELSE clock
             key == make_key(p.proto, p.src, p.dst)
  <1>1. /\ IsFiniteSet(DOMAIN Attach(p)) /\ Cardinality(DOMAIN Attach(p)) <= MaxActiveFlows
        /\ IsFiniteSet(DOMAIN table) /\ Cardinality(DOMAIN table) <= MaxActiveFlows
    BY AttachCapacity DEF CapacityInv, CapacityBound
  <1>2. RaisesBefore(p, now) \/ RaisesAfter(p, now)
    BY DEF UpdateRaises
  <1> HIDE DEF now
  <1>3. DOMAIN table' \subseteq DOMAIN table \/ DOMAIN table' \subseteq DOMAIN Attach(p)
    <2>1. CASE RaisesBefore(p, now)
      BY <2>1 DEF RaisesBefore, Restrict
    <2>2. CASE RaisesAfter(p, now)
      <3>1. PICK h \in Halfway(Own(p), p) :
              DOMAIN table' \subseteq DOMAIN With(Remaining(p), key, h[1])
        BY <2>2 DEF RaisesAfter, Restrict
      <3>2. \A flow : DOMAIN With(Remaining(p), key, flow) = DOMAIN Remaining(p) \cup {key}
        BY DEF With
      <3>3. DOMAIN Attach(p) = DOMAIN Remaining(p) \cup {key}
        BY <3>2 DEF Attach
      <3>4. QED
        BY <3>1, <3>2, <3>3
    <2>3. QED
      BY <1>2, <2>1, <2>2
  <1>4. PICK S : DOMAIN table' \subseteq S /\ IsFiniteSet(S) /\ Cardinality(S) <= MaxActiveFlows
    BY <1>1, <1>3
  <1>5. IsFiniteSet(DOMAIN table') /\ Cardinality(DOMAIN table') <= Cardinality(S)
    BY <1>4, FS_Subset
  <1>6. Cardinality(DOMAIN table') \in Nat /\ Cardinality(S) \in Nat /\ MaxActiveFlows \in Nat
    BY <1>4, <1>5, FS_CardinalityType, ConfigAssumption
  <1>7. QED
    BY <1>4, <1>5, <1>6 DEF CapacityInv, CapacityBound

\* Nor does it when updates raise, after an eviction or before one: the eviction
\* loop of the next update starts from a table that is at most full.
THEOREM CapacityNeverExceededWithFailures == SpecWithFailures => []CapacityBound
  <1>1. Init => CapacityInv
    BY FS_EmptySet, ConfigAssumption DEF Init, CapacityInv, CapacityBound
  <1>2. TypeOK /\ CapacityInv /\ [NextWithFailures]_vars => CapacityInv'
    BY NextCapacity, UpdateRaisesCapacity DEF NextWithFailures
  <1>3. CapacityInv => CapacityBound
    BY DEF CapacityInv
  <1>4. QED
    BY <1>1, <1>2, <1>3, TypeCorrectWithFailures, PTL DEF SpecWithFailures

-----------------------------------------------------------------------------
(* Staleness *)

Slack(f) == IF timeout_for(f) > MaxLateness THEN timeout_for(f) ELSE MaxLateness

\* Inductive form: the watermark of the last sweep is at most Slack ahead of
\* the last packet of every active flow.
SweptBound ==
  /\ lastSweep = None => DOMAIN table = {}
  /\ lastSweep # None => \A k \in DOMAIN table : lastSweep - table[k].last <= Slack(table[k])

LEMMA SlackType ==
  ASSUME NEW f
  PROVE  /\ timeout_for(f) \in Nat /\ MaxLateness \in Nat /\ Slack(f) \in Nat
         /\ Slack(f) >= timeout_for(f) /\ Slack(f) >= MaxLateness
  <1>1. timeout_for(f) \in Nat /\ MaxLateness \in Nat
    BY ConfigAssumption, EnvironmentAssumption DEF timeout_for
  <1>2. QED
    BY <1>1 DEF Slack

LEMMA UpdateSweptBound ==
  ASSUME TypeOK, SweepFresh, SweptBound, NEW p \in Packets, Update(p)
  PROVE  SweptBound'
  <1> DEFINE now == IF p.ts > clock THEN p.ts ELSE clock
             key == make_key(p.proto, p.src, p.dst)
             filled == Attach(p)
  <1>1. /\ now \in Nat /\ clock \in Nat /\ p.ts \in Nat /\ now >= clock
        /\ now - p.ts <= MaxLateness /\ MaxLateness \in Nat
    BY PacketType, EnvironmentAssumption DEF TypeOK, Update
  <1>2. /\ key \in DOMAIN filled
        /\ \A k \in DOMAIN filled : filled[k] \in Flows
        /\ filled[key].last >= p.ts
    BY AttachType
  <1>3. \A k \in DOMAIN filled \ {key} : k \in DOMAIN table /\ filled[k] = table[k]
    BY AttachShape
  <1> HIDE DEF now, key, filled
  <1>4. lastSweep' # None
    BY <1>1, NoneAssumption DEF Update, now
  <1>5. CASE SweepDue(now)
    <2>1. table' = Unexpired(filled, now) /\ lastSweep' = now
      BY <1>5 DEF Update, now, filled
    <2>2. ASSUME NEW k \in DOMAIN table'
          PROVE  lastSweep' - table'[k].last <= Slack(table'[k])
      <3>1. k \in DOMAIN filled /\ table'[k] = filled[k] /\ ~is_expired(filled[k], now)
        BY <1>1, <2>1, <2>2, UnexpiredType
      <3>2. filled[k].last \in Nat
        BY <1>2, <3>1 DEF Flows
      <3>3. now - filled[k].last <= timeout_for(filled[k])
        BY <1>1, <3>1, <3>2, SlackType DEF is_expired
      <3>4. QED
        BY <1>1, <2>1, <3>1, <3>2, <3>3, SlackType
    <2>3. QED
      BY <1>4, <2>2, SlackType DEF SweptBound, Slack, timeout_for
  <1>6. CASE ~SweepDue(now)
    <2>1. table' = filled /\ lastSweep' = IF lastSweep = None THEN now ELSE lastSweep
      BY <1>6 DEF Update, now, filled
    <2>2. lastSweep' \in Nat /\ lastSweep' <= now
      BY <1>1, <2>1 DEF SweepFresh, TypeOK
    <2>3. ASSUME NEW k \in DOMAIN table'
          PROVE  lastSweep' - table'[k].last <= Slack(table'[k])
      <3>1. CASE k = key
        <4>1. filled[key].last \in Nat
          BY <1>2 DEF Flows
        <4>2. QED
          BY <1>1, <1>2, <2>1, <2>2, <3>1, <4>1, SlackType
      <3>2. CASE k # key
        <4>1. k \in DOMAIN table /\ filled[k] = table[k]
          BY <1>3, <2>1, <2>3, <3>2
        <4>2. lastSweep # None
          BY <4>1 DEF SweptBound
        <4>3. QED
          BY <2>1, <4>1, <4>2 DEF SweptBound
      <3>3. QED
        BY <3>1, <3>2
    <2>4. QED
      BY <1>4, <2>3 DEF SweptBound, Slack, timeout_for
  <1>7. QED
    BY <1>5, <1>6

LEMMA SweptBoundStaleness ==
  ASSUME TypeOK, SweepFresh, SweptBound
  PROVE  BoundedStaleness
  <1> SUFFICES ASSUME NEW k \in DOMAIN table
               PROVE  clock - table[k].last < Slack(table[k]) + SweepInterval
    BY DEF BoundedStaleness, Slack
  <1>1. lastSweep # None
    BY DEF SweptBound
  <1>2. /\ lastSweep \in Nat /\ clock \in Nat /\ table[k].last \in Nat /\ SweepInterval \in Nat
        /\ clock - lastSweep < SweepInterval
        /\ lastSweep - table[k].last <= Slack(table[k])
    BY <1>1, ConfigAssumption DEF TypeOK, Flows, SweepFresh, SweepInTime, SweptBound
  <1>3. QED
    BY <1>2, SlackType

\* Whatever the timeouts, an active flow is never idle longer than its timeout
\* (or the lateness of packets, if larger) plus one sweep interval.
THEOREM StalenessBounded == Spec => []BoundedStaleness
  <1>1. Init => SweptBound
    BY DEF Init, SweptBound
  <1>2. TypeOK /\ SweepFresh /\ SweptBound /\ [Next]_vars => SweptBound'
    <2> SUFFICES ASSUME TypeOK, SweepFresh, SweptBound, [Next]_vars PROVE SweptBound'
      OBVIOUS
    <2>1. CASE \E p \in Packets : Update(p)
      BY <2>1, UpdateSweptBound
    <2>2. CASE Flush
      BY <2>2 DEF Flush, Restrict, SweptBound
    <2>3. CASE UNCHANGED <<table, lastSweep>>
      BY <2>3 DEF SweptBound, Slack, timeout_for
    <2>4. QED
      BY <2>1, <2>2, <2>3 DEF Next, Ignore, vars
  <1>3. QED
    BY <1>1, <1>2, TypeCorrect, SweepNeverOverdue, SweptBoundStaleness, PTL DEF Spec

-----------------------------------------------------------------------------
(* Close reasons *)

Justified(r) ==
  LET state == r.flow.conn.state
  IN /\ r.reason = "tcp_closed" => state = "CLOSED"
     /\ r.reason = "tcp_reset" => state = "RESET"
     /\ r.reason = "handshake_timeout" => state = "HANDSHAKE"
     /\ r.reason = "idle_timeout" => state \in {"ESTABLISHED", "CLOSING", "ACTIVE"}
     /\ r.reason = "port_reuse" => state \in Terminal
     /\ r.reason = "flush" => state \notin Terminal
     /\ r.reason \in {"handshake_timeout", "idle_timeout"} =>
          r.at - r.flow.last > timeout_for(r.flow)

\* A flow exported as timed out, when it has timed out by then, is justified.
LEMMA TimeoutJustified ==
  ASSUME NEW f \in Flows, NEW t \in Nat, NEW now \in Nat, t <= now, is_expired(f, t)
  PROVE  Justified(Export(f, get_close_reason(f), now))
  <1>1. f.conn.state \in TcpStates \cup {"ACTIVE"} /\ f.last \in Nat
    BY DEF Flows, Connection
  <1>2. timeout_for(f) \in Nat
    BY ConfigAssumption DEF timeout_for
  <1>3. now - f.last > timeout_for(f)
    BY <1>1, <1>2 DEF is_expired
  <1> DEFINE r == Export(f, get_close_reason(f), now)
  <1>4. r.flow = f /\ r.reason = get_close_reason(f) /\ r.at = now
    BY DEF Export
  <1> HIDE DEF r
  <1>5. Justified(r)
    BY <1>1, <1>3, <1>4 DEF Justified, get_close_reason, TcpStates, Terminal
  <1>6. QED
    BY <1>5 DEF r

LEMMA DisplacedJustified ==
  ASSUME TypeOK, NEW p \in Packets, NEW now \in Nat, p.ts <= now, NEW d \in Displaced(p)
  PROVE  Justified(Export(table[d[1]], d[2], now))
  <1> DEFINE key == make_key(p.proto, p.src, p.dst)
  <1>1. CASE key \in DOMAIN table /\ is_expired(table[key], p.ts)
    <2>1. d[1] = key /\ d[2] = get_close_reason(table[key])
      BY <1>1 DEF Displaced
    <2>2. table[key] \in Flows /\ p.ts \in Nat
      BY <1>1, PacketType DEF TypeOK
    <2>3. Justified(Export(table[key], get_close_reason(table[key]), now))
      BY <1>1, <2>2, TimeoutJustified
    <2>4. QED
      BY <2>1, <2>3
  <1>2. CASE key \in DOMAIN table /\ ~is_expired(table[key], p.ts)
    <2>1. d[1] = key /\ d[2] = "port_reuse" /\ table[key].conn.state \in Terminal
      BY <1>2 DEF Displaced, ReusesPort
    <2>2. QED
      BY <2>1 DEF Justified, Export
  <1>3. CASE key \notin DOMAIN table
    <2>1. d[2] = "evicted"
      BY <1>3 DEF Displaced
    <2>2. QED
      BY <2>1 DEF Justified, Export
  <1>4. QED
    BY <1>1, <1>2, <1>3

LEMMA UpdateJustified ==
  ASSUME TypeOK, \A r \in exported : Justified(r), NEW p \in Packets, Update(p)
  PROVE  \A r \in exported' : Justified(r)
  <1> DEFINE now == IF p.ts > clock THEN p.ts ELSE clock
             left == {Export(table[d[1]], d[2], now) : d \in Displaced(p)}
  <1>1. now \in Nat /\ p.ts <= now
    BY PacketType DEF TypeOK
  <1>2. \A r \in left : Justified(r)
    BY <1>1, DisplacedJustified
  <1>3. \A r \in SweptOut(Attach(p), now) : Justified(r)
    <2>1. \A k \in DOMAIN Attach(p) : Attach(p)[k] \in Flows
      BY AttachType
    <2>2. ASSUME NEW k \in Expired(Attach(p), now)
          PROVE  Justified(Export(Attach(p)[k], get_close_reason(Attach(p)[k]), now))
      <3>1. k \in DOMAIN Attach(p) /\ is_expired(Attach(p)[k], now)
        BY <2>2 DEF Expired
      <3>2. QED
        BY <1>1, <2>1, <3>1, TimeoutJustified
    <2>3. QED
      BY <2>2 DEF SweptOut
  <1>4. exported' \subseteq exported \cup left \cup SweptOut(Attach(p), now)
    BY DEF Update
  <1>5. QED
    BY <1>2, <1>3, <1>4

LEMMA FlushJustified ==
  ASSUME TypeOK, \A r \in exported : Justified(r), Flush
  PROVE  \A r \in exported' : Justified(r)
  <1>1. ASSUME NEW k \in DOMAIN table
        PROVE  Justified(Export(table[k], flush_reason(table[k]), clock))
    BY DEF Justified, Export, flush_reason, get_close_reason, Terminal
  <1>2. QED
    BY <1>1 DEF Flush

\* Every exported reason is justified, for any timeouts.
THEOREM ReasonsJustified == Spec => []ReasonJustified
  <1>1. Init => \A r \in exported : Justified(r)
    BY DEF Init
  <1>2. TypeOK /\ (\A r \in exported : Justified(r)) /\ [Next]_vars
          => (\A r \in exported : Justified(r))'
    <2> SUFFICES ASSUME TypeOK, \A r \in exported : Justified(r), [Next]_vars
                 PROVE  \A r \in exported' : Justified(r)
      BY DEF Justified, timeout_for
    <2>1. CASE \E p \in Packets : Update(p)
      BY <2>1, UpdateJustified
    <2>2. CASE Flush
      BY <2>2, FlushJustified
    <2>3. CASE UNCHANGED exported
      BY <2>3
    <2>4. QED
      BY <2>1, <2>2, <2>3 DEF Next, Ignore, vars
  <1>3. (\A r \in exported : Justified(r)) => ReasonJustified
    BY DEF Justified, ReasonJustified
  <1>4. QED
    BY <1>1, <1>2, <1>3, TypeCorrect, PTL DEF Spec

-----------------------------------------------------------------------------
(* TCP states *)

\* Inductive form of StateWitnessed, for one flow that has counted a packet.
Witnessed(f) ==
  /\ f.fwd >= 1
  /\ f.proto = "UDP" => f.conn.state = "ACTIVE"
  /\ f.proto = "TCP" => f.conn.state # "ACTIVE"
  /\ f.conn.synack = "forward" => f.conn.midstream
  /\ f.conn.synack = "backward" => f.bwd >= 1
  /\ "backward" \in f.conn.fins => f.bwd >= 1
  /\ f.conn.state = "ESTABLISHED" /\ ~f.conn.midstream =>
       f.conn.synack = "backward" /\ f.fwd >= 2 /\ f.bwd >= 1
  /\ f.conn.state = "CLOSED" =>
       f.conn.fins = Directions /\ (RequiresFinalAck => Count(f) >= 3)

\* What Absorb does to the fields Witnessed speaks of.
LEMMA AbsorbFields ==
  ASSUME NEW f \in Flows, NEW p \in Packets, arrivals \in Nat
  PROVE  LET g == Absorb(f, p)
             dir == direction_of(f, p.src)
         IN /\ g.proto = f.proto
            /\ g.fwd = IF dir = "forward" THEN f.fwd + 1 ELSE f.fwd
            /\ g.bwd = IF dir = "backward" THEN f.bwd + 1 ELSE f.bwd
            /\ g.conn = IF p.proto = "TCP"
                           THEN NextConnection(f.conn, p.flags, dir, Count(f) = 0)
                           ELSE f.conn
  BY DEF Absorb, Flows

\* The first packet of a flow is a forward one.
LEMMA FirstWitnessed ==
  ASSUME NEW p \in Packets, arrivals \in Nat
  PROVE  Witnessed(Absorb(NewFlow(p), p))
  <1> DEFINE n == NewFlow(p)
             g == Absorb(n, p)
  <1>1. /\ n \in Flows /\ Count(n) = 0 /\ n.fwd = 0 /\ n.bwd = 0 /\ n.proto = p.proto
        /\ n.conn = [state |-> IF p.proto = "UDP" THEN "ACTIVE" ELSE "HANDSHAKE",
                     midstream |-> FALSE, synack |-> NoDirection, fins |-> {}]
        /\ direction_of(n, p.src) = "forward"
    BY NewFlowType DEF NewFlow, direction_of
  <1> DEFINE c == n.conn
             d == NextConnection(c, p.flags, "forward", Count(n) = 0)
  <1> HIDE DEF n
  <1>2. /\ g.proto = p.proto /\ g.fwd = 1 /\ g.bwd = 0
        /\ g.conn = IF p.proto = "TCP" THEN d ELSE c
    BY <1>1, AbsorbFields
  <1>3. p.proto \in {"TCP", "UDP"}
    BY PacketType
  <1>4. c \in Connection
    BY <1>1 DEF Flows
  <1>5. /\ c.fins = {} /\ c.synack = NoDirection /\ c.midstream = FALSE
        /\ c.state = IF p.proto = "UDP" THEN "ACTIVE" ELSE "HANDSHAKE"
    BY <1>1
  <1>6. Witnessed(g)
    <2> HIDE DEF c, g
    <2>1. ASSUME p.proto = "TCP" PROVE Witnessed(g)
      <3>1. c.state = "HANDSHAKE"
        BY <1>5, <2>1
      <3>2. d.state \in {"HANDSHAKE", "ESTABLISHED", "CLOSING", "RESET"}
        BY <1>1, <1>4, <1>5, <3>1 DEF NextConnection, OnSyn, OnFin, OnAck, OnBare, Terminal,
                                      Directions, Connection
      <3>3. d.synack = NoDirection \/ (d.synack = "forward" /\ d.midstream)
        BY <1>1, <1>4, <1>5, <3>1 DEF NextConnection, OnSyn, OnFin, OnAck, OnBare, Terminal,
                                      Connection
      <3>4. "backward" \notin d.fins
        BY <1>1, <1>4, <1>5, <3>1 DEF NextConnection, OnSyn, OnFin, OnAck, OnBare, Terminal,
                                      Connection
      <3>5. d.state = "ESTABLISHED" => d.midstream
        BY <1>1, <1>4, <1>5, <3>1 DEF NextConnection, OnSyn, OnFin, OnAck, OnBare, Terminal,
                                      Connection
      <3>6. g.conn = d /\ g.proto = "TCP" /\ g.fwd = 1
        BY <1>2, <2>1
      <3> HIDE DEF d
      <3>7. g.fwd >= 1 /\ g.proto = "TCP"
        BY <3>6
      <3>8. g.conn.state \in {"HANDSHAKE", "ESTABLISHED", "CLOSING", "RESET"}
        BY <3>2, <3>6
      <3>9. g.conn.synack # "backward" /\ "backward" \notin g.conn.fins
        BY <3>3, <3>4, <3>6 DEF NoDirection
      <3>10. g.conn.synack = "forward" => g.conn.midstream
        BY <3>3, <3>6 DEF NoDirection
      <3>11. g.conn.state = "ESTABLISHED" => g.conn.midstream
        BY <3>5, <3>6
      <3>12. QED
        BY <3>7, <3>8, <3>9, <3>10, <3>11 DEF Witnessed
    <2>2. ASSUME p.proto = "UDP" PROVE Witnessed(g)
      <3>1. g.conn = c /\ g.proto = "UDP" /\ g.fwd = 1 /\ c.state = "ACTIVE"
        BY <1>2, <1>5, <2>2
      <3>2. g.fwd >= 1
        BY <3>1
      <3>3. g.proto = "TCP" => g.conn.state # "ACTIVE"
        BY <3>1
      <3>4. g.conn.synack \notin Directions
        BY <1>5, <3>1 DEF NoDirection, Directions
      <3>5. "backward" \notin g.conn.fins
        BY <1>5, <3>1
      <3>6. g.conn.state = "ACTIVE"
        BY <1>5, <3>1
      <3>7. QED
        BY <3>2, <3>3, <3>4, <3>5, <3>6 DEF Witnessed, Directions
    <2>3. QED
      BY <1>3, <2>1, <2>2
  <1>7. QED
    BY <1>6 DEF g, n

\* Every further packet keeps what the state claims true.
LEMMA AbsorbWitnessed ==
  ASSUME NEW f \in Flows, Witnessed(f), NEW p \in Packets, p.proto = f.proto, arrivals \in Nat
  PROVE  Witnessed(Absorb(f, p))
  <1> DEFINE g == Absorb(f, p)
             dir == direction_of(f, p.src)
             c == f.conn
             d == NextConnection(c, p.flags, dir, FALSE)
  <1>1. f.fwd \in Nat /\ f.bwd \in Nat /\ c \in Connection /\ f.proto \in {"TCP", "UDP"}
    BY DEF Flows
  <1>2. Count(f) # 0 /\ Count(f) \in Nat
    BY <1>1 DEF Witnessed, Count
  <1>3. dir \in Directions
    BY DEF direction_of, Directions
  <1>4. /\ g.proto = f.proto
        /\ g.fwd = IF dir = "forward" THEN f.fwd + 1 ELSE f.fwd
        /\ g.bwd = IF dir = "backward" THEN f.bwd + 1 ELSE f.bwd
        /\ g.conn = IF p.proto = "TCP" THEN d ELSE c
    BY <1>2, AbsorbFields
  <1> HIDE DEF g, dir, c, d
  <1>5. g.fwd >= f.fwd /\ g.bwd >= f.bwd /\ g.fwd \in Nat /\ g.bwd \in Nat
        /\ Count(g) = Count(f) + 1
    BY <1>1, <1>3, <1>4 DEF Directions, Count
  <1>6. ASSUME p.proto = "UDP" PROVE Witnessed(g)
    BY <1>1, <1>2, <1>4, <1>5, <1>6 DEF Witnessed, c
  <1>7. ASSUME p.proto = "TCP" PROVE Witnessed(g)
    <2>1. c.state # "ACTIVE" => d.state # "ACTIVE"
      BY <1>1 DEF d, NextConnection, OnSyn, OnFin, OnAck, OnBare, Connection
    <2>2. d.synack = c.synack \/ (d.synack = "backward" /\ dir = "backward")
      BY <1>1 DEF d, NextConnection, OnSyn, OnFin, OnAck, OnBare, Connection
    <2>3. d.fins = c.fins \/ d.fins = c.fins \cup {dir}
      BY <1>1 DEF d, NextConnection, OnSyn, OnFin, OnAck, OnBare, Connection
    <2>4. d.midstream = c.midstream
      BY <1>1 DEF d, NextConnection, OnSyn, OnFin, OnAck, OnBare, Connection
    <2>5. d.state = "ESTABLISHED" =>
            \/ c.state = "ESTABLISHED"
            \/ c.synack \in Directions \ {dir}
      BY <1>1 DEF d, NextConnection, OnSyn, OnFin, OnAck, OnBare, Connection
    <2>6. d.state = "CLOSED" =>
            \/ c.state = "CLOSED" /\ d = c
            \/ d.fins = Directions /\ ~RequiresFinalAck
            \/ c.fins = Directions /\ d.fins = Directions
      BY <1>1 DEF d, NextConnection, OnSyn, OnFin, OnAck, OnBare, Connection
    <2>7. f.fwd >= 1 /\ g.fwd >= 1
      BY <1>1, <1>5 DEF Witnessed
    <2>8. g.proto = "TCP" /\ g.conn = d /\ c.state # "ACTIVE"
      BY <1>4, <1>7 DEF Witnessed, c
    <2>9. d.synack = "forward" => d.midstream
      BY <2>2, <2>4 DEF Witnessed, c
    <2>10. d.synack = "backward" => g.bwd >= 1
      BY <1>1, <1>4, <1>5, <2>2 DEF Witnessed, c
    <2>11. "backward" \in d.fins => g.bwd >= 1
      BY <1>1, <1>4, <1>5, <2>3 DEF Witnessed, c
    <2>12. d.state = "ESTABLISHED" /\ ~d.midstream =>
             d.synack = "backward" /\ g.fwd >= 2 /\ g.bwd >= 1
      <3> SUFFICES ASSUME d.state = "ESTABLISHED", ~d.midstream
                   PROVE  d.synack = "backward" /\ g.fwd >= 2 /\ g.bwd >= 1
        OBVIOUS
      <3>1. CASE c.state = "ESTABLISHED"
        BY <1>1, <1>5, <2>2, <2>4, <3>1 DEF Witnessed, c
      <3>2. CASE c.synack \in Directions \ {dir}
        <4>1. c.synack = "backward" /\ dir = "forward"
          BY <1>3, <2>4, <3>2 DEF Witnessed, c, Directions
        <4>2. g.fwd = f.fwd + 1 /\ f.bwd >= 1 /\ d.synack = "backward"
          BY <1>4, <2>2, <4>1 DEF Witnessed, c
        <4>3. QED
          BY <1>1, <1>5, <2>7, <4>2
      <3>3. QED
        BY <2>5, <3>1, <3>2
    <2>13. d.state = "CLOSED" => d.fins = Directions /\ (RequiresFinalAck => Count(g) >= 3)
      <3> SUFFICES ASSUME d.state = "CLOSED"
                   PROVE  d.fins = Directions /\ (RequiresFinalAck => Count(g) >= 3)
        OBVIOUS
      <3>1. CASE c.state = "CLOSED" /\ d = c
        BY <1>2, <1>5, <3>1 DEF Witnessed, c
      <3>2. CASE d.fins = Directions /\ ~RequiresFinalAck
        BY <3>2
      <3>3. CASE c.fins = Directions /\ d.fins = Directions
        <4>1. f.bwd >= 1
          BY <3>3 DEF Witnessed, c, Directions
        <4>2. Count(f) >= 2
          BY <1>1, <2>7, <4>1 DEF Count
        <4>3. QED
          BY <1>2, <1>5, <3>3, <4>2
      <3>4. QED
        BY <2>6, <3>1, <3>2, <3>3
    <2>14. QED
      BY <2>1, <2>7, <2>8, <2>9, <2>10, <2>11, <2>12, <2>13 DEF Witnessed
  <1>8. QED
    BY <1>1, <1>6, <1>7 DEF g

WitnessInv == \A f \in AllFlows : Witnessed(f)

\* A tracked flow has the protocol of the packets that find it.
LEMMA OwnProtocol ==
  ASSUME TypeOK, NEW p \in Packets, make_key(p.proto, p.src, p.dst) \in DOMAIN table
  PROVE  table[make_key(p.proto, p.src, p.dst)].proto = p.proto
  BY DEF TypeOK, KeyOf, make_key

LEMMA AttachWitnessed ==
  ASSUME TypeOK, WitnessInv, NEW p \in Packets, NEW k \in DOMAIN Attach(p)
  PROVE  Witnessed(Attach(p)[k])
  <1> DEFINE key == make_key(p.proto, p.src, p.dst)
  <1>1. arrivals \in Nat
    BY EnvironmentAssumption DEF TypeOK
  <1>2. \A j \in DOMAIN table : Witnessed(table[j]) /\ table[j] \in Flows
    BY DEF WitnessInv, AllFlows, TypeOK
  <1>3. Witnessed(Absorb(NewFlow(p), p))
    BY <1>1, FirstWitnessed
  <1>4. key \in DOMAIN table => Witnessed(Absorb(table[key], p))
    BY <1>1, <1>2, OwnProtocol, AbsorbWitnessed
  <1> HIDE DEF key
  <1>5. CASE k = key
    BY <1>3, <1>4, <1>5, AttachShape DEF key
  <1>6. CASE k # key
    <2>1. k \in DOMAIN table /\ Attach(p)[k] = table[k]
      BY <1>6, AttachShape DEF key
    <2>2. QED
      BY <1>2, <2>1
  <1>7. QED
    BY <1>5, <1>6

LEMMA UpdateWitnessed ==
  ASSUME TypeOK, WitnessInv, NEW p \in Packets, Update(p)
  PROVE  WitnessInv'
  <1> DEFINE now == IF p.ts > clock THEN p.ts ELSE clock
             left == {Export(table[d[1]], d[2], now) : d \in Displaced(p)}
  <1>1. now \in Nat
    BY PacketType DEF TypeOK
  <1>2. \A k \in DOMAIN Attach(p) : Witnessed(Attach(p)[k])
    BY AttachWitnessed
  <1>3. \A k \in DOMAIN table' : Witnessed(table'[k])
    <2>1. table' = Unexpired(Attach(p), now) \/ table' = Attach(p)
      BY DEF Update
    <2>2. \A k \in DOMAIN Unexpired(Attach(p), now) :
            k \in DOMAIN Attach(p) /\ Unexpired(Attach(p), now)[k] = Attach(p)[k]
      BY <1>1, UnexpiredType
    <2>3. QED
      BY <1>2, <2>1, <2>2
  <1>4. \A r \in left : Witnessed(r.flow)
    <2>1. ASSUME NEW d \in Displaced(p) PROVE Witnessed(Export(table[d[1]], d[2], now).flow)
      <3>1. d[1] \in DOMAIN table
        BY DisplacedType
      <3>2. QED
        BY <3>1 DEF WitnessInv, AllFlows, Export
    <2>2. QED
      BY <2>1
  <1>5. \A r \in SweptOut(Attach(p), now) : Witnessed(r.flow)
    BY <1>2 DEF SweptOut, Expired, Export
  <1>6. exported' \subseteq exported \cup left \cup SweptOut(Attach(p), now)
    BY DEF Update
  <1>7. \A r \in exported' : Witnessed(r.flow)
    <2> HIDE DEF left, now
    <2>1. \A r \in exported : Witnessed(r.flow)
      BY DEF WitnessInv, AllFlows
    <2>2. QED
      BY <1>4, <1>5, <1>6, <2>1
  <1>8. QED
    BY <1>3, <1>7 DEF WitnessInv, AllFlows

LEMMA NextWitnessed == TypeOK /\ WitnessInv /\ [Next]_vars => WitnessInv'
  <1> SUFFICES ASSUME TypeOK, WitnessInv, [Next]_vars PROVE WitnessInv'
    OBVIOUS
  <1>1. CASE \E p \in Packets : Update(p)
    BY <1>1, UpdateWitnessed
  <1>2. CASE Flush
    <2>1. DOMAIN table' = {}
      BY <1>2 DEF Flush, Restrict
    <2>2. \A r \in exported' : r \in exported \/ \E k \in DOMAIN table : r.flow = table[k]
      BY <1>2 DEF Flush, Export
    <2>3. QED
      BY <2>1, <2>2 DEF WitnessInv, AllFlows
  <1>3. CASE UNCHANGED <<table, exported>>
    BY <1>3 DEF WitnessInv, AllFlows
  <1>4. QED
    BY <1>1, <1>2, <1>3 DEF Next, Ignore, vars

\* What update() and next_state() keep of a connection is evidence of the packets
\* that were seen, in every reachable state.
THEOREM FlowsWitnessed == Spec => []WitnessInv
  <1>1. Init => WitnessInv
    BY DEF Init, WitnessInv, AllFlows
  <1>2. QED
    BY <1>1, NextWitnessed, TypeCorrect, PTL DEF Spec

\* The TCP state of every flow, active or exported, is backed by the packets
\* counted in it.
THEOREM StatesWitnessed == Spec => []StateWitnessed
  <1>1. TypeOK /\ WitnessInv => StateWitnessed
    <2> SUFFICES ASSUME TypeOK, WitnessInv, NEW f \in AllFlows
                 PROVE  /\ f.conn.state = "ESTABLISHED" /\ ~f.conn.midstream =>
                             f.conn.synack = "backward" /\ f.fwd >= 2 /\ f.bwd >= 1
                        /\ f.conn.state = "CLOSED" =>
                             /\ f.conn.fins = Directions /\ f.fwd >= 1 /\ f.bwd >= 1
                             /\ RequiresFinalAck => Count(f) >= 3
      BY DEF StateWitnessed
    <2>1. Witnessed(f)
      BY DEF WitnessInv
    <2>2. QED
      BY <2>1 DEF Witnessed, Directions
  <1>2. QED
    BY <1>1, FlowsWitnessed, TypeCorrect, PTL
=============================================================================
