---------------------------- MODULE FlowTracker ----------------------------
(***************************************************************************)
(* The flow tracker (src/flow/): the table of active flows, the event-time *)
(* clock, the exports.  One action per public operation of FlowTracker:    *)
(* Update (a packet event), Ignore (an event update() does not track),     *)
(* ManualSweep (sweep(now) with a time of the caller's), Flush; and        *)
(* UpdateRaises, an update() that @safe_stage cuts short.  Spec holds the  *)
(* runs in which no update() raises, SpecWithFailures the others as well.  *)
(*                                                                         *)
(* Abstractions.  A 5-tuple is a protocol and the set of its endpoints,    *)
(* which is what make_key's sorting computes.  A flow id, a hash of the    *)
(* key and the start time, is that pair.  OrderedDict's order is each      *)
(* entry's "touched", the number of the update that last moved the entry   *)
(* to the end.  A flow's byte and flag counters move with its packet       *)
(* counters and are left out.  "born", "exported", "arrivals" and "opened" *)
(* are history: no guard reads them except the bound MaxPackets.           *)
(***************************************************************************)
EXTENDS TcpState, Integers, FiniteSets, FiniteSetsExt, Functions

CONSTANTS Endpoints,         \* <<ip, port>> pairs
          Channels,          \* the senders and receivers seen, per protocol
          FlagSets,          \* the flag sets of TCP packets
          Apps,              \* app_protocol values of events
          Times,             \* event timestamps
          MaxLateness,       \* how far behind the clock a packet may be
          UdpTimeout, HandshakeTimeout, LingerTimeout, IdleTimeout,
          SweepInterval,
          MaxActiveFlows,
          MaxPackets,        \* bound on the number of tracked packets
          None               \* Python's None

ASSUME EnvironmentAssumption ==
  /\ Channels \subseteq [proto : {"TCP", "UDP"}, src : Endpoints, dst : Endpoints]
  /\ FlagSets \subseteq SUBSET TcpFlags
  /\ Times \subseteq Nat
  /\ MaxLateness \in Nat
  /\ MaxPackets \in Nat

\* The configuration as _get, _get_sweep_interval and _get_max_active_flows
\* return it: positive numbers, whatever the file holds.
ASSUME ConfigAssumption ==
  /\ UdpTimeout \in Nat \ {0}
  /\ HandshakeTimeout \in Nat \ {0}
  /\ LingerTimeout \in Nat \ {0}
  /\ IdleTimeout \in Nat \ {0}
  /\ SweepInterval \in Nat \ {0}
  /\ MaxActiveFlows \in Nat \ {0}

ASSUME NoneAssumption == None \notin Nat /\ None \notin TcpStates \cup {"ACTIVE"}

VARIABLES table,      \* the active flows, by key
          clock,      \* event-time watermark
          lastSweep,  \* watermark of the last periodic sweep, or None
          event,      \* flow_id, direction and flow_state of the last event
          exported,   \* what on_export was called with
          arrivals,   \* number of tracked packets so far
          opened,     \* number of flows created so far
          running     \* until the flush at the end of the capture

vars == <<table, clock, lastSweep, event, exported, arrivals, opened, running>>

-----------------------------------------------------------------------------
(* Packets, keys and flows *)

Packets ==
  { [proto |-> c.proto, src |-> c.src, dst |-> c.dst, ts |-> t, flags |-> fs, app |-> a] :
      c \in {d \in Channels : d.proto = "TCP"}, t \in Times, fs \in FlagSets, a \in Apps }
  \cup
  { [proto |-> c.proto, src |-> c.src, dst |-> c.dst, ts |-> t, flags |-> {}, app |-> a] :
      c \in {d \in Channels : d.proto = "UDP"}, t \in Times, a \in Apps }

Keys == [proto : {"TCP", "UDP"}, ends : SUBSET Endpoints]

\* Mutant: endpoints are not sorted, so the two directions get two keys.
DirectedKey(proto, a, b) == [proto |-> proto, ends |-> {a}]

make_key(proto, a, b) == [proto |-> proto, ends |-> {a, b}]

make_flow_id(key, start) == <<key, start>>

direction_of(flow, src) == IF flow.a = src THEN "forward" ELSE "backward"

Flows == [proto : {"TCP", "UDP"}, a : Endpoints, b : Endpoints, id : Keys \X Nat, start : Nat, last : Nat,
          fwd : Nat, bwd : Nat, conn : Connection, app : Apps \cup {None},
          born : Nat, touched : Nat]

KeyOf(flow) == make_key(flow.proto, flow.a, flow.b)

Count(flow) == flow.fwd + flow.bwd   \* packet_count

NewFlow(p) ==
  LET key == make_key(p.proto, p.src, p.dst)
  IN [proto |-> p.proto, a |-> p.src, b |-> p.dst, id |-> make_flow_id(key, p.ts),
      start |-> p.ts, last |-> p.ts, fwd |-> 0, bwd |-> 0,
      conn |-> [state |-> IF p.proto = "UDP" THEN "ACTIVE" ELSE "HANDSHAKE",
                midstream |-> FALSE, synack |-> NoDirection, fins |-> {}],
      app |-> None, born |-> arrivals + 1, touched |-> arrivals + 1]

-----------------------------------------------------------------------------
(* Timeouts *)

timeout_for(flow) ==
  IF flow.proto = "UDP" THEN UdpTimeout
  ELSE IF flow.conn.state = "HANDSHAKE" THEN HandshakeTimeout
  ELSE IF flow.conn.state \in Terminal THEN LingerTimeout
  ELSE IdleTimeout

\* Mutant: a flow expires when its timeout has just been reached.
ExpiredOneEarly(flow, now) == now - flow.last >= timeout_for(flow)

is_expired(flow, now) == now - flow.last > timeout_for(flow)

\* Mutant: the reason of a flow that did not end is missing.
CloseReasonMissing(flow) ==
  CASE flow.conn.state = "CLOSED" -> "tcp_closed"
    [] flow.conn.state = "RESET" -> "tcp_reset"
    [] OTHER -> "none"

get_close_reason(flow) ==
  CASE flow.conn.state = "CLOSED" -> "tcp_closed"
    [] flow.conn.state = "RESET" -> "tcp_reset"
    [] flow.conn.state = "HANDSHAKE" -> "handshake_timeout"
    [] OTHER -> "idle_timeout"

-----------------------------------------------------------------------------
(* What update() does to one flow *)

\* Specific protocol > UNKNOWN > None, the first specific one stays.
ResolveApp(current, seen) ==
  IF seen # None /\ (current = None \/ (current = "UNKNOWN" /\ seen # "UNKNOWN"))
    THEN seen ELSE current

\* State machine first, so that packet_count = 0 marks the first packet; then
\* the statistics.
Absorb(flow, p) ==
  LET dir == direction_of(flow, p.src)
  IN [flow EXCEPT !.conn = IF p.proto = "TCP"
                             THEN NextConnection(@, p.flags, dir, Count(flow) = 0) ELSE @,
                  !.start = IF p.ts < @ THEN p.ts ELSE @,
                  !.last = IF p.ts > @ THEN p.ts ELSE @,
                  !.fwd = IF dir = "forward" THEN @ + 1 ELSE @,
                  !.bwd = IF dir = "backward" THEN @ + 1 ELSE @,
                  !.app = ResolveApp(@, p.app),
                  !.touched = arrivals + 1]

-----------------------------------------------------------------------------
(* The table *)

Export(flow, reason, now) == [flow |-> flow, reason |-> reason, at |-> now]

With(tab, key, flow) == [k \in DOMAIN tab \cup {key} |-> IF k = key THEN flow ELSE tab[k]]

\* Mutant: the entry last moved to the end is taken for the oldest.
Newest(tab) == CHOOSE k \in DOMAIN tab : \A j \in DOMAIN tab : tab[j].touched <= tab[k].touched

oldest(tab) == CHOOSE k \in DOMAIN tab : \A j \in DOMAIN tab : tab[k].touched <= tab[j].touched

Expired(tab, now) == {k \in DOMAIN tab : is_expired(tab[k], now)}

PureSyn(p) == "SYN" \in p.flags /\ "ACK" \notin p.flags

ReusesPort(flow, p) ==
  p.proto = "TCP" /\ PureSyn(p) /\ flow.conn.state \in Terminal

Full(tab) == Cardinality(DOMAIN tab) >= MaxActiveFlows

\* What leaves the table before packet p is attached, and why: its own flow
\* when that one timed out or ended and is being reopened, the oldest flow
\* when p opens a flow in a full table.  The code's eviction loop runs at most
\* once, and not after its own flow left: the table holds at most
\* MaxActiveFlows entries (CapacityBound).
Displaced(p) ==
  LET key == make_key(p.proto, p.src, p.dst)
  IN IF key \in DOMAIN table
       THEN IF is_expired(table[key], p.ts)
              THEN {<<key, get_close_reason(table[key])>>}
            ELSE IF ReusesPort(table[key], p) THEN {<<key, "port_reuse">>}
            ELSE {}
     ELSE IF Full(table) THEN {<<oldest(table), "evicted">>}
     ELSE {}

\* The flows that stay when p is attached, and p's own flow, found or made.
Remaining(p) == Restrict(table, DOMAIN table \ {d[1] : d \in Displaced(p)})

Own(p) ==
  LET key == make_key(p.proto, p.src, p.dst)
  IN IF key \in DOMAIN Remaining(p) THEN Remaining(p)[key] ELSE NewFlow(p)

\* The table once p is counted, before the periodic sweep.
Attach(p) == With(Remaining(p), make_key(p.proto, p.src, p.dst), Absorb(Own(p), p))

\* Mutant: every update sweeps.
SweepDueAlways(now) == lastSweep # None

\* Mutant: the interval must be exceeded, not reached.
SweepDueLater(now) == lastSweep # None /\ now - lastSweep > SweepInterval

SweepDue(now) == lastSweep # None /\ now - lastSweep >= SweepInterval

-----------------------------------------------------------------------------
(* Operations *)

Untagged == [flow_id |-> None, direction |-> None, flow_state |-> None]

Init ==
  /\ table = [k \in {} |-> None]
  /\ clock = 0
  /\ lastSweep = None
  /\ event = Untagged
  /\ exported = {}
  /\ arrivals = 0
  /\ opened = 0
  /\ running = TRUE

\* Mutant: the sweep removes the expired flows without exporting them.
SweptOutUnseen(tab, now) == {}

SweptOut(tab, now) ==
  {Export(tab[k], get_close_reason(tab[k]), now) : k \in Expired(tab, now)}

Unexpired(tab, now) == Restrict(tab, DOMAIN tab \ Expired(tab, now))

Tag(flow, p) == [flow_id |-> flow.id, direction |-> direction_of(flow, p.src),
                 flow_state |-> flow.conn.state]

\* update(event) for an event that is tracked.
Update(p) ==
  /\ running
  /\ arrivals < MaxPackets
  /\ p.ts >= clock - MaxLateness
  /\ LET now    == IF p.ts > clock THEN p.ts ELSE clock
         filled == Attach(p)
         key    == make_key(p.proto, p.src, p.dst)
         left   == {Export(table[d[1]], d[2], now) : d \in Displaced(p)}
     IN /\ clock' = now
        /\ event' = Tag(filled[key], p)
        /\ opened' = IF filled[key].born = arrivals + 1 THEN opened + 1 ELSE opened
        /\ \/ /\ SweepDue(now)
              /\ table' = Unexpired(filled, now)
              /\ exported' = exported \cup left \cup SweptOut(filled, now)
              /\ lastSweep' = now
           \/ /\ ~SweepDue(now)
              /\ table' = filled
              /\ exported' = exported \cup left
              /\ lastSweep' = IF lastSweep = None THEN now ELSE lastSweep
  /\ arrivals' = arrivals + 1
  /\ UNCHANGED running

\* The packet's flow and the event's tags at the places where update() may
\* raise once the flow is found or made: before and after its state moved, its
\* times and its packet counters.
Halfway(flow, p) ==
  LET whole   == Absorb(flow, p)
      found   == [flow EXCEPT !.touched = whole.touched]
      moved   == [found EXCEPT !.conn = whole.conn]
      timed   == [moved EXCEPT !.start = whole.start, !.last = whole.last]
      counted == [timed EXCEPT !.fwd = whole.fwd, !.bwd = whole.bwd]
      tag     == Tag(whole, p)
      half    == [tag EXCEPT !.flow_state = None]
  IN {<<found, Untagged>>, <<found, half>>, <<moved, half>>, <<moved, tag>>,
      <<timed, tag>>, <<counted, tag>>, <<whole, tag>>}

\* It raises before its flow is found or made: some of what it displaces may be
\* out.
RaisesBefore(p, now) ==
  \E D \in SUBSET Displaced(p) :
    /\ table' = Restrict(table, DOMAIN table \ {d[1] : d \in D})
    /\ exported' = exported \cup {Export(table[d[1]], d[2], now) : d \in D}
    /\ event' = Untagged
    /\ UNCHANGED opened

\* It raises later: some of what its sweep would export may be out, once the
\* packet is counted.
RaisesAfter(p, now) ==
  \E h \in Halfway(Own(p), p) :
    LET filled == With(Remaining(p), make_key(p.proto, p.src, p.dst), h[1])
    IN \E out \in SUBSET Expired(filled, now) :
         /\ out # {} => SweepDue(now) /\ h[1] = Absorb(Own(p), p)
         /\ table' = Restrict(filled, DOMAIN filled \ out)
         /\ exported' = exported \cup {Export(table[d[1]], d[2], now) : d \in Displaced(p)} \cup
              {Export(filled[k], get_close_reason(filled[k]), now) : k \in out}
         /\ event' = h[2]
         /\ opened' = IF h[1].born = arrivals + 1 THEN opened + 1 ELSE opened

\* update(event) of a tracked event raises after the clock moved.  Nothing is
\* undone, and lastSweep stays behind.  (Raising before the clock moves leaves
\* what Ignore leaves.)
UpdateRaises(p) ==
  /\ running
  /\ arrivals < MaxPackets
  /\ p.ts >= clock - MaxLateness
  /\ LET now == IF p.ts > clock THEN p.ts ELSE clock
     IN /\ clock' = now
        /\ RaisesBefore(p, now) \/ RaisesAfter(p, now)
  /\ arrivals' = arrivals + 1
  /\ UNCHANGED <<lastSweep, running>>

\* update(event) for an event it does not track: marked invalid, without a
\* usable timestamp, neither TCP nor UDP, or without addresses or ports.
Ignore ==
  /\ running
  /\ event' = Untagged
  /\ UNCHANGED <<table, clock, lastSweep, exported, arrivals, opened, running>>

\* sweep(now); the pipeline only ever reaches sweep() from update().
ManualSweep(now) ==
  /\ running
  /\ table' = Unexpired(table, now)
  /\ exported' = exported \cup SweptOut(table, now)
  /\ lastSweep' = IF now < clock THEN now ELSE clock
  /\ UNCHANGED <<clock, event, arrivals, opened, running>>

flush_reason(flow) ==
  IF flow.conn.state \in Terminal THEN get_close_reason(flow) ELSE "flush"

\* flush(), called once, when the capture has ended.
Flush ==
  /\ running
  /\ running' = FALSE
  /\ exported' = exported \cup
       {Export(table[k], flush_reason(table[k]), clock) : k \in DOMAIN table}
  /\ table' = Restrict(table, {})
  /\ UNCHANGED <<clock, lastSweep, event, arrivals, opened>>

Next ==
  \/ \E p \in Packets : Update(p)
  \/ Ignore
  \/ Flush

Spec == Init /\ [][Next]_vars

\* The class used with sweep() called by hand as well, at any time.
NextWithSweeps == Next \/ \E now \in Times : ManualSweep(now)

SpecWithSweeps == Init /\ [][NextWithSweeps]_vars

\* The runs in which some updates raise.
NextWithFailures == Next \/ \E p \in Packets : UpdateRaises(p)

SpecWithFailures == Init /\ [][NextWithFailures]_vars

-----------------------------------------------------------------------------
(* Properties *)

AllFlows == {table[k] : k \in DOMAIN table} \cup {r.flow : r \in exported}

Reasons == {"tcp_closed", "tcp_reset", "idle_timeout", "handshake_timeout",
            "port_reuse", "evicted", "flush"}

\* Type invariant: a table of flow records under their own keys, and exports
\* that carry one of the seven close reasons.
TypeOK ==
  /\ DOMAIN table \subseteq Keys
  /\ \A k \in DOMAIN table : table[k] \in Flows /\ KeyOf(table[k]) = k
  /\ clock \in Nat
  /\ lastSweep \in Nat \cup {None}
  /\ event = Untagged \/ event \in [flow_id : Keys \X Nat, direction : Directions,
                                    flow_state : TcpStates \cup {"ACTIVE", None}]
  /\ exported \subseteq [flow : Flows, reason : Reasons, at : Nat]
  /\ arrivals \in 0..MaxPackets
  /\ opened \in 0..arrivals
  /\ running \in BOOLEAN

\* Every flow opened is either active or exported, never both and never lost,
\* and every tracked packet is counted in exactly one of them, whatever
\* expiry, reuse, eviction, sweep and flush do within one update.
Conservation ==
  /\ opened = Cardinality(DOMAIN table) + Cardinality(exported)
  /\ arrivals = MapThenSumSet(LAMBDA k : Count(table[k]), DOMAIN table)
                 + MapThenSumSet(LAMBDA r : Count(r.flow), exported)

\* The table never holds more than max_active_flows flows, however expiry,
\* reuse, eviction and creation fall together.
CapacityBound == Cardinality(DOMAIN table) <= MaxActiveFlows

\* Two flows of one 5-tuple never overlap: the later one opens after the last
\* packet of the earlier one was counted, so that reuse of a port, expiry and
\* eviction split a conversation at one point.
FlowsOfKeyDisjoint ==
  \A f, g \in AllFlows :
    f.proto = g.proto /\ {f.a, f.b} = {g.a, g.b} /\ f.born < g.born =>
      f.touched < g.born

\* The reason written to flows.jsonl agrees with the state the flow ended in,
\* and a flow exported for a timeout had really been idle longer than the
\* timeout of that state.
ReasonJustified ==
  \A r \in exported :
    LET state == r.flow.conn.state
    IN /\ r.reason = "tcp_closed" => state = "CLOSED"
       /\ r.reason = "tcp_reset" => state = "RESET"
       /\ r.reason = "handshake_timeout" => state = "HANDSHAKE"
       /\ r.reason = "idle_timeout" => state \in {"ESTABLISHED", "CLOSING", "ACTIVE"}
       /\ r.reason = "port_reuse" => state \in Terminal
       /\ r.reason = "flush" => state \notin Terminal
       /\ r.reason \in {"handshake_timeout", "idle_timeout"} =>
            r.at - r.flow.last > timeout_for(r.flow)

\* No periodic sweep is overdue: a late packet, which leaves the clock where it
\* is, cannot set one off.
SweepInTime == lastSweep # None => clock - lastSweep < SweepInterval

\* Between updates the periodic sweep is never overdue, while none raises.
SweepFresh ==
  /\ lastSweep = None <=> arrivals = 0
  /\ lastSweep # None => lastSweep <= clock
  /\ SweepInTime

\* With packets at most MaxLateness late, no flow outstays its timeout by more
\* than one sweep interval, though flows are only looked at when swept or when
\* a packet of their own arrives, and a packet may shorten the timeout.
BoundedStaleness ==
  \A k \in DOMAIN table :
    LET f == table[k]
        slack == IF timeout_for(f) > MaxLateness THEN timeout_for(f) ELSE MaxLateness
    IN clock - f.last < slack + SweepInterval

\* What a state claims was seen on the wire: an established flow that was
\* followed from its SYN has the SYN/ACK of the other side and two packets of
\* the opener; a closed one has a FIN of each side, and the final ACK when the
\* configuration asks for it.
StateWitnessed ==
  \A f \in AllFlows :
    /\ f.conn.state = "ESTABLISHED" /\ ~f.conn.midstream =>
         f.conn.synack = "backward" /\ f.fwd >= 2 /\ f.bwd >= 1
    /\ f.conn.state = "CLOSED" =>
         /\ f.conn.fins = Directions /\ f.fwd >= 1 /\ f.bwd >= 1
         /\ RequiresFinalAck => Count(f) >= 3

\* What the engine derives a flow's roles and protocol from is settled by the
\* flow's first packets: while the flow is active its initiator, its id and
\* its midstream flag never change, an ended connection stays as it ended, and
\* a recognised application protocol is not replaced.
IdentityStable ==
  [][\A k \in DOMAIN table \cap DOMAIN table' :
       table[k].born = table'[k].born =>
         LET f == table[k]
             g == table'[k]
         IN /\ g.id = f.id /\ g.a = f.a /\ g.conn.midstream = f.conn.midstream
            /\ f.conn.state \in Terminal => g.conn = f.conn
            /\ f.app \notin {None, "UNKNOWN"} => g.app = f.app]_vars

\* The flow a packet was just counted in is still in the table when update()
\* returns, under the flow_id given to the event: neither the eviction nor the
\* sweep of the same update takes it, so that the engine's lookup finds it.
\* This is about runs in which no update raises: one that raised may have left
\* a sweep overdue, which the next packet sets off, late or not.
OwnFlowSurvives ==
  [][arrivals' > arrivals =>
       \E k \in DOMAIN table' : /\ table'[k].id = event'.flow_id
                               /\ table'[k].touched = arrivals']_vars

\* Whatever raised before, an update that completes leaves no sweep overdue,
\* and it removes the flow of its own packet only when one was overdue, so
\* that the packet after it is safe again.
OwnFlowLostOnlyOverdue ==
  [][\A p \in Packets : Update(p) =>
       /\ SweepInTime'
       /\ SweepInTime =>
            \E k \in DOMAIN table' : /\ table'[k].id = event'.flow_id
                                    /\ table'[k].touched = arrivals']_vars

\* A flow is evicted only from a full table, by a packet of another 5-tuple,
\* and it is the one that waited longest for a packet.
EvictsLeastRecent ==
  [][\A r \in exported' \ exported : r.reason = "evicted" =>
       /\ Cardinality(DOMAIN table) = MaxActiveFlows
       /\ event'.flow_id[1] # KeyOf(r.flow)
       /\ \A k \in DOMAIN table' : table'[k].touched > r.flow.touched]_vars

-----------------------------------------------------------------------------
(* What the documentation says and the code does not do *)

\* "distinct on port reuse" (make_flow_id): two flows never share a flow_id.
\* They do when a port is reused within the microsecond of the first flow's
\* start, or by a late packet.
FlowIdsDistinct ==
  \A f, g \in AllFlows : f.born # g.born => f.id # g.id

\* "A packet later than clock does not make a flow expire" (the README's limits):
\* when the packet that opens a flow is older than the clock, the update
\* exports no flow for a timeout.
LatePacketExpiresNothing ==
  [][\A k \in DOMAIN table' :
       arrivals' > arrivals /\ table'[k].born = arrivals' /\ table'[k].start < clock =>
         \A r \in exported' \ exported :
           r.reason \notin {"handshake_timeout", "idle_timeout"}]_vars

-----------------------------------------------------------------------------
(* Refinement *)

Borns(tab) == {tab[k].born : k \in DOMAIN tab}

FlowBorn(tab, b) == tab[CHOOSE k \in DOMAIN tab : tab[k].born = b]

LiveOf(tab) == [b \in Borns(tab) |-> Count(FlowBorn(tab, b))]

ClosedOf(exports) == {[flow |-> r.flow.born, packets |-> Count(r.flow)] : r \in exports}

Ledger == INSTANCE FlowLedger
            WITH MaxLive <- MaxActiveFlows, live <- LiveOf(table),
                 closed <- ClosedOf(exported), packets <- arrivals

\* The tracker implements the ledger: whatever a single update does to the
\* table, seen from flows.jsonl it closes some other flows, each once and
\* with all its packets, and counts its packet in one live flow.
ImplementsLedger == Ledger!LSpec
=============================================================================
