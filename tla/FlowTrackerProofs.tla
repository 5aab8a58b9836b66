------------------------- MODULE FlowTrackerProofs -------------------------
(***************************************************************************)
(* Theorems of FlowTracker, for every configuration, every set of          *)
(* endpoints, packets and timestamps, and tables of any size.              *)
(***************************************************************************)
EXTENDS FlowTracker, FiniteSetTheorems, WellFoundedInduction, TLAPS

-----------------------------------------------------------------------------
(* Types of the operators *)

\* The state machine maps connections to connections.
LEMMA NextConnectionType ==
  ASSUME NEW c \in Connection, NEW flags \in SUBSET TcpFlags,
         NEW dir \in Directions, NEW first \in BOOLEAN
  PROVE  NextConnection(c, flags, dir, first) \in Connection
  <1>1. OnSyn(c, flags, dir, first) \in Connection
    BY DEF OnSyn, Connection, TcpStates
  <1>2. OnFin(c, dir, first) \in Connection
    BY DEF OnFin, Connection, TcpStates
  <1>3. OnAck(c, dir, first) \in Connection
    BY DEF OnAck, Connection, TcpStates
  <1>4. OnBare(c, first) \in Connection
    BY DEF OnBare, Connection, TcpStates
  <1>5. [c EXCEPT !.state = "RESET"] \in Connection
    BY DEF Connection, TcpStates
  <1>6. QED
    BY <1>1, <1>2, <1>3, <1>4, <1>5 DEF NextConnection

\* The fields of a packet.
LEMMA PacketType ==
  ASSUME NEW p \in Packets
  PROVE  /\ p.proto \in {"TCP", "UDP"} /\ p.src \in Endpoints /\ p.dst \in Endpoints
         /\ p.ts \in Nat /\ p.flags \in SUBSET TcpFlags /\ p.app \in Apps
  BY EnvironmentAssumption DEF Packets

LEMMA KeyType ==
  ASSUME NEW proto \in {"TCP", "UDP"}, NEW a \in Endpoints, NEW b \in Endpoints
  PROVE  make_key(proto, a, b) \in Keys
  BY DEF make_key, Keys

\* A new flow is well typed, and filed under the key of the packet that opens
\* it.
LEMMA NewFlowType ==
  ASSUME NEW p \in Packets, arrivals \in Nat
  PROVE  /\ NewFlow(p) \in Flows
         /\ KeyOf(NewFlow(p)) = make_key(p.proto, p.src, p.dst)
         /\ NewFlow(p).last = p.ts
         /\ NewFlow(p).born = arrivals + 1
         /\ Count(NewFlow(p)) = 0
  <1> DEFINE key == make_key(p.proto, p.src, p.dst)
             conn == [state |-> IF p.proto = "UDP" THEN "ACTIVE" ELSE "HANDSHAKE",
                      midstream |-> FALSE, synack |-> NoDirection, fins |-> {}]
  <1>1. conn \in Connection
    BY DEF Connection, TcpStates
  <1>2. key \in Keys
    BY PacketType, KeyType
  <1>3. make_flow_id(key, p.ts) \in Keys \X Nat
    BY <1>2, PacketType DEF make_flow_id
  <1> HIDE DEF conn, key
  <1>4. NewFlow(p) = [proto |-> p.proto, a |-> p.src, b |-> p.dst,
                      id |-> make_flow_id(key, p.ts), start |-> p.ts, last |-> p.ts,
                      fwd |-> 0, bwd |-> 0, conn |-> conn, app |-> None,
                      born |-> arrivals + 1, touched |-> arrivals + 1]
    BY DEF NewFlow, conn, key
  <1>5. NewFlow(p) \in Flows
    BY <1>1, <1>3, <1>4, PacketType DEF Flows
  <1>6. QED
    BY <1>4, <1>5 DEF KeyOf, Count, key

\* Counting a packet keeps a flow well typed and under its key, and moves
\* last_seen forward to the packet's time at least.
LEMMA AbsorbType ==
  ASSUME NEW f \in Flows, NEW p \in Packets, arrivals \in Nat
  PROVE  /\ Absorb(f, p) \in Flows
         /\ KeyOf(Absorb(f, p)) = KeyOf(f)
         /\ Absorb(f, p).id = f.id
         /\ Absorb(f, p).a = f.a
         /\ Absorb(f, p).born = f.born
         /\ Absorb(f, p).touched = arrivals + 1
         /\ Absorb(f, p).last >= p.ts
         /\ Absorb(f, p).last >= f.last
         /\ Count(Absorb(f, p)) = Count(f) + 1
  <1> DEFINE dir == direction_of(f, p.src)
             conn == IF p.proto = "TCP"
                       THEN NextConnection(f.conn, p.flags, dir, Count(f) = 0) ELSE f.conn
             app == ResolveApp(f.app, p.app)
             g == Absorb(f, p)
  <1>1. dir \in Directions
    BY DEF direction_of, Directions
  <1>2. f.conn \in Connection /\ f.app \in Apps \cup {None}
    BY DEF Flows
  <1>3. conn \in Connection
    BY <1>1, <1>2, PacketType, NextConnectionType
  <1>4. app \in Apps \cup {None}
    BY <1>2, PacketType DEF ResolveApp
  <1> HIDE DEF conn, app, dir
  <1> DEFINE start == IF p.ts < f.start THEN p.ts ELSE f.start
             last == IF p.ts > f.last THEN p.ts ELSE f.last
             fwd == IF dir = "forward" THEN f.fwd + 1 ELSE f.fwd
             bwd == IF dir = "backward" THEN f.bwd + 1 ELSE f.bwd
  <1>5. g = [f EXCEPT !.conn = conn, !.start = start, !.last = last,
                      !.fwd = fwd, !.bwd = bwd, !.app = app, !.touched = arrivals + 1]
    BY DEF Absorb, conn, app, dir
  <1>a. start \in Nat /\ last \in Nat /\ last >= p.ts /\ last >= f.last
    BY PacketType DEF Flows
  <1>b. fwd \in Nat /\ bwd \in Nat /\ fwd + bwd = f.fwd + f.bwd + 1
    BY <1>1 DEF Flows, Directions
  <1> HIDE DEF g, start, last, fwd, bwd
  <1>c. /\ f.proto \in {"TCP", "UDP"} /\ f.a \in Endpoints /\ f.b \in Endpoints
        /\ f.id \in Keys \X Nat /\ f.born \in Nat
    BY DEF Flows
  <1>d. g = [proto |-> f.proto, a |-> f.a, b |-> f.b, id |-> f.id, start |-> start,
             last |-> last, fwd |-> fwd, bwd |-> bwd, conn |-> conn, app |-> app,
             born |-> f.born, touched |-> arrivals + 1]
    BY <1>5 DEF Flows
  <1>6. g \in Flows
    BY <1>3, <1>4, <1>a, <1>b, <1>c, <1>d DEF Flows
  <1>7. /\ g.proto = f.proto /\ g.a = f.a /\ g.b = f.b /\ g.id = f.id /\ g.born = f.born
        /\ g.touched = arrivals + 1 /\ g.last >= p.ts /\ g.last >= f.last
    BY <1>5, <1>a DEF Flows
  <1>8. g.fwd + g.bwd = f.fwd + f.bwd + 1
    BY <1>5, <1>b DEF Flows
  <1>9. QED
    BY <1>6, <1>7, <1>8 DEF KeyOf, Count, g

-----------------------------------------------------------------------------
(* The table operators *)

\* The entry with the smallest "touched" exists.
LEMMA OldestType ==
  ASSUME NEW tab, DOMAIN tab # {}, \A k \in DOMAIN tab : tab[k].touched \in Nat
  PROVE  /\ oldest(tab) \in DOMAIN tab
         /\ \A j \in DOMAIN tab : tab[oldest(tab)].touched <= tab[j].touched
  <1> DEFINE T == {tab[k].touched : k \in DOMAIN tab}
             R == OpToRel(<, Nat)
  <1>1. T \subseteq Nat /\ T # {}
    OBVIOUS
  <1>2. \E x \in T : \A y \in T : ~ (<<y, x>> \in R)
    <2> HIDE DEF T
    <2>1. IsWellFoundedOn(R, Nat)
      BY NatLessThanWellFounded
    <2> HIDE DEF R
    <2>2. QED
      BY <1>1, <2>1, WFMin
  <1>3. \A m, n \in Nat : <<m, n>> \in R <=> m < n
    BY DEF OpToRel
  <1>4. PICK x \in T : \A y \in T : x <= y
    <2>1. PICK x \in T : \A y \in T : ~ (<<y, x>> \in R)
      BY <1>2
    <2> HIDE DEF R, T
    <2>2. ASSUME NEW y \in T PROVE x <= y
      <3>1. x \in Nat /\ y \in Nat
        BY <1>1
      <3>2. ~ (y < x)
        BY <1>3, <2>1, <3>1
      <3>3. QED
        BY <3>1, <3>2
    <2>3. QED
      BY <2>2
  <1>5. PICK k \in DOMAIN tab : x = tab[k].touched
    BY <1>4
  <1>6. \A j \in DOMAIN tab : tab[k].touched <= tab[j].touched
    BY <1>4, <1>5
  <1>7. QED
    BY <1>6 DEF oldest

\* What an update displaces is in the table, under one of the close reasons.
LEMMA DisplacedType ==
  ASSUME TypeOK, NEW p \in Packets, NEW d \in Displaced(p)
  PROVE  d[1] \in DOMAIN table /\ d[2] \in Reasons
  <1> DEFINE key == make_key(p.proto, p.src, p.dst)
  <1>1. CASE key \in DOMAIN table
    <2> DEFINE f == table[key]
    <2>1. get_close_reason(f) \in Reasons
      BY DEF get_close_reason, Reasons
    <2>2. d = <<key, get_close_reason(f)>> \/ d = <<key, "port_reuse">>
      BY <1>1 DEF Displaced
    <2> QED
      BY <1>1, <2>1, <2>2 DEF Reasons
  <1>2. CASE key \notin DOMAIN table
    <2>1. Full(table) /\ d = <<oldest(table), "evicted">>
      BY <1>2 DEF Displaced
    <2>2. DOMAIN table # {}
      BY <2>1, FS_EmptySet, ConfigAssumption DEF Full
    <2>3. \A k \in DOMAIN table : table[k].touched \in Nat
      BY DEF TypeOK, Flows
    <2>4. oldest(table) \in DOMAIN table
      BY <2>2, <2>3, OldestType
    <2> QED
      BY <2>1, <2>4 DEF Reasons
  <1>3. QED
    BY <1>1, <1>2

\* The keys displaced by p.
Gone(p) == {d[1] : d \in Displaced(p)}

\* The table with the packet's own flow in it: the flows not displaced, and
\* that one.
LEMMA WithShape ==
  ASSUME TypeOK, NEW p \in Packets, NEW flow
  PROVE  LET key    == make_key(p.proto, p.src, p.dst)
             filled == With(Remaining(p), key, flow)
         IN /\ key \in Keys
            /\ Gone(p) \subseteq DOMAIN table
            /\ DOMAIN filled = (DOMAIN table \ Gone(p)) \cup {key}
            /\ filled[key] = flow
            /\ \A k \in DOMAIN filled \ {key} : k \in DOMAIN table \ Gone(p) /\ filled[k] = table[k]
  <1> DEFINE key == make_key(p.proto, p.src, p.dst)
             kept == Remaining(p)
  <1>1. key \in Keys
    BY PacketType, KeyType
  <1>2. Gone(p) \subseteq DOMAIN table
    BY DisplacedType DEF Gone
  <1>3. DOMAIN kept = DOMAIN table \ Gone(p) /\ \A k \in DOMAIN kept : kept[k] = table[k]
    BY DEF Remaining, Gone, Restrict
  <1> HIDE DEF kept, key
  <1>4. /\ DOMAIN With(kept, key, flow) = DOMAIN kept \cup {key}
        /\ With(kept, key, flow)[key] = flow
        /\ \A k \in DOMAIN kept \ {key} : With(kept, key, flow)[k] = kept[k]
    BY DEF With
  <1>5. QED
    BY <1>1, <1>2, <1>3, <1>4 DEF key, kept

\* The packet's own flow is the one found under its key, if that one stays, or
\* a new one.
LEMMA OwnShape ==
  ASSUME TypeOK, NEW p \in Packets
  PROVE  LET key == make_key(p.proto, p.src, p.dst)
         IN Own(p) = IF key \in DOMAIN table \ Gone(p) THEN table[key] ELSE NewFlow(p)
  <1>1. /\ DOMAIN Remaining(p) = DOMAIN table \ Gone(p)
        /\ \A k \in DOMAIN Remaining(p) : Remaining(p)[k] = table[k]
    BY DEF Remaining, Gone, Restrict
  <1>2. QED
    BY <1>1 DEF Own

\* The table after an update, before its sweep: the flows not displaced, and
\* the packet's own flow, continued or new.
LEMMA AttachShape ==
  ASSUME TypeOK, NEW p \in Packets
  PROVE  LET key == make_key(p.proto, p.src, p.dst)
         IN /\ key \in Keys
            /\ Gone(p) \subseteq DOMAIN table
            /\ DOMAIN Attach(p) = (DOMAIN table \ Gone(p)) \cup {key}
            /\ Attach(p)[key] = IF key \in DOMAIN table \ Gone(p)
                                 THEN Absorb(table[key], p) ELSE Absorb(NewFlow(p), p)
            /\ \A k \in DOMAIN Attach(p) \ {key} :
                 k \in DOMAIN table \ Gone(p) /\ Attach(p)[k] = table[k]
  <1> DEFINE key == make_key(p.proto, p.src, p.dst)
             flow == Absorb(Own(p), p)
  <1>1. Attach(p) = With(Remaining(p), key, flow)
    BY DEF Attach
  <1>2. flow = IF key \in DOMAIN table \ Gone(p)
                 THEN Absorb(table[key], p) ELSE Absorb(NewFlow(p), p)
    BY OwnShape
  <1> HIDE DEF flow, key
  <1>3. /\ key \in Keys /\ Gone(p) \subseteq DOMAIN table
        /\ DOMAIN With(Remaining(p), key, flow) = (DOMAIN table \ Gone(p)) \cup {key}
        /\ With(Remaining(p), key, flow)[key] = flow
        /\ \A k \in DOMAIN With(Remaining(p), key, flow) \ {key} :
             k \in DOMAIN table \ Gone(p) /\ With(Remaining(p), key, flow)[k] = table[k]
    BY WithShape, ZenonT(40) DEF key
  <1>4. Attach(p) = With(Remaining(p), key, flow)
    BY <1>1 DEF key
  <1>5. QED
    BY <1>2, <1>3, <1>4 DEF key

\* That table is well typed, and p was counted in its own flow.
LEMMA AttachType ==
  ASSUME TypeOK, NEW p \in Packets
  PROVE  LET key == make_key(p.proto, p.src, p.dst)
         IN /\ key \in DOMAIN Attach(p)
            /\ DOMAIN Attach(p) \subseteq Keys
            /\ \A k \in DOMAIN Attach(p) : Attach(p)[k] \in Flows /\ KeyOf(Attach(p)[k]) = k
            /\ Attach(p)[key].last >= p.ts
            /\ Attach(p)[key].touched = arrivals + 1
  <1> DEFINE key == make_key(p.proto, p.src, p.dst)
  <1> arrivals \in Nat
    BY EnvironmentAssumption DEF TypeOK
  <1>1. \A k \in DOMAIN table : k \in Keys /\ table[k] \in Flows /\ KeyOf(table[k]) = k
    BY DEF TypeOK
  <1>2. Absorb(NewFlow(p), p) \in Flows /\ KeyOf(Absorb(NewFlow(p), p)) = key
        /\ Absorb(NewFlow(p), p).last >= p.ts
        /\ Absorb(NewFlow(p), p).touched = arrivals + 1
    BY NewFlowType, AbsorbType
  <1>3. key \in DOMAIN table =>
          /\ Absorb(table[key], p) \in Flows /\ KeyOf(Absorb(table[key], p)) = key
          /\ Absorb(table[key], p).last >= p.ts
          /\ Absorb(table[key], p).touched = arrivals + 1
    BY <1>1, AbsorbType
  <1>4. QED
    BY <1>1, <1>2, <1>3, AttachShape

\* Removing the expired flows keeps the others as they were.
LEMMA UnexpiredType ==
  ASSUME NEW tab, NEW now \in Nat
  PROVE  /\ \A k \in DOMAIN tab :
              k \in DOMAIN Unexpired(tab, now) <=> ~is_expired(tab[k], now)
         /\ \A k \in DOMAIN Unexpired(tab, now) :
              k \in DOMAIN tab /\ Unexpired(tab, now)[k] = tab[k]
  BY DEF Unexpired, Expired, Restrict

\* The reason is one of the seven.
LEMMA ReasonType == ASSUME NEW f PROVE get_close_reason(f) \in Reasons
  BY DEF get_close_reason, Reasons

\* What a sweep exports is well typed.
LEMMA SweptOutType ==
  ASSUME NEW tab, NEW now \in Nat, \A k \in DOMAIN tab : tab[k] \in Flows
  PROVE  SweptOut(tab, now) \subseteq [flow : Flows, reason : Reasons, at : Nat]
  BY ReasonType DEF SweptOut, Expired, Export

-----------------------------------------------------------------------------
(* Type correctness *)

LEMMA InitTypeOK == Init => TypeOK
  BY EnvironmentAssumption DEF Init, TypeOK

LEMMA UpdateTypeOK ==
  ASSUME TypeOK, NEW p \in Packets, Update(p)
  PROVE  TypeOK'
  <1> DEFINE now == IF p.ts > clock THEN p.ts ELSE clock
             filled == Attach(p)
             key == make_key(p.proto, p.src, p.dst)
             left == {Export(table[d[1]], d[2], now) : d \in Displaced(p)}
             record == [flow : Flows, reason : Reasons, at : Nat]
  <1>1. now \in Nat /\ p.ts \in Nat
    BY PacketType DEF TypeOK
  <1>2. /\ key \in DOMAIN filled /\ DOMAIN filled \subseteq Keys
        /\ \A k \in DOMAIN filled : filled[k] \in Flows /\ KeyOf(filled[k]) = k
    BY AttachType
  <1>3. left \subseteq record
    <2>1. ASSUME NEW d \in Displaced(p)
          PROVE  Export(table[d[1]], d[2], now) \in record
      BY <1>1, <2>1, DisplacedType DEF Export, TypeOK
    <2>2. QED
      BY <2>1
  <1>4. SweptOut(filled, now) \subseteq record
    BY <1>1, <1>2, SweptOutType
  <1>5. DOMAIN table' \subseteq Keys /\ \A k \in DOMAIN table' : table'[k] \in Flows /\ KeyOf(table'[k]) = k
    <2>a. filled = Attach(p) /\ now \in Nat
      BY <1>1
    <2> HIDE DEF now, filled
    <2>1. table' = Unexpired(filled, now) \/ table' = filled
      BY DEF Update, now, filled
    <2>2. CASE table' = filled
      BY <1>2, <2>2
    <2>3. CASE table' = Unexpired(filled, now)
      <3>1. \A k \in DOMAIN Unexpired(filled, now) :
              k \in DOMAIN filled /\ Unexpired(filled, now)[k] = filled[k]
        BY <2>a, UnexpiredType
      <3>2. QED
        BY <1>2, <2>3, <3>1
    <2>4. QED
      BY <2>1, <2>2, <2>3
  <1>6. exported' \subseteq record
    BY <1>3, <1>4 DEF Update, TypeOK
  <1>7. clock' \in Nat /\ lastSweep' \in Nat \cup {None}
    BY <1>1 DEF Update, TypeOK
  <1>8. event' \in [flow_id : Keys \X Nat, direction : Directions,
                    flow_state : TcpStates \cup {"ACTIVE", None}]
    <2>1. event' = Tag(filled[key], p)
      BY DEF Update
    <2>2. filled[key] \in Flows
      BY <1>2
    <2> HIDE DEF filled, key
    <2>3. filled[key].id \in Keys \X Nat /\ filled[key].conn.state \in TcpStates \cup {"ACTIVE"}
      BY <2>2 DEF Flows, Connection
    <2>4. direction_of(filled[key], p.src) \in Directions
      BY DEF direction_of, Directions
    <2>5. QED
      BY <2>1, <2>3, <2>4 DEF Tag
  <1>9. arrivals' \in 0..MaxPackets /\ opened' \in 0..arrivals' /\ running' \in BOOLEAN
    BY EnvironmentAssumption DEF Update, TypeOK
  <1> HIDE DEF now, filled, key, left, record
  <1>10. QED
    BY <1>5, <1>6, <1>7, <1>8, <1>9 DEF TypeOK, record

LEMMA FlushTypeOK ==
  ASSUME TypeOK, Flush
  PROVE  TypeOK'
  <1>1. DOMAIN table' = {}
    BY DEF Flush, Restrict
  <1>2. ASSUME NEW k \in DOMAIN table
        PROVE  Export(table[k], flush_reason(table[k]), clock)
                 \in [flow : Flows, reason : Reasons, at : Nat]
    BY DEF Export, flush_reason, get_close_reason, Reasons, TypeOK
  <1>3. exported' \subseteq [flow : Flows, reason : Reasons, at : Nat]
    BY <1>2 DEF Flush, TypeOK
  <1>4. QED
    BY <1>1, <1>3 DEF Flush, TypeOK

LEMMA ManualSweepTypeOK ==
  ASSUME TypeOK, NEW now \in Times, ManualSweep(now)
  PROVE  TypeOK'
  <1>1. now \in Nat
    BY EnvironmentAssumption
  <1>2. DOMAIN table' \subseteq Keys /\ \A k \in DOMAIN table' : table'[k] \in Flows /\ KeyOf(table'[k]) = k
    <2>1. \A k \in DOMAIN Unexpired(table, now) :
            k \in DOMAIN table /\ Unexpired(table, now)[k] = table[k]
      BY <1>1, UnexpiredType
    <2>2. table' = Unexpired(table, now)
      BY DEF ManualSweep
    <2>3. QED
      BY <2>1, <2>2 DEF TypeOK
  <1>3. exported' \subseteq [flow : Flows, reason : Reasons, at : Nat]
    BY <1>1, SweptOutType DEF ManualSweep, TypeOK
  <1>4. QED
    BY <1>1, <1>2, <1>3 DEF ManualSweep, TypeOK

LEMMA NextTypeOK == TypeOK /\ [NextWithSweeps]_vars => TypeOK'
  <1> SUFFICES ASSUME TypeOK, [NextWithSweeps]_vars PROVE TypeOK'
    OBVIOUS
  <1>1. CASE \E p \in Packets : Update(p)
    BY <1>1, UpdateTypeOK
  <1>2. CASE Ignore
    BY <1>2 DEF Ignore, TypeOK
  <1>3. CASE Flush
    BY <1>3, FlushTypeOK
  <1>4. CASE \E now \in Times : ManualSweep(now)
    BY <1>4, ManualSweepTypeOK
  <1>5. CASE UNCHANGED vars
    BY <1>5 DEF vars, TypeOK
  <1>6. QED
    BY <1>1, <1>2, <1>3, <1>4, <1>5 DEF NextWithSweeps, Next

\* Every reachable state of the tracker is well typed: table entries under
\* their own keys, exports with a legal reason, as the pipeline runs it ...
THEOREM TypeCorrect == Spec => []TypeOK
  <1>1. TypeOK /\ [Next]_vars => TypeOK'
    BY NextTypeOK DEF NextWithSweeps
  <1>2. QED
    BY InitTypeOK, <1>1, PTL DEF Spec

\* ... and with sweep() called by hand at arbitrary times.
THEOREM TypeCorrectWithSweeps == SpecWithSweeps => []TypeOK
  BY InitTypeOK, NextTypeOK, PTL DEF SpecWithSweeps

-----------------------------------------------------------------------------
(* The periodic sweep *)

LEMMA UpdateSweepFresh ==
  ASSUME TypeOK, SweepFresh, NEW p \in Packets, Update(p)
  PROVE  SweepFresh'
  <1> DEFINE now == IF p.ts > clock THEN p.ts ELSE clock
  <1>1. now \in Nat /\ now >= clock /\ clock \in Nat
    BY PacketType DEF TypeOK
  <1>2. clock' = now /\ arrivals' = arrivals + 1 /\ arrivals \in Nat
    BY EnvironmentAssumption DEF Update, TypeOK
  <1>3. \/ SweepDue(now) /\ lastSweep' = now
        \/ ~SweepDue(now) /\ lastSweep' = IF lastSweep = None THEN now ELSE lastSweep
    BY DEF Update
  <1>4. lastSweep \in Nat \cup {None} /\ None \notin Nat /\ SweepInterval \in Nat \ {0}
    BY ConfigAssumption, NoneAssumption DEF TypeOK
  <1> HIDE DEF now
  <1>5. QED
    BY <1>1, <1>2, <1>3, <1>4 DEF SweepFresh, SweepInTime, SweepDue

LEMMA NextSweepFresh == TypeOK /\ SweepFresh /\ [Next]_vars => SweepFresh'
  <1> SUFFICES ASSUME TypeOK, SweepFresh, [Next]_vars PROVE SweepFresh'
    OBVIOUS
  <1>1. CASE \E p \in Packets : Update(p)
    BY <1>1, UpdateSweepFresh
  <1>2. CASE UNCHANGED <<clock, lastSweep, arrivals>>
    BY <1>2 DEF SweepFresh, SweepInTime
  <1>3. QED
    BY <1>1, <1>2 DEF Next, Ignore, Flush, vars

\* When the pipeline runs the tracker, no sweep is ever overdue between
\* updates.
THEOREM SweepNeverOverdue == Spec => []SweepFresh
  <1>1. Init => SweepFresh
    BY DEF Init, SweepFresh, SweepInTime
  <1>2. QED
    BY <1>1, TypeCorrect, NextSweepFresh, PTL DEF Spec

\* Hence a sweep inside an update is set off by a packet that is not late, and
\* cannot expire the flow this packet was just counted in.
LEMMA OwnFlowUnexpired ==
  ASSUME TypeOK, SweepInTime, NEW p \in Packets,
         NEW now, now = IF p.ts > clock THEN p.ts ELSE clock, SweepDue(now)
  PROVE  ~is_expired(Attach(p)[make_key(p.proto, p.src, p.dst)], now)
  <1> DEFINE f == Attach(p)[make_key(p.proto, p.src, p.dst)]
  <1>1. p.ts \in Nat /\ clock \in Nat /\ None \notin Nat /\ lastSweep \in Nat \cup {None}
        /\ SweepInterval \in Nat
    BY PacketType, NoneAssumption, ConfigAssumption DEF TypeOK
  <1>2. now = p.ts
    BY <1>1 DEF SweepDue, SweepInTime
  <1>3. f.last >= p.ts /\ f.last \in Nat
    BY AttachType DEF Flows
  <1>4. timeout_for(f) \in Nat \ {0}
    BY ConfigAssumption DEF timeout_for
  <1> HIDE DEF f
  <1>5. ~is_expired(f, now)
    BY <1>1, <1>2, <1>3, <1>4 DEF is_expired
  <1>6. QED
    BY <1>5 DEF f

LEMMA UpdateKeepsOwn ==
  ASSUME TypeOK, SweepInTime, NEW p \in Packets, Update(p)
  PROVE  LET key == make_key(p.proto, p.src, p.dst)
         IN key \in DOMAIN table' /\ table'[key] = Attach(p)[key]
  <1> DEFINE now == IF p.ts > clock THEN p.ts ELSE clock
             key == make_key(p.proto, p.src, p.dst)
  <1>1. key \in DOMAIN Attach(p)
    BY AttachType
  <1>2. now \in Nat
    BY PacketType DEF TypeOK
  <1>3. CASE SweepDue(now)
    <2>1. ~is_expired(Attach(p)[key], now)
      BY <1>3, OwnFlowUnexpired
    <2>2. table' = Unexpired(Attach(p), now)
      BY <1>3 DEF Update
    <2>3. key \in DOMAIN Unexpired(Attach(p), now)
      BY <1>1, <1>2, <2>1, UnexpiredType
    <2>4. Unexpired(Attach(p), now)[key] = Attach(p)[key]
      BY <1>2, <2>3, UnexpiredType
    <2>5. QED
      BY <2>2, <2>3, <2>4
  <1>4. CASE ~SweepDue(now)
    BY <1>1, <1>4 DEF Update
  <1>5. QED
    BY <1>3, <1>4

LEMMA UpdateOwnFlow ==
  ASSUME TypeOK, SweepInTime, NEW p \in Packets, Update(p)
  PROVE  \E k \in DOMAIN table' : /\ table'[k].id = event'.flow_id
                                 /\ table'[k].touched = arrivals'
  <1> DEFINE key == make_key(p.proto, p.src, p.dst)
  <1>1. Attach(p)[key].touched = arrivals + 1
    BY AttachType
  <1>2. event'.flow_id = Attach(p)[key].id /\ arrivals' = arrivals + 1
    BY DEF Update, Tag
  <1>3. key \in DOMAIN table' /\ table'[key] = Attach(p)[key]
    BY UpdateKeepsOwn
  <1>4. QED
    BY <1>1, <1>2, <1>3

\* The flow of a packet is in the table when update() returns, so that the
\* engine's lookup right after it never misses.
THEOREM OwnFlowKept == Spec => OwnFlowSurvives
  <1>1. TypeOK /\ SweepFresh /\ [Next]_vars =>
          [arrivals' > arrivals =>
             \E k \in DOMAIN table' : /\ table'[k].id = event'.flow_id
                                     /\ table'[k].touched = arrivals']_vars
    <2> SUFFICES ASSUME TypeOK, SweepFresh, Next, arrivals' > arrivals
                 PROVE  \E k \in DOMAIN table' : /\ table'[k].id = event'.flow_id
                                                /\ table'[k].touched = arrivals'
      OBVIOUS
    <2>1. PICK p \in Packets : Update(p)
      BY EnvironmentAssumption DEF Next, Ignore, Flush, TypeOK
    <2>2. QED
      BY <2>1, UpdateOwnFlow DEF SweepFresh
  <1>2. QED
    BY <1>1, TypeCorrect, SweepNeverOverdue, PTL DEF Spec, OwnFlowSurvives

-----------------------------------------------------------------------------
(* Updates that raise *)

Tags == [flow_id : Keys \X Nat, direction : Directions,
         flow_state : TcpStates \cup {"ACTIVE", None}]

\* Wherever update() raises, the flow it was at is a flow of its key.
LEMMA HalfwayType ==
  ASSUME NEW f \in Flows, NEW p \in Packets, arrivals \in Nat, NEW h \in Halfway(f, p)
  PROVE  /\ h[1] \in Flows
         /\ KeyOf(h[1]) = KeyOf(f)
         /\ h[2] = Untagged \/ h[2] \in Tags
  <1> DEFINE whole   == Absorb(f, p)
             found   == [f EXCEPT !.touched = whole.touched]
             moved   == [found EXCEPT !.conn = whole.conn]
             timed   == [moved EXCEPT !.start = whole.start, !.last = whole.last]
             counted == [timed EXCEPT !.fwd = whole.fwd, !.bwd = whole.bwd]
             tag     == Tag(whole, p)
             half    == [tag EXCEPT !.flow_state = None]
  <1>1. whole \in Flows /\ KeyOf(whole) = KeyOf(f)
    BY AbsorbType
  <1>2. tag \in Tags /\ half \in Tags
    <2>1. whole.id \in Keys \X Nat /\ whole.conn.state \in TcpStates \cup {"ACTIVE"}
      BY <1>1 DEF Flows, Connection
    <2>2. direction_of(whole, p.src) \in Directions
      BY DEF direction_of, Directions
    <2> HIDE DEF whole
    <2>3. QED
      BY <2>1, <2>2 DEF Tag, Tags
  <1>3. h \in {<<found, Untagged>>, <<found, half>>, <<moved, half>>, <<moved, tag>>,
               <<timed, tag>>, <<counted, tag>>, <<whole, tag>>}
    BY DEF Halfway
  <1> HIDE DEF whole, tag, half
  <1>4. found \in Flows /\ KeyOf(found) = KeyOf(f)
    BY <1>1 DEF Flows, KeyOf
  <1>5. moved \in Flows /\ KeyOf(moved) = KeyOf(found)
    <2> HIDE DEF found
    <2> QED BY <1>1, <1>4 DEF Flows, KeyOf
  <1>6. timed \in Flows /\ KeyOf(timed) = KeyOf(moved)
    <2> HIDE DEF moved
    <2> QED BY <1>1, <1>5 DEF Flows, KeyOf
  <1>7. counted \in Flows /\ KeyOf(counted) = KeyOf(timed)
    <2> HIDE DEF timed
    <2> QED BY <1>1, <1>6 DEF Flows, KeyOf
  <1> HIDE DEF found, moved, timed, counted
  <1>8. QED
    BY <1>1, <1>2, <1>3, <1>4, <1>5, <1>6, <1>7

LEMMA OwnType ==
  ASSUME TypeOK, NEW p \in Packets
  PROVE  Own(p) \in Flows /\ KeyOf(Own(p)) = make_key(p.proto, p.src, p.dst)
  <1>1. arrivals \in Nat
    BY EnvironmentAssumption DEF TypeOK
  <1>2. QED
    BY <1>1, OwnShape, NewFlowType DEF TypeOK

LEMMA RestrictType ==
  ASSUME NEW tab, NEW S, DOMAIN tab \subseteq Keys,
         \A k \in DOMAIN tab : tab[k] \in Flows /\ KeyOf(tab[k]) = k
  PROVE  LET less == Restrict(tab, DOMAIN tab \ S)
         IN /\ DOMAIN less \subseteq Keys
            /\ \A k \in DOMAIN less : less[k] \in Flows /\ KeyOf(less[k]) = k
  BY DEF Restrict

\* What an update displaces is exported as a record.
LEMMA LeftType ==
  ASSUME TypeOK, NEW p \in Packets, NEW now \in Nat, NEW D \in SUBSET Displaced(p)
  PROVE  {Export(table[d[1]], d[2], now) : d \in D} \subseteq [flow : Flows, reason : Reasons, at : Nat]
  <1>1. ASSUME NEW d \in Displaced(p)
        PROVE  Export(table[d[1]], d[2], now) \in [flow : Flows, reason : Reasons, at : Nat]
    BY <1>1, DisplacedType DEF Export, TypeOK
  <1>2. QED
    BY <1>1

\* The part of the type invariant that a raising update moves.
TableTyped == /\ DOMAIN table \subseteq Keys
              /\ \A k \in DOMAIN table : table[k] \in Flows /\ KeyOf(table[k]) = k
              /\ exported \subseteq [flow : Flows, reason : Reasons, at : Nat]
              /\ event = Untagged \/ event \in Tags

LEMMA BeforeTyped ==
  ASSUME TypeOK, NEW p \in Packets, NEW now \in Nat, RaisesBefore(p, now)
  PROVE  TableTyped' /\ opened' = opened
  <1>1. PICK D \in SUBSET Displaced(p) :
          /\ table' = Restrict(table, DOMAIN table \ {d[1] : d \in D})
          /\ exported' = exported \cup {Export(table[d[1]], d[2], now) : d \in D}
          /\ event' = Untagged
          /\ opened' = opened
    BY DEF RaisesBefore
  <1>2. DOMAIN table' \subseteq Keys /\ \A k \in DOMAIN table' : table'[k] \in Flows /\ KeyOf(table'[k]) = k
    <2> DEFINE S == {d[1] : d \in D}
    <2>1. table' = Restrict(table, DOMAIN table \ S)
      BY <1>1
    <2>2. /\ DOMAIN table \subseteq Keys
          /\ \A k \in DOMAIN table : table[k] \in Flows /\ KeyOf(table[k]) = k
      BY DEF TypeOK
    <2> HIDE DEF S
    <2>3. DOMAIN table' \subseteq DOMAIN table /\ \A k \in DOMAIN table' : table'[k] = table[k]
      BY <2>1 DEF Restrict
    <2>4. QED
      BY <2>2, <2>3
  <1>3. exported' \subseteq [flow : Flows, reason : Reasons, at : Nat]
    BY <1>1, LeftType DEF TypeOK
  <1>4. QED
    BY <1>1, <1>2, <1>3 DEF TableTyped, Untagged

LEMMA AfterTyped ==
  ASSUME TypeOK, NEW p \in Packets, NEW now \in Nat, RaisesAfter(p, now)
  PROVE  TableTyped' /\ opened' \in {opened, opened + 1}
  <1> DEFINE key == make_key(p.proto, p.src, p.dst)
             record == [flow : Flows, reason : Reasons, at : Nat]
  <1>1. PICK h \in Halfway(Own(p), p) :
          LET filled == With(Remaining(p), key, h[1])
          IN \E out \in SUBSET Expired(filled, now) :
               /\ table' = Restrict(filled, DOMAIN filled \ out)
               /\ exported' = exported \cup {Export(table[d[1]], d[2], now) : d \in Displaced(p)} \cup
                    {Export(filled[k], get_close_reason(filled[k]), now) : k \in out}
               /\ event' = h[2]
               /\ opened' \in {opened, opened + 1}
    BY DEF RaisesAfter
  <1> DEFINE filled == With(Remaining(p), key, h[1])
  <1>2. PICK out \in SUBSET Expired(filled, now) :
          /\ table' = Restrict(filled, DOMAIN filled \ out)
          /\ exported' = exported \cup {Export(table[d[1]], d[2], now) : d \in Displaced(p)} \cup
               {Export(filled[k], get_close_reason(filled[k]), now) : k \in out}
          /\ event' = h[2]
          /\ opened' \in {opened, opened + 1}
    BY <1>1
  <1>3. h[1] \in Flows /\ KeyOf(h[1]) = key /\ (h[2] = Untagged \/ h[2] \in Tags)
    <2>1. arrivals \in Nat
      BY EnvironmentAssumption DEF TypeOK
    <2>2. QED
      BY <2>1, OwnType, HalfwayType
  <1>4. DOMAIN filled \subseteq Keys /\ \A k \in DOMAIN filled : filled[k] \in Flows /\ KeyOf(filled[k]) = k
    <2>1. /\ key \in Keys /\ Gone(p) \subseteq DOMAIN table
          /\ DOMAIN filled = (DOMAIN table \ Gone(p)) \cup {key}
          /\ filled[key] = h[1]
          /\ \A k \in DOMAIN filled \ {key} : k \in DOMAIN table \ Gone(p) /\ filled[k] = table[k]
      <3> DEFINE flow == h[1]
      <3> HIDE DEF flow
      <3>1. /\ key \in Keys /\ Gone(p) \subseteq DOMAIN table
            /\ DOMAIN With(Remaining(p), key, flow) = (DOMAIN table \ Gone(p)) \cup {key}
            /\ With(Remaining(p), key, flow)[key] = flow
            /\ \A k \in DOMAIN With(Remaining(p), key, flow) \ {key} :
                 k \in DOMAIN table \ Gone(p) /\ With(Remaining(p), key, flow)[k] = table[k]
        BY WithShape, ZenonT(40)
      <3>2. QED
        BY <3>1 DEF flow
    <2> HIDE DEF filled, key
    <2>2. QED
      BY <1>3, <2>1 DEF TypeOK
  <1> HIDE DEF filled, key
  <1>5. DOMAIN table' \subseteq Keys /\ \A k \in DOMAIN table' : table'[k] \in Flows /\ KeyOf(table'[k]) = k
    BY <1>2, <1>4, RestrictType, ZenonT(40)
  <1>6. {Export(filled[k], get_close_reason(filled[k]), now) : k \in out} \subseteq record
    BY <1>4, ReasonType DEF Expired, Export
  <1>7. {Export(table[d[1]], d[2], now) : d \in Displaced(p)} \subseteq record
    BY LeftType
  <1>8. exported' \subseteq record
    BY <1>2, <1>6, <1>7 DEF TypeOK
  <1>9. QED
    BY <1>2, <1>3, <1>5, <1>8 DEF TableTyped, Untagged

LEMMA UpdateRaisesTypeOK ==
  ASSUME TypeOK, NEW p \in Packets, UpdateRaises(p)
  PROVE  TypeOK'
  <1> DEFINE now == IF p.ts > clock THEN p.ts ELSE clock
  <1>1. now \in Nat
    BY PacketType DEF TypeOK
  <1>2. RaisesBefore(p, now) \/ RaisesAfter(p, now)
    BY DEF UpdateRaises
  <1>3. /\ clock' = now /\ lastSweep' = lastSweep /\ running' = running
        /\ arrivals' = arrivals + 1 /\ arrivals < MaxPackets
    BY DEF UpdateRaises
  <1> HIDE DEF now
  <1>4. TableTyped' /\ opened' \in {opened, opened + 1}
    BY <1>1, <1>2, BeforeTyped, AfterTyped
  <1>5. arrivals' \in 0..MaxPackets /\ opened' \in 0..arrivals'
    BY <1>3, <1>4, EnvironmentAssumption DEF TypeOK
  <1>6. clock' \in Nat /\ lastSweep' \in Nat \cup {None} /\ running' \in BOOLEAN
    BY <1>1, <1>3 DEF TypeOK
  <1>7. QED
    BY <1>4, <1>5, <1>6 DEF TypeOK, TableTyped, Tags

LEMMA NextWithFailuresTypeOK == TypeOK /\ [NextWithFailures]_vars => TypeOK'
  <1>1. TypeOK /\ [Next]_vars => TypeOK'
    BY NextTypeOK DEF NextWithSweeps
  <1>2. QED
    BY <1>1, UpdateRaisesTypeOK DEF NextWithFailures

\* The tracker stays well typed whichever updates raise, and wherever.
THEOREM TypeCorrectWithFailures == SpecWithFailures => []TypeOK
  BY InitTypeOK, NextWithFailuresTypeOK, PTL DEF SpecWithFailures

\* An update that completes leaves no sweep overdue.
LEMMA UpdateSweepsInTime ==
  ASSUME TypeOK, NEW p \in Packets, Update(p)
  PROVE  SweepInTime'
  <1> DEFINE now == IF p.ts > clock THEN p.ts ELSE clock
  <1>1. now \in Nat
    BY PacketType DEF TypeOK
  <1>2. clock' = now
    BY DEF Update
  <1>3. \/ SweepDue(now) /\ lastSweep' = now
        \/ ~SweepDue(now) /\ lastSweep' = IF lastSweep = None THEN now ELSE lastSweep
    BY DEF Update
  <1>4. lastSweep \in Nat \cup {None} /\ None \notin Nat /\ SweepInterval \in Nat \ {0}
    BY ConfigAssumption, NoneAssumption DEF TypeOK
  <1> HIDE DEF now
  <1>5. QED
    BY <1>1, <1>2, <1>3, <1>4 DEF SweepInTime, SweepDue

\* Whichever updates raised before, one that completes removes the flow of its
\* own packet only when they left a sweep overdue, and it leaves none overdue.
THEOREM OwnFlowLoss == SpecWithFailures => OwnFlowLostOnlyOverdue
  <1> DEFINE Kind ==
        \A p \in Packets : Update(p) =>
          /\ SweepInTime'
          /\ SweepInTime =>
               \E k \in DOMAIN table' : /\ table'[k].id = event'.flow_id
                                       /\ table'[k].touched = arrivals'
  <1>1. TypeOK => Kind
    BY UpdateSweepsInTime, UpdateOwnFlow
  <1>2. TypeOK => [Kind]_vars
    BY <1>1
  <1> HIDE DEF Kind
  <1>3. SpecWithFailures => [][Kind]_vars
    BY <1>2, TypeCorrectWithFailures, PTL
  <1>4. QED
    BY <1>3 DEF Kind, OwnFlowLostOnlyOverdue
=============================================================================
