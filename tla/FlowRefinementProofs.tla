------------------------ MODULE FlowRefinementProofs ------------------------
(***************************************************************************)
(* FlowTracker implements FlowLedger, and what the ledger promises; the    *)
(* conservation of packets and flows; the engine's view of a flow.         *)
(*                                                                         *)
(* The inductive invariant is Numbered: every flow, active or exported,    *)
(* carries the number of the packet that opened it, and no two flows carry *)
(* the same.  It makes the refinement mapping, which names flows by that   *)
(* number, well defined.  The flow context adds IdFiled: the flows are     *)
(* filed under the key their flow_id was made from, so that every tracked  *)
(* packet finds its own flow.                                              *)
(***************************************************************************)
EXTENDS FlowSafetyProofs, FlowContext

Numbered ==
  /\ \A k \in DOMAIN table : table[k].born \in 1..arrivals
  /\ \A j, k \in DOMAIN table : table[j].born = table[k].born => j = k
  /\ \A r \in exported : r.flow.born \in 1..arrivals
  /\ \A r \in exported, k \in DOMAIN table : r.flow.born # table[k].born

-----------------------------------------------------------------------------
(* One update, in terms of flow numbers *)

\* The keys that leave the table during an update, displaced or swept.
Leaving(p, now) ==
  Gone(p) \cup (IF SweepDue(now) THEN Expired(Attach(p), now) ELSE {})

\* What an update does to the table and to the exports, flow by flow: the
\* packet's own flow is the continued one or a new one, the other flows are
\* untouched, and those that leave are exported as they were.
LEMMA UpdateShape ==
  ASSUME TypeOK, SweepFresh, NEW p \in Packets, Update(p)
  PROVE  \E now \in Nat, key \in Keys :
           LET D == DOMAIN table
               L == Leaving(p, now)
           IN /\ L \subseteq D
              /\ DOMAIN table' = (D \ L) \cup {key}
              /\ \A k \in D \ L : k # key => table'[k] = table[k]
              /\ key \in D \ L =>
                   /\ table'[key].born = table[key].born
                   /\ Count(table'[key]) = Count(table[key]) + 1
                   /\ table'[key] = Absorb(table[key], p)
                   /\ table[key].proto = p.proto
              /\ key \notin D \ L =>
                   table'[key].born = arrivals + 1 /\ Count(table'[key]) = 1
              /\ \A r \in exported' \ exported :
                   \E k \in L : r.flow = table[k]
              /\ \A k \in L : \E r \in exported' : r.flow = table[k]
              /\ exported \subseteq exported'
  <1> DEFINE now == IF p.ts > clock THEN p.ts ELSE clock
             key == make_key(p.proto, p.src, p.dst)
             D == DOMAIN table
             A == Attach(p)
             S == IF SweepDue(now) THEN Expired(A, now) ELSE {}
             L == Leaving(p, now)
             left == {Export(table[d[1]], d[2], now) : d \in Displaced(p)}
  <1>1. now \in Nat /\ arrivals \in Nat
    BY PacketType, EnvironmentAssumption DEF TypeOK
  <1>2. /\ key \in Keys /\ Gone(p) \subseteq D
        /\ DOMAIN A = (D \ Gone(p)) \cup {key}
        /\ A[key] = IF key \in D \ Gone(p) THEN Absorb(table[key], p)
                                           ELSE Absorb(NewFlow(p), p)
        /\ \A k \in DOMAIN A \ {key} : k \in D \ Gone(p) /\ A[k] = table[k]
    BY AttachShape
  <1>3. key \notin S
    BY OwnFlowUnexpired DEF Expired, SweepFresh
  <1>4. S \subseteq DOMAIN A /\ \A k \in S : k \in D \ Gone(p) /\ A[k] = table[k]
    <2>1. S \subseteq DOMAIN A
      BY DEF Expired
    <2> HIDE DEF S, A, key
    <2>2. QED
      BY <1>2, <1>3, <2>1
  <1>5. L = Gone(p) \cup S
    BY DEF Leaving
  <1>6. DOMAIN table' = DOMAIN A \ S /\ \A k \in DOMAIN table' : table'[k] = A[k]
    <2>1. CASE SweepDue(now)
      <3>1. table' = Unexpired(A, now)
        BY <2>1 DEF Update
      <3>2. QED
        BY <2>1, <3>1 DEF Unexpired, Restrict
    <2>2. CASE ~SweepDue(now)
      BY <2>2 DEF Update
    <2>3. QED
      BY <2>1, <2>2
  <1>7. exported' = exported \cup left \cup {Export(A[k], get_close_reason(A[k]), now) : k \in S}
    BY DEF Update, SweptOut
  <1>8. /\ key \in D => table[key] \in Flows /\ table[key].proto = p.proto
        /\ NewFlow(p) \in Flows /\ Count(NewFlow(p)) = 0 /\ NewFlow(p).born = arrivals + 1
    BY <1>1, NewFlowType, OwnProtocol DEF TypeOK
  <1>9. /\ key \in D => /\ Absorb(table[key], p).born = table[key].born
                        /\ Count(Absorb(table[key], p)) = Count(table[key]) + 1
        /\ Absorb(NewFlow(p), p).born = arrivals + 1
        /\ Count(Absorb(NewFlow(p), p)) = 1
    BY <1>1, <1>8, AbsorbType
  <1>10. \A d \in Displaced(p) : Export(table[d[1]], d[2], now).flow = table[d[1]]
    BY DEF Export
  <1>11. \A k \in S : Export(A[k], get_close_reason(A[k]), now).flow = table[k]
    BY <1>4 DEF Export
  <1> HIDE DEF now, key, A, S, L
  <1>12. \A r \in exported' \ exported : \E k \in L : r.flow = table[k]
    BY <1>5, <1>7, <1>10, <1>11 DEF Gone
  <1>13. \A k \in L : \E r \in exported' : r.flow = table[k]
    <2>1. ASSUME NEW k \in Gone(p) PROVE \E r \in exported' : r.flow = table[k]
      <3>1. PICK d \in Displaced(p) : k = d[1]
        BY DEF Gone
      <3>2. Export(table[d[1]], d[2], now) \in exported'
        BY <1>7, <3>1
      <3>3. QED
        BY <1>10, <3>1, <3>2
    <2>2. ASSUME NEW k \in S PROVE \E r \in exported' : r.flow = table[k]
      <3>1. Export(A[k], get_close_reason(A[k]), now) \in exported'
        BY <1>7, <2>2
      <3>2. QED
        BY <1>11, <2>2, <3>1
    <2>3. QED
      BY <1>5, <2>1, <2>2
  <1>14. /\ L \subseteq D
         /\ DOMAIN table' = (D \ L) \cup {key}
         /\ \A k \in D \ L : k # key => table'[k] = table[k]
    BY <1>2, <1>3, <1>4, <1>5, <1>6
  <1>15. table'[key] = A[key] /\ (key \in D \ L <=> key \in D \ Gone(p))
    BY <1>2, <1>3, <1>5, <1>6
  <1>16. key \in D \ L =>
           /\ table'[key].born = table[key].born
           /\ Count(table'[key]) = Count(table[key]) + 1
           /\ table'[key] = Absorb(table[key], p)
           /\ table[key].proto = p.proto
    BY <1>2, <1>8, <1>9, <1>15
  <1>17. key \notin D \ L => table'[key].born = arrivals + 1 /\ Count(table'[key]) = 1
    BY <1>2, <1>9, <1>15
  <1>18. exported \subseteq exported'
    BY <1>7
  <1>19. QED
    BY <1>1, <1>2, <1>12, <1>13, <1>14, <1>16, <1>17, <1>18 DEF L

-----------------------------------------------------------------------------
(* Flow numbers *)

LEMMA UpdateNumbered ==
  ASSUME TypeOK, SweepFresh, Numbered, NEW p \in Packets, Update(p)
  PROVE  Numbered'
  <1> DEFINE D == DOMAIN table
  <1>1. arrivals \in Nat /\ arrivals' = arrivals + 1
    BY EnvironmentAssumption DEF TypeOK, Update
  <1>2. PICK now \in Nat, key \in Keys :
          LET L == Leaving(p, now)
          IN /\ L \subseteq D
             /\ DOMAIN table' = (D \ L) \cup {key}
             /\ \A k \in D \ L : k # key => table'[k] = table[k]
             /\ key \in D \ L => table'[key].born = table[key].born
             /\ key \notin D \ L => table'[key].born = arrivals + 1
             /\ \A r \in exported' \ exported : \E k \in L : r.flow = table[k]
    BY UpdateShape
  <1> DEFINE L == Leaving(p, now)
  <1> HIDE DEF L
  <1>3. /\ L \subseteq D /\ DOMAIN table' = (D \ L) \cup {key}
        /\ \A k \in D \ L : table'[k].born = table[k].born
        /\ key \notin D \ L => table'[key].born = arrivals + 1
        /\ \A r \in exported' \ exported : \E k \in L : r.flow = table[k]
    BY <1>2 DEF L
  <1>4. \A k \in DOMAIN table' :
          \/ k \in D \ L /\ table'[k].born = table[k].born
          \/ k = key /\ key \notin D \ L /\ table'[k].born = arrivals + 1
    BY <1>3
  <1>5. \A k \in DOMAIN table' : table'[k].born \in 1..arrivals'
    BY <1>1, <1>4 DEF Numbered
  <1>6. \A j, k \in DOMAIN table' : table'[j].born = table'[k].born => j = k
    BY <1>1, <1>4 DEF Numbered
  <1>7. \A r \in exported' : \/ r \in exported
                            \/ \E k \in L : r.flow = table[k]
    BY <1>3
  <1>8. \A r \in exported' : r.flow.born \in 1..arrivals'
    BY <1>1, <1>3, <1>7 DEF Numbered
  <1>9. \A r \in exported', k \in DOMAIN table' : r.flow.born # table'[k].born
    <2> SUFFICES ASSUME NEW r \in exported', NEW k \in DOMAIN table'
                 PROVE  r.flow.born # table'[k].born
      OBVIOUS
    <2>1. r.flow.born \in 1..arrivals
      BY <1>3, <1>7 DEF Numbered
    <2>2. CASE table'[k].born = arrivals + 1
      BY <1>1, <2>1, <2>2
    <2>3. CASE k \in D \ L /\ table'[k].born = table[k].born
      <3>1. CASE r \in exported
        BY <2>3, <3>1 DEF Numbered
      <3>2. CASE \E j \in L : r.flow = table[j]
        <4>1. PICK j \in L : r.flow = table[j]
          BY <3>2
        <4>2. j \in D /\ k \in D /\ j # k
          BY <1>3, <2>3
        <4>3. QED
          BY <2>3, <4>1, <4>2 DEF Numbered
      <3>3. QED
        BY <1>7, <3>1, <3>2
    <2>4. QED
      BY <1>4, <2>2, <2>3
  <1>10. QED
    BY <1>5, <1>6, <1>8, <1>9 DEF Numbered

LEMMA NextNumbered == TypeOK /\ SweepFresh /\ Numbered /\ [Next]_vars => Numbered'
  <1> SUFFICES ASSUME TypeOK, SweepFresh, Numbered, [Next]_vars PROVE Numbered'
    OBVIOUS
  <1>1. CASE \E p \in Packets : Update(p)
    BY <1>1, UpdateNumbered
  <1>2. CASE Flush
    <2>1. DOMAIN table' = {} /\ arrivals' = arrivals
      BY <1>2 DEF Flush, Restrict
    <2>2. \A r \in exported' : r \in exported \/ \E k \in DOMAIN table : r.flow = table[k]
      BY <1>2 DEF Flush, Export
    <2>3. QED
      BY <2>1, <2>2 DEF Numbered
  <1>3. CASE UNCHANGED <<table, exported, arrivals>>
    BY <1>3 DEF Numbered
  <1>4. QED
    BY <1>1, <1>2, <1>3 DEF Next, Ignore, vars

\* Every flow the tracker holds or has exported has the number of the packet
\* that opened it, and no two have one number.
THEOREM FlowsNumbered == Spec => []Numbered
  <1>1. Init => Numbered
    BY DEF Init, Numbered
  <1>2. QED
    BY <1>1, NextNumbered, TypeCorrect, SweepNeverOverdue, PTL DEF Spec

-----------------------------------------------------------------------------
(* Identity of an active flow *)

\* Counting a further packet leaves the identity of a flow alone.
LEMMA AbsorbStable ==
  ASSUME NEW f \in Flows, Witnessed(f), NEW p \in Packets, arrivals \in Nat
  PROVE  LET g == Absorb(f, p)
         IN /\ g.id = f.id /\ g.a = f.a /\ g.conn.midstream = f.conn.midstream
            /\ f.conn.state \in Terminal => g.conn = f.conn
            /\ f.app \notin {None, "UNKNOWN"} => g.app = f.app
  <1> DEFINE g == Absorb(f, p)
             dir == direction_of(f, p.src)
             c == f.conn
             d == NextConnection(c, p.flags, dir, Count(f) = 0)
  <1>1. c \in Connection /\ f.fwd \in Nat /\ f.bwd \in Nat
    BY DEF Flows
  <1>2. Count(f) # 0
    BY <1>1 DEF Count, Witnessed
  <1>3. g.id = f.id /\ g.a = f.a /\ g.app = ResolveApp(f.app, p.app)
    BY DEF Absorb, Flows
  <1>4. g.conn = IF p.proto = "TCP" THEN d ELSE c
    BY AbsorbFields
  <1>5. f.app \notin {None, "UNKNOWN"} => g.app = f.app
    BY <1>3 DEF ResolveApp
  <1> HIDE DEF c, dir
  <1>6. d.midstream = c.midstream
    BY <1>1, <1>2 DEF d, NextConnection, OnSyn, OnFin, OnAck, OnBare, Connection
  <1>7. c.state \in Terminal => d = c
    BY DEF d, NextConnection
  <1> HIDE DEF d, g
  <1>8. g.conn.midstream = c.midstream /\ (c.state \in Terminal => g.conn = c)
    BY <1>4, <1>6, <1>7
  <1>9. QED
    BY <1>3, <1>5, <1>8 DEF g, c

LEMMA UpdateStable ==
  ASSUME TypeOK, SweepFresh, WitnessInv, Numbered, NEW p \in Packets, Update(p),
         NEW k \in DOMAIN table \cap DOMAIN table', table[k].born = table'[k].born
  PROVE  table'[k] = table[k] \/ table'[k] = Absorb(table[k], p)
  <1> DEFINE D == DOMAIN table
  <1>1. arrivals \in Nat /\ table[k].born \in 1..arrivals
    BY EnvironmentAssumption DEF TypeOK, Numbered
  <1>2. PICK now \in Nat, key \in Keys :
          LET L == Leaving(p, now)
          IN /\ DOMAIN table' = (D \ L) \cup {key}
             /\ \A j \in D \ L : j # key => table'[j] = table[j]
             /\ key \in D \ L => table'[key] = Absorb(table[key], p)
             /\ key \notin D \ L => table'[key].born = arrivals + 1
    BY UpdateShape
  <1>3. QED
    BY <1>1, <1>2

\* Endpoint a, flow_id and midstream flag of an active flow never change, an
\* ended connection stays as it ended, a recognised protocol is kept.
THEOREM IdentityKept == Spec => IdentityStable
  <1> DEFINE Stable(f, g) ==
               /\ g.id = f.id /\ g.a = f.a /\ g.conn.midstream = f.conn.midstream
               /\ f.conn.state \in Terminal => g.conn = f.conn
               /\ f.app \notin {None, "UNKNOWN"} => g.app = f.app
             Kept == \A k \in DOMAIN table \cap DOMAIN table' :
                       table[k].born = table'[k].born => Stable(table[k], table'[k])
  <1>1. TypeOK /\ SweepFresh /\ WitnessInv /\ Numbered /\ [Next]_vars => [Kept]_vars
    <2> SUFFICES ASSUME TypeOK, SweepFresh, WitnessInv, Numbered, Next,
                        NEW k \in DOMAIN table \cap DOMAIN table',
                        table[k].born = table'[k].born
                 PROVE  Stable(table[k], table'[k])
      OBVIOUS
    <2>1. CASE \E p \in Packets : Update(p)
      <3>1. PICK p \in Packets : Update(p)
        BY <2>1
      <3>2. arrivals \in Nat /\ table[k] \in Flows /\ Witnessed(table[k])
        BY EnvironmentAssumption DEF TypeOK, WitnessInv, AllFlows
      <3>3. Stable(table[k], Absorb(table[k], p))
        BY <3>2, AbsorbStable
      <3>4. table'[k] = table[k] \/ table'[k] = Absorb(table[k], p)
        BY <3>1, UpdateStable
      <3>5. QED
        BY <3>3, <3>4
    <2>2. CASE Flush
      BY <2>2 DEF Flush, Restrict
    <2>3. CASE UNCHANGED table
      BY <2>3
    <2>4. QED
      BY <2>1, <2>2, <2>3 DEF Next, Ignore
  <1>2. QED
    BY <1>1, TypeCorrect, SweepNeverOverdue, FlowsWitnessed, FlowsNumbered, PTL
       DEF Spec, IdentityStable

-----------------------------------------------------------------------------
(* The refinement *)

\* When numbers are unique, the mapping finds each flow under its number.
LEMMA LiveOfValue ==
  ASSUME NEW tab, \A j, k \in DOMAIN tab : tab[j].born = tab[k].born => j = k
  PROVE  /\ DOMAIN LiveOf(tab) = Borns(tab)
         /\ \A k \in DOMAIN tab : /\ tab[k].born \in Borns(tab)
                                /\ LiveOf(tab)[tab[k].born] = Count(tab[k])
         /\ \A b \in Borns(tab) : \E k \in DOMAIN tab : b = tab[k].born
  <1>1. ASSUME NEW k \in DOMAIN tab PROVE FlowBorn(tab, tab[k].born) = tab[k]
    <2> DEFINE j == CHOOSE j \in DOMAIN tab : tab[j].born = tab[k].born
    <2>1. j \in DOMAIN tab /\ tab[j].born = tab[k].born
      OBVIOUS
    <2>2. j = k
      BY <2>1
    <2>3. QED
      BY <2>2 DEF FlowBorn
  <1>2. QED
    BY <1>1 DEF LiveOf, Borns

\* There are at most as many numbers as flows.
LEMMA BornsCardinality ==
  ASSUME NEW tab, IsFiniteSet(DOMAIN tab), Cardinality(DOMAIN tab) <= MaxActiveFlows
  PROVE  Cardinality(Borns(tab)) <= MaxActiveFlows
  <1> DEFINE f == [k \in DOMAIN tab |-> tab[k].born]
  <1>1. f \in Surjection(DOMAIN tab, Borns(tab))
    BY DEF Surjection, Borns
  <1>2. IsFiniteSet(Borns(tab)) /\ Cardinality(Borns(tab)) <= Cardinality(DOMAIN tab)
    BY <1>1, FS_Surjection
  <1>3. /\ Cardinality(Borns(tab)) \in Nat /\ Cardinality(DOMAIN tab) \in Nat
        /\ MaxActiveFlows \in Nat
    BY <1>2, FS_CardinalityType, ConfigAssumption
  <1>4. QED
    BY <1>2, <1>3

\* The ledger's Cardinality is the tracker's.
LEMMA SameCardinality == \A S : Ledger!Cardinality(S) = Cardinality(S)
  BY DEF Ledger!Cardinality, Cardinality, Ledger!IsFiniteSet, IsFiniteSet

LEMMA UpdateLedger ==
  ASSUME TypeOK, SweepFresh, CapacityInv, CapacityInv', Numbered, Numbered',
         NEW p \in Packets, Update(p)
  PROVE  Ledger!LNext
  <1> DEFINE D == DOMAIN table
             live == LiveOf(table)
             live1 == LiveOf(table')
             closed == ClosedOf(exported)
             closed1 == ClosedOf(exported')
  <1>1. arrivals \in Nat /\ arrivals' = arrivals + 1
    BY EnvironmentAssumption DEF TypeOK, Update
  <1>2. PICK now \in Nat, key \in Keys :
          LET L == Leaving(p, now)
          IN /\ L \subseteq D
             /\ DOMAIN table' = (D \ L) \cup {key}
             /\ \A k \in D \ L : k # key => table'[k] = table[k]
             /\ key \in D \ L => /\ table'[key].born = table[key].born
                               /\ Count(table'[key]) = Count(table[key]) + 1
             /\ key \notin D \ L =>
                  table'[key].born = arrivals + 1 /\ Count(table'[key]) = 1
             /\ \A r \in exported' \ exported : \E k \in L : r.flow = table[k]
             /\ \A k \in L : \E r \in exported' : r.flow = table[k]
             /\ exported \subseteq exported'
    BY UpdateShape
  <1> DEFINE L == Leaving(p, now)
             gone == {table[k].born : k \in L}
             own == table'[key].born
  <1>3. /\ DOMAIN live = Borns(table)
        /\ \A k \in D : table[k].born \in Borns(table) /\ live[table[k].born] = Count(table[k])
        /\ \A b \in Borns(table) : \E k \in D : b = table[k].born
    BY LiveOfValue DEF Numbered
  <1>4. /\ DOMAIN live1 = Borns(table')
        /\ \A k \in DOMAIN table' : /\ table'[k].born \in Borns(table')
                                  /\ live1[table'[k].born] = Count(table'[k])
        /\ \A b \in Borns(table') : \E k \in DOMAIN table' : b = table'[k].born
    <2>1. \A j, k \in DOMAIN table' : table'[j].born = table'[k].born => j = k
      BY DEF Numbered
    <2>2. QED
      BY <2>1, LiveOfValue
  <1> HIDE DEF L, live, live1
  <1>5. /\ L \subseteq D /\ DOMAIN table' = (D \ L) \cup {key}
        /\ \A k \in D \ L : k # key => table'[k] = table[k]
        /\ key \in D \ L => own = table[key].born /\ Count(table'[key]) = Count(table[key]) + 1
        /\ key \notin D \ L => own = arrivals + 1 /\ Count(table'[key]) = 1
        /\ \A r \in exported' \ exported : \E k \in L : r.flow = table[k]
        /\ \A k \in L : \E r \in exported' : r.flow = table[k]
        /\ exported \subseteq exported'
    BY <1>2 DEF L
  <1>6. \A b \in Borns(table) : b \in 1..arrivals
    BY <1>3 DEF Numbered
  <1>7. gone \subseteq Borns(table)
    BY <1>3, <1>5
  <1>8. own \notin gone
    BY <1>1, <1>5, <1>6, <1>7 DEF Numbered
  <1>9. own \in Borns(table) \cup {arrivals + 1}
    BY <1>3, <1>5
  <1>10. own \in Borns(table) <=> key \in D \ L
    BY <1>1, <1>3, <1>5, <1>6
  <1>11. Borns(table') = (Borns(table) \ gone) \cup {own}
    <2>1. ASSUME NEW b \in Borns(table') PROVE b \in (Borns(table) \ gone) \cup {own}
      <3>1. PICK k \in DOMAIN table' : b = table'[k].born
        BY <1>4
      <3>2. CASE k = key
        BY <3>1, <3>2
      <3>3. CASE k # key
        <4>1. k \in D /\ k \notin L /\ b = table[k].born
          BY <1>5, <3>1, <3>3
        <4>2. b \notin gone
          BY <1>5, <4>1 DEF Numbered
        <4>3. QED
          BY <1>3, <4>1, <4>2
      <3>4. QED
        BY <3>2, <3>3
    <2>2. ASSUME NEW b \in (Borns(table) \ gone) \cup {own} PROVE b \in Borns(table')
      <3>1. CASE b = own
        BY <1>4, <1>5, <3>1
      <3>2. CASE b \in Borns(table) /\ b \notin gone
        <4>1. PICK k \in D : b = table[k].born
          BY <1>3, <3>2
        <4>2. k \notin L
          BY <3>2, <4>1
        <4>3. k \in DOMAIN table' /\ table'[k].born = b
          BY <1>5, <4>1, <4>2
        <4>4. QED
          BY <1>4, <4>3
      <3>3. QED
        BY <3>1, <3>2
    <2>3. QED
      BY <2>1, <2>2
  <1>12. live1[own] = IF own \in Borns(table) THEN live[own] + 1 ELSE 1
    BY <1>3, <1>4, <1>5, <1>10
  <1>13. ASSUME NEW b \in Borns(table'), b # own PROVE live1[b] = live[b]
    <2>1. PICK k \in DOMAIN table' : b = table'[k].born
      BY <1>4
    <2>2. k # key
      BY <1>13, <2>1
    <2>3. k \in D /\ table'[k] = table[k]
      BY <1>5, <2>1, <2>2
    <2>4. QED
      BY <1>3, <1>4, <2>1, <2>3
  <1>14. live1 = [x \in (DOMAIN live \ gone) \cup {own} |->
                    IF x # own THEN live[x]
                    ELSE IF own \in DOMAIN live THEN live[own] + 1 ELSE 1]
    <2> DEFINE rhs == [x \in (DOMAIN live \ gone) \cup {own} |->
                         IF x # own THEN live[x]
                         ELSE IF own \in DOMAIN live THEN live[own] + 1 ELSE 1]
    <2>1. live1 = [b \in DOMAIN live1 |-> live1[b]]
      BY DEF live1, LiveOf
    <2>2. DOMAIN live1 = DOMAIN rhs
      BY <1>3, <1>4, <1>11
    <2>3. \A b \in DOMAIN live1 : live1[b] = rhs[b]
      BY <1>3, <1>4, <1>11, <1>12, <1>13
    <2>4. QED
      BY <2>1, <2>2, <2>3
  <1>15. closed1 = closed \cup {[flow |-> x, packets |-> live[x]] : x \in gone}
    <2> DEFINE entry(r) == [flow |-> r.flow.born, packets |-> Count(r.flow)]
               added == {[flow |-> x, packets |-> live[x]] : x \in gone}
    <2>1. ASSUME NEW r \in exported' PROVE entry(r) \in closed \cup added
      <3>1. CASE r \in exported
        BY <3>1 DEF ClosedOf
      <3>2. CASE r \notin exported
        <4>1. PICK k \in L : r.flow = table[k]
          BY <1>5, <3>2
        <4>2. k \in D /\ table[k].born \in gone /\ live[table[k].born] = Count(table[k])
          BY <1>3, <1>5, <4>1
        <4>3. QED
          BY <4>1, <4>2
      <3>3. QED
        BY <3>1, <3>2
    <2>2. ASSUME NEW k \in L
          PROVE  [flow |-> table[k].born, packets |-> live[table[k].born]] \in closed1
      <3>1. PICK r \in exported' : r.flow = table[k]
        BY <1>5
      <3>2. k \in D /\ live[table[k].born] = Count(table[k])
        BY <1>3, <1>5
      <3>3. QED
        BY <3>1, <3>2 DEF ClosedOf
    <2>3. closed \subseteq closed1
      BY <1>5 DEF ClosedOf
    <2>4. closed1 \subseteq closed \cup added
      BY <2>1 DEF ClosedOf
    <2>5. added \subseteq closed1
      BY <2>2
    <2>6. QED
      BY <2>3, <2>4, <2>5
  <1>16. Cardinality(DOMAIN live1) <= MaxActiveFlows
    <2>1. IsFiniteSet(DOMAIN table') /\ Cardinality(DOMAIN table') <= MaxActiveFlows
      BY DEF CapacityInv, CapacityBound
    <2>2. QED
      BY <1>4, <2>1, BornsCardinality
  <1>17. Ledger!Count1(own, gone)
    <2>1. LiveOf(table)' = LiveOf(table') /\ ClosedOf(exported)' = ClosedOf(exported')
      OBVIOUS
    <2> HIDE DEF gone, own
    <2>2. QED
      BY <1>1, <1>8, <1>14, <1>15, <1>16, <2>1, SameCardinality
         DEF Ledger!Count1, Ledger!Entry, live, live1, closed, closed1
  <1> HIDE DEF gone, own
  <1>18. gone \in SUBSET DOMAIN live /\ own \in DOMAIN live \cup {arrivals + 1}
    BY <1>3, <1>7, <1>9
  <1>19. QED
    BY <1>17, <1>18 DEF Ledger!LNext, live

LEMMA FlushLedger ==
  ASSUME Numbered, Flush
  PROVE  Ledger!LNext
  <1> DEFINE live == LiveOf(table)
             gone == Borns(table)
             closed == ClosedOf(exported)
  <1>1. /\ DOMAIN table' = {} /\ arrivals' = arrivals
        /\ exported' = exported \cup
             {Export(table[k], flush_reason(table[k]), clock) : k \in DOMAIN table}
    BY DEF Flush, Restrict
  <1>2. /\ DOMAIN live = gone
        /\ \A k \in DOMAIN table : table[k].born \in gone /\ live[table[k].born] = Count(table[k])
        /\ \A b \in gone : \E k \in DOMAIN table : b = table[k].born
    BY LiveOfValue DEF Numbered
  <1>3. LiveOf(table') = Restrict(live, DOMAIN live \ gone)
    <2>1. Borns(table') = {} /\ DOMAIN live \ gone = {}
      BY <1>1, <1>2 DEF Borns
    <2>2. QED
      BY <2>1 DEF LiveOf, Restrict
  <1> HIDE DEF live, gone
  <1>4. ClosedOf(exported') = closed \cup {[flow |-> x, packets |-> live[x]] : x \in gone}
    <2> DEFINE entry(r) == [flow |-> r.flow.born, packets |-> Count(r.flow)]
               added == {[flow |-> x, packets |-> live[x]] : x \in gone}
    <2>1. ASSUME NEW r \in exported' PROVE entry(r) \in closed \cup added
      <3>1. CASE r \in exported
        BY <3>1 DEF ClosedOf
      <3>2. CASE \E k \in DOMAIN table : r.flow = table[k]
        BY <1>2, <3>2
      <3>3. QED
        BY <1>1, <3>1, <3>2 DEF Export
    <2>2. ASSUME NEW b \in gone PROVE [flow |-> b, packets |-> live[b]] \in ClosedOf(exported')
      <3>1. PICK k \in DOMAIN table : b = table[k].born
        BY <1>2
      <3>2. Export(table[k], flush_reason(table[k]), clock) \in exported'
        BY <1>1
      <3>3. PICK r \in exported' : r.flow = table[k]
        BY <3>2 DEF Export
      <3>4. QED
        BY <1>2, <3>1, <3>3 DEF ClosedOf
    <2>3. closed \subseteq ClosedOf(exported')
      BY <1>1 DEF ClosedOf
    <2>4. ClosedOf(exported') \subseteq closed \cup added
      BY <2>1 DEF ClosedOf
    <2>5. added \subseteq ClosedOf(exported')
      BY <2>2
    <2>6. QED
      BY <2>3, <2>4, <2>5
  <1>5. Ledger!Close(gone)
    <2>1. LiveOf(table)' = LiveOf(table') /\ ClosedOf(exported)' = ClosedOf(exported')
      OBVIOUS
    <2>2. QED
      BY <1>1, <1>3, <1>4, <2>1
         DEF Ledger!Close, Ledger!Entry, Ledger!Restrict, Restrict, live, closed
  <1>6. gone \in SUBSET DOMAIN live
    BY <1>2
  <1>7. QED
    BY <1>5, <1>6 DEF Ledger!LNext, live

LEMMA InitLedger == Init => Ledger!LInit
  <1> SUFFICES ASSUME Init PROVE Ledger!LInit
    OBVIOUS
  <1>1. DOMAIN table = {} /\ exported = {} /\ arrivals = 0
    BY DEF Init
  <1>2. Borns(table) = {}
    BY <1>1 DEF Borns
  <1>3. QED
    BY <1>1, <1>2 DEF Ledger!LInit, LiveOf, ClosedOf

LEMMA NextLedger ==
  /\ TypeOK /\ SweepFresh
  /\ CapacityInv /\ CapacityInv'
  /\ Numbered /\ Numbered'
  /\ [Next]_vars
  => [Ledger!LNext]_(Ledger!ledger)
  <1> SUFFICES ASSUME TypeOK, SweepFresh, CapacityInv, CapacityInv', Numbered, Numbered',
                      [Next]_vars
               PROVE  [Ledger!LNext]_(Ledger!ledger)
    OBVIOUS
  <1>1. CASE \E p \in Packets : Update(p)
    BY <1>1, UpdateLedger
  <1>2. CASE Flush
    BY <1>2, FlushLedger
  <1>3. CASE UNCHANGED <<table, exported, arrivals>>
    BY <1>3 DEF Ledger!ledger
  <1>4. QED
    BY <1>1, <1>2, <1>3 DEF Next, Ignore, vars

\* Every behaviour of the tracker is one of the ledger.
THEOREM TrackerImplementsLedger == Spec => ImplementsLedger
  BY InitLedger, NextLedger, TypeCorrect, SweepNeverOverdue, TableStaysFinite,
     FlowsNumbered, PTL
     DEF Spec, ImplementsLedger, Ledger!LSpec

-----------------------------------------------------------------------------
(* One 5-tuple after the other, and who is evicted *)

\* Each flow lives from the packet that opened it to the last one counted in
\* it; no packet is the last of two active flows; and a flow opens after the
\* flows of its 5-tuple that were exported.
Successive ==
  /\ \A k \in DOMAIN table :
       table[k].born \in Nat /\ table[k].touched \in Nat
       /\ table[k].born <= table[k].touched /\ table[k].touched <= arrivals
  /\ \A j, k \in DOMAIN table : table[j].touched = table[k].touched => j = k
  /\ \A r \in exported :
       r.flow.born \in Nat /\ r.flow.touched \in Nat
       /\ r.flow.born <= r.flow.touched /\ r.flow.touched <= arrivals
  /\ \A r \in exported, k \in DOMAIN table :
       KeyOf(r.flow) = k => r.flow.touched < table[k].born
  /\ \A r, s \in exported :
       KeyOf(r.flow) = KeyOf(s.flow) /\ r.flow.born < s.flow.born => r.flow.touched < s.flow.born

\* The exports of a step that closes active flows as they are.
LEMMA ClosingSuccessive ==
  ASSUME TypeOK, Successive, NEW L \in SUBSET DOMAIN table, arrivals \in Nat, arrivals' \in Nat,
         arrivals' >= arrivals,
         \A r \in exported' : r \in exported \/ \E k \in L : r.flow = table[k]
  PROVE  /\ \A r \in exported' :
              r.flow.born \in Nat /\ r.flow.touched \in Nat
              /\ r.flow.born <= r.flow.touched /\ r.flow.touched <= arrivals
              /\ r.flow.touched <= arrivals'
         /\ \A r \in exported', k \in DOMAIN table \ L :
              KeyOf(r.flow) = k => r.flow.touched < table[k].born
         /\ \A r, s \in exported' :
              KeyOf(r.flow) = KeyOf(s.flow) /\ r.flow.born < s.flow.born => r.flow.touched < s.flow.born
  <1>1. \A k \in DOMAIN table : KeyOf(table[k]) = k
    BY DEF TypeOK
  <1>2. \A r \in exported' :
          r \in exported \/ \E k \in L : r.flow = table[k] /\ KeyOf(r.flow) = k
    BY <1>1
  <1>3. \A r \in exported' :
              r.flow.born \in Nat /\ r.flow.touched \in Nat
              /\ r.flow.born <= r.flow.touched /\ r.flow.touched <= arrivals
              /\ r.flow.touched <= arrivals'
    BY <1>2 DEF Successive
  <1>4. \A r \in exported', k \in DOMAIN table \ L :
              KeyOf(r.flow) = k => r.flow.touched < table[k].born
    BY <1>2 DEF Successive
  <1>5. ASSUME NEW r \in exported', NEW s \in exported',
               KeyOf(r.flow) = KeyOf(s.flow), r.flow.born < s.flow.born
        PROVE  r.flow.touched < s.flow.born
    <2>1. CASE r \in exported /\ s \in exported
      BY <1>5, <2>1 DEF Successive
    <2>2. CASE r \in exported /\ \E k \in L : s.flow = table[k] /\ KeyOf(s.flow) = k
      BY <1>5, <2>2 DEF Successive
    <2>3. CASE s \in exported /\ \E k \in L : r.flow = table[k] /\ KeyOf(r.flow) = k
      <3>1. s.flow.touched < r.flow.born
        BY <1>5, <2>3 DEF Successive
      <3>2. QED
        BY <1>3, <1>5, <3>1
    <2>4. CASE /\ \E k \in L : r.flow = table[k] /\ KeyOf(r.flow) = k
               /\ \E k \in L : s.flow = table[k] /\ KeyOf(s.flow) = k
      <3>1. r.flow = s.flow
        BY <1>5, <2>4
      <3>2. QED
        BY <1>3, <1>5, <3>1
    <2>5. QED
      BY <1>2, <2>1, <2>2, <2>3, <2>4
  <1>6. QED
    BY <1>3, <1>4, <1>5

LEMMA UpdateSuccessive ==
  ASSUME TypeOK, TypeOK', SweepFresh, Successive, NEW p \in Packets, Update(p)
  PROVE  Successive'
  <1> DEFINE D == DOMAIN table
  <1>1. arrivals \in Nat /\ arrivals' = arrivals + 1
    BY EnvironmentAssumption DEF TypeOK, Update
  <1>2. PICK now \in Nat, key \in Keys :
          LET L == Leaving(p, now)
          IN /\ L \subseteq D
             /\ DOMAIN table' = (D \ L) \cup {key}
             /\ \A k \in D \ L : k # key => table'[k] = table[k]
             /\ key \in D \ L => table'[key].born = table[key].born
             /\ key \notin D \ L => table'[key].born = arrivals + 1
             /\ \A r \in exported' \ exported : \E k \in L : r.flow = table[k]
    BY UpdateShape
  <1> DEFINE L == Leaving(p, now)
  <1> HIDE DEF L
  <1>3. /\ L \subseteq D /\ DOMAIN table' = (D \ L) \cup {key}
        /\ \A k \in DOMAIN table' : k # key => k \in D \ L /\ table'[k] = table[k]
        /\ key \in D \ L => table'[key].born = table[key].born
        /\ key \notin D \ L => table'[key].born = arrivals + 1
        /\ \A r \in exported' : r \in exported \/ \E k \in L : r.flow = table[k]
    BY <1>2 DEF L
  <1>4. table'[key].touched = arrivals + 1
    <2>1. PICK k \in DOMAIN table' : table'[k].touched = arrivals + 1
      BY <1>1, UpdateOwnFlow DEF SweepFresh
    <2>2. k = key
      BY <1>1, <1>3, <2>1 DEF Successive
    <2>3. QED
      BY <2>1, <2>2
  <1>5. /\ \A r \in exported' :
              r.flow.born \in Nat /\ r.flow.touched \in Nat
              /\ r.flow.born <= r.flow.touched /\ r.flow.touched <= arrivals
              /\ r.flow.touched <= arrivals'
        /\ \A r \in exported', k \in D \ L :
              KeyOf(r.flow) = k => r.flow.touched < table[k].born
        /\ \A r, s \in exported' :
              KeyOf(r.flow) = KeyOf(s.flow) /\ r.flow.born < s.flow.born => r.flow.touched < s.flow.born
    <2>1. L \in SUBSET DOMAIN table /\ arrivals' \in Nat /\ arrivals' >= arrivals
      BY <1>1, <1>3
    <2>2. \A r \in exported' : r \in exported \/ \E k \in L : r.flow = table[k]
      BY <1>3
    <2>3. QED
      BY <1>1, <2>1, <2>2, ClosingSuccessive
  <1>6. \A k \in DOMAIN table' :
          table'[k].born \in Nat /\ table'[k].touched \in Nat
          /\ table'[k].born <= table'[k].touched /\ table'[k].touched <= arrivals'
    <2> SUFFICES ASSUME NEW k \in DOMAIN table'
                 PROVE  table'[k].born \in Nat /\ table'[k].touched \in Nat
                        /\ table'[k].born <= table'[k].touched /\ table'[k].touched <= arrivals'
      OBVIOUS
    <2>1. CASE k # key
      BY <1>1, <1>3, <2>1 DEF Successive
    <2>2. CASE k = key /\ key \in D \ L
      BY <1>1, <1>3, <1>4, <2>2 DEF Successive
    <2>3. CASE k = key /\ key \notin D \ L
      BY <1>1, <1>3, <1>4, <2>3
    <2>4. QED
      BY <2>1, <2>2, <2>3
  <1>7. \A j, k \in DOMAIN table' : table'[j].touched = table'[k].touched => j = k
    BY <1>1, <1>3, <1>4 DEF Successive
  <1>8. \A r \in exported', k \in DOMAIN table' :
          KeyOf(r.flow) = k => r.flow.touched < table'[k].born
    <2> SUFFICES ASSUME NEW r \in exported', NEW k \in DOMAIN table', KeyOf(r.flow) = k
                 PROVE  r.flow.touched < table'[k].born
      OBVIOUS
    <2>1. CASE k \in D \ L
      BY <1>3, <1>5, <2>1
    <2>2. CASE k \notin D \ L
      BY <1>1, <1>3, <1>5, <2>2
    <2>3. QED
      BY <2>1, <2>2
  <1>9. QED
    BY <1>5, <1>6, <1>7, <1>8 DEF Successive

LEMMA NextSuccessive ==
  TypeOK /\ TypeOK' /\ SweepFresh /\ Successive /\ [Next]_vars => Successive'
  <1> SUFFICES ASSUME TypeOK, TypeOK', SweepFresh, Successive, [Next]_vars PROVE Successive'
    OBVIOUS
  <1>1. CASE \E p \in Packets : Update(p)
    BY <1>1, UpdateSuccessive
  <1>2. CASE Flush
    <2>1. DOMAIN table' = {} /\ arrivals' = arrivals /\ arrivals \in Nat
      BY <1>2, EnvironmentAssumption DEF Flush, Restrict, TypeOK
    <2>2. \A r \in exported' : r \in exported \/ \E k \in DOMAIN table : r.flow = table[k]
      BY <1>2 DEF Flush, Export
    <2>3. DOMAIN table \in SUBSET DOMAIN table /\ arrivals' \in Nat /\ arrivals' >= arrivals
      BY <2>1
    <2>4. /\ \A r \in exported' :
                r.flow.born \in Nat /\ r.flow.touched \in Nat
                /\ r.flow.born <= r.flow.touched /\ r.flow.touched <= arrivals'
          /\ \A r, s \in exported' :
                KeyOf(r.flow) = KeyOf(s.flow) /\ r.flow.born < s.flow.born => r.flow.touched < s.flow.born
      BY <2>1, <2>2, <2>3, ClosingSuccessive
    <2>5. QED
      BY <2>1, <2>4 DEF Successive
  <1>3. CASE UNCHANGED <<table, exported, arrivals>>
    BY <1>3 DEF Successive
  <1>4. QED
    BY <1>1, <1>2, <1>3 DEF Next, Ignore, vars

\* In every state of the tracker a flow ends with its last packet, and opens
\* after the flows of its 5-tuple that have ended.
THEOREM FlowsSuccessive == Spec => []Successive
  <1>1. Init => Successive
    BY DEF Init, Successive
  <1>2. QED
    BY <1>1, NextSuccessive, TypeCorrect, SweepNeverOverdue, PTL DEF Spec

\* Expiry, reuse of a port and eviction split the packets of a 5-tuple at one
\* point: of two of its flows one ends before the other begins.
THEOREM FlowsDisjoint == Spec => []FlowsOfKeyDisjoint
  <1>1. TypeOK /\ Successive => FlowsOfKeyDisjoint
    <2> SUFFICES ASSUME TypeOK, Successive, NEW f \in AllFlows, NEW g \in AllFlows,
                        f.proto = g.proto, {f.a, f.b} = {g.a, g.b}, f.born < g.born
                 PROVE  f.touched < g.born
      BY DEF FlowsOfKeyDisjoint
    <2>1. KeyOf(f) = KeyOf(g)
      BY DEF KeyOf, make_key
    <2>2. \A k \in DOMAIN table : KeyOf(table[k]) = k
      BY DEF TypeOK
    <2>3. CASE \E k \in DOMAIN table : f = table[k]
      <3>1. PICK k \in DOMAIN table : f = table[k] /\ KeyOf(f) = k
        BY <2>2, <2>3
      <3>2. CASE \E j \in DOMAIN table : g = table[j]
        <4>1. f = g
          BY <2>1, <2>2, <3>1, <3>2
        <4>2. f.born \in Nat /\ f.born < f.born
          BY <3>1, <4>1 DEF Successive
        <4>3. QED
          BY <4>2
      <3>3. CASE \E r \in exported : g = r.flow
        <4>1. g.touched < f.born
          BY <2>1, <3>1, <3>3 DEF Successive
        <4>2. QED
          BY <3>1, <3>3, <4>1 DEF Successive
      <3>4. QED
        BY <3>2, <3>3 DEF AllFlows
    <2>4. CASE \E r \in exported : f = r.flow
      <3>1. CASE \E j \in DOMAIN table : g = table[j]
        BY <2>1, <2>2, <2>4, <3>1 DEF Successive
      <3>2. CASE \E r \in exported : g = r.flow
        BY <2>1, <2>4, <3>2 DEF Successive
      <3>3. QED
        BY <3>1, <3>2 DEF AllFlows
    <2>5. QED
      BY <2>3, <2>4 DEF AllFlows
  <1>2. QED
    BY <1>1, TypeCorrect, FlowsSuccessive, PTL

\* What an update exports as evicted: the oldest flow of a full table, for a
\* packet of another 5-tuple, which opens a flow.
LEMMA UpdateEvicts ==
  ASSUME TypeOK, NEW p \in Packets, Update(p),
         NEW r \in exported' \ exported, r.reason = "evicted"
  PROVE  LET key == make_key(p.proto, p.src, p.dst)
         IN /\ key \notin DOMAIN table /\ Full(table) /\ DOMAIN table # {}
            /\ r.flow = table[oldest(table)]
            /\ event'.flow_id = <<key, p.ts>>
            /\ Gone(p) = {oldest(table)}
  <1> DEFINE now == IF p.ts > clock THEN p.ts ELSE clock
             key == make_key(p.proto, p.src, p.dst)
  <1>1. r \in {Export(table[d[1]], d[2], now) : d \in Displaced(p)} \cup SweptOut(Attach(p), now)
    BY DEF Update
  <1>2. r \notin SweptOut(Attach(p), now)
    BY DEF SweptOut, Export, get_close_reason
  <1>3. PICK d \in Displaced(p) : r = Export(table[d[1]], d[2], now)
    BY <1>1, <1>2
  <1>4. r.flow = table[d[1]] /\ d[2] = "evicted"
    BY <1>3 DEF Export
  <1>5. key \notin DOMAIN table /\ Full(table) /\ d = <<oldest(table), "evicted">>
    BY <1>4 DEF Displaced, get_close_reason
  <1>6. Gone(p) = {oldest(table)}
    BY <1>5 DEF Gone, Displaced
  <1>7. event'.flow_id = Attach(p)[key].id
    BY DEF Update, Tag
  <1>8. Attach(p)[key] = Absorb(NewFlow(p), p)
    BY <1>5, AttachShape
  <1>9. NewFlow(p) \in Flows /\ arrivals \in Nat /\ NewFlow(p).id = <<key, p.ts>>
    <2>1. arrivals \in Nat
      BY EnvironmentAssumption DEF TypeOK
    <2>2. NewFlow(p).id = <<key, p.ts>>
      BY DEF NewFlow, make_flow_id
    <2>3. QED
      BY <2>1, <2>2, NewFlowType
  <1>10. Absorb(NewFlow(p), p).id = <<key, p.ts>>
    BY <1>9, AbsorbType
  <1>11. DOMAIN table # {}
    BY <1>5, FS_EmptySet, ConfigAssumption DEF Full
  <1>12. QED
    BY <1>4, <1>5, <1>6, <1>7, <1>8, <1>10, <1>11

\* Only a full table evicts, and the flow that waited longest.
THEOREM OldestEvicted == Spec => EvictsLeastRecent
  <1> DEFINE Fair == \A r \in exported' \ exported : r.reason = "evicted" =>
               /\ Cardinality(DOMAIN table) = MaxActiveFlows
               /\ event'.flow_id[1] # KeyOf(r.flow)
               /\ \A k \in DOMAIN table' : table'[k].touched > r.flow.touched
  <1>1. TypeOK /\ SweepFresh /\ CapacityInv /\ Successive /\ Successive' /\ [Next]_vars => [Fair]_vars
    <2> SUFFICES ASSUME TypeOK, SweepFresh, CapacityInv, Successive, Successive', Next,
                        NEW r \in exported' \ exported, r.reason = "evicted"
                 PROVE  /\ Cardinality(DOMAIN table) = MaxActiveFlows
                        /\ event'.flow_id[1] # KeyOf(r.flow)
                        /\ \A k \in DOMAIN table' : table'[k].touched > r.flow.touched
      OBVIOUS
    <2>1. CASE Flush
      BY <2>1 DEF Flush, Export, flush_reason, get_close_reason
    <2>2. CASE \E p \in Packets : Update(p)
      <3>1. PICK p \in Packets : Update(p)
        BY <2>2
      <3> DEFINE key == make_key(p.proto, p.src, p.dst)
                 o == oldest(table)
      <3>2. /\ key \notin DOMAIN table /\ Full(table) /\ DOMAIN table # {}
            /\ r.flow = table[o] /\ event'.flow_id = <<key, p.ts>> /\ Gone(p) = {o}
        BY <3>1, UpdateEvicts
      <3>3. o \in DOMAIN table /\ \A j \in DOMAIN table : table[o].touched <= table[j].touched
        BY <3>2, OldestType DEF Successive
      <3>4. Cardinality(DOMAIN table) = MaxActiveFlows
        BY <3>2, FS_CardinalityType, ConfigAssumption DEF CapacityInv, CapacityBound, Full
      <3>5. KeyOf(r.flow) = o /\ key # o
        BY <3>2, <3>3 DEF TypeOK
      <3> HIDE DEF key, o
      <3>6. \A k \in DOMAIN table' : table'[k].touched > r.flow.touched
        <4>1. arrivals \in Nat /\ arrivals' = arrivals + 1 /\ r.flow.touched <= arrivals
              /\ r.flow.touched \in Nat
          BY <3>1, <3>2, <3>3, EnvironmentAssumption DEF Successive, TypeOK, Update
        <4>2. PICK now \in Nat, k0 \in Keys :
                /\ DOMAIN table' = (DOMAIN table \ Leaving(p, now)) \cup {k0}
                /\ \A k \in DOMAIN table \ Leaving(p, now) : k # k0 => table'[k] = table[k]
          BY <3>1, UpdateShape
        <4>3. o \in Leaving(p, now)
          BY <3>2 DEF Leaving
        <4>4. table'[k0].touched = arrivals + 1
          <5>1. PICK k \in DOMAIN table' : table'[k].touched = arrivals + 1
            BY <3>1, <4>1, UpdateOwnFlow DEF SweepFresh
          <5>2. k = k0
            BY <4>1, <4>2, <5>1 DEF Successive
          <5>3. QED
            BY <5>1, <5>2
        <4>5. ASSUME NEW k \in DOMAIN table', k # k0 PROVE table'[k].touched > r.flow.touched
          <5>1. k \in DOMAIN table /\ table'[k] = table[k] /\ k # o
            BY <4>2, <4>3, <4>5
          <5>2. table[k].touched # table[o].touched /\ table[k].touched \in Nat
            BY <3>3, <5>1 DEF Successive
          <5>3. QED
            BY <3>2, <3>3, <4>1, <5>1, <5>2
        <4>6. QED
          BY <4>1, <4>4, <4>5
      <3>7. event'.flow_id[1] = key
        BY <3>2
      <3>8. QED
        BY <3>4, <3>5, <3>6, <3>7
    <2>3. QED
      BY <2>1, <2>2 DEF Next, Ignore
  <1>2. QED
    BY <1>1, TypeCorrect, SweepNeverOverdue, TableStaysFinite, FlowsSuccessive, PTL
       DEF Spec, EvictsLeastRecent

-----------------------------------------------------------------------------
(* Sums over finite sets, as MapThenSumSet computes them *)

\* Induction over the naturals, for a set of numbers.
LEMMA Induction ==
  ASSUME NEW P \in SUBSET Nat, 0 \in P, \A n \in P : n + 1 \in P
  PROVE  \A n \in Nat : n \in P
  <1> DEFINE R == OpToRel(<, Nat)
             S == Nat \ P
  <1>1. \A m, n \in Nat : <<m, n>> \in R <=> m < n
    BY DEF OpToRel
  <1>2. S # {} => \E x \in S : \A y \in S : ~ (<<y, x>> \in R)
    <2>1. IsWellFoundedOn(R, Nat)
      BY NatLessThanWellFounded
    <2> HIDE DEF R
    <2>2. QED
      BY <2>1, WFMin
  <1> HIDE DEF R
  <1>3. CASE S # {}
    <2>1. PICK x \in S : \A y \in S : ~ (<<y, x>> \in R)
      BY <1>2, <1>3
    <2>2. x \in Nat /\ x # 0
      OBVIOUS
    <2>3. x - 1 \in Nat /\ x - 1 < x /\ x - 1 + 1 = x
      BY <2>2
    <2>4. x - 1 \in P
      BY <1>1, <2>1, <2>2, <2>3
    <2>5. x \in P
      BY <2>3, <2>4
    <2>6. QED
      BY <2>1, <2>5
  <1>4. CASE S = {}
    BY <1>4
  <1>5. QED
    BY <1>3, <1>4

Pick(s) == CHOOSE x \in s : TRUE

\* One step of the sum of the weights w over s, by the sums f of the subsets.
Adds(w, f, s) == f[s] = IF s = {} THEN 0 ELSE w[Pick(s)] + f[s \ {Pick(s)}]

\* The sum as MapThenSumSet computes it.
Total(w, S) ==
  (CHOOSE f : f = [s \in SUBSET S |-> IF s = {} THEN 0 ELSE w[Pick(s)] + f[s \ {Pick(s)}]])[S]

LEMMA Smaller ==
  ASSUME NEW s, IsFiniteSet(s), NEW x \in s
  PROVE  /\ IsFiniteSet(s \ {x}) /\ Cardinality(s) \in Nat /\ Cardinality(s \ {x}) \in Nat
         /\ Cardinality(s) = Cardinality(s \ {x}) + 1
  <1>1. IsFiniteSet(s \ {x}) /\ Cardinality(s \ {x}) = Cardinality(s) - 1
    BY FS_RemoveElement
  <1>2. Cardinality(s) \in Nat /\ Cardinality(s \ {x}) \in Nat
    BY <1>1, FS_CardinalityType
  <1>3. QED
    BY <1>1, <1>2

LEMMA Picked == ASSUME NEW s, s # {} PROVE Pick(s) \in s
  BY DEF Pick

LEMMA AddsExists ==
  ASSUME NEW S, IsFiniteSet(S), NEW w, \A x \in S : w[x] \in Nat
  PROVE  \E f \in [SUBSET S -> Nat] : \A s \in SUBSET S : Adds(w, f, s)
  <1> DEFINE B(n) == {s \in SUBSET S : Cardinality(s) <= n}
             P == {n \in Nat : \E f \in [B(n) -> Nat] : \A s \in B(n) : Adds(w, f, s)}
  <1>1. \A s \in SUBSET S : IsFiniteSet(s) /\ Cardinality(s) \in Nat /\ Cardinality(s) <= Cardinality(S)
    BY FS_Subset, FS_CardinalityType
  <1>2. 0 \in P
    <2> DEFINE f == [s \in B(0) |-> 0]
    <2>1. \A s \in B(0) : s = {}
      BY <1>1, FS_EmptySet
    <2>2. f \in [B(0) -> Nat] /\ \A s \in B(0) : Adds(w, f, s)
      BY <2>1 DEF Adds
    <2>3. QED
      BY <2>2
  <1>3. ASSUME NEW n \in P
        PROVE  n + 1 \in P
    <2>1. PICK f \in [B(n) -> Nat] : \A s \in B(n) : Adds(w, f, s)
      OBVIOUS
    <2>2. n \in Nat
      OBVIOUS
    <2> DEFINE g == [s \in B(n + 1) |-> IF s = {} THEN 0 ELSE w[Pick(s)] + f[s \ {Pick(s)}]]
    <2>3. ASSUME NEW s \in B(n + 1), s # {}
          PROVE  s \ {Pick(s)} \in B(n) /\ w[Pick(s)] \in Nat
      <3>1. Pick(s) \in s /\ s \in SUBSET S /\ Cardinality(s) <= n + 1
        BY <2>3, Picked
      <3>2. Cardinality(s) = Cardinality(s \ {Pick(s)}) + 1 /\ Cardinality(s \ {Pick(s)}) \in Nat
        BY <1>1, <3>1, Smaller
      <3>3. QED
        BY <2>2, <3>1, <3>2
    <2>4. g \in [B(n + 1) -> Nat]
      <3>1. ASSUME NEW s \in B(n + 1)
            PROVE  (IF s = {} THEN 0 ELSE w[Pick(s)] + f[s \ {Pick(s)}]) \in Nat
        <4>1. CASE s = {}
          BY <4>1
        <4>2. CASE s # {}
          <5>1. w[Pick(s)] \in Nat /\ f[s \ {Pick(s)}] \in Nat
            BY <2>3, <4>2
          <5>2. QED
            BY <4>2, <5>1
        <4>3. QED
          BY <4>1, <4>2
      <3> HIDE DEF B
      <3>2. QED
        BY <3>1
    <2>5. \A s \in B(n) : s \in B(n + 1) /\ g[s] = f[s]
      <3>1. \A s \in B(n) : s \in B(n + 1)
        BY <1>1, <2>2
      <3> HIDE DEF B
      <3>2. QED
        BY <2>1, <3>1 DEF Adds
    <2>6. ASSUME NEW s \in B(n + 1)
          PROVE  Adds(w, g, s)
      <3>1. g[s] = IF s = {} THEN 0 ELSE w[Pick(s)] + f[s \ {Pick(s)}]
        OBVIOUS
      <3>2. s # {} => g[s \ {Pick(s)}] = f[s \ {Pick(s)}]
        BY <2>3, <2>5
      <3> HIDE DEF g, B
      <3>3. QED
        BY <3>1, <3>2 DEF Adds
    <2>7. n + 1 \in Nat
      BY <2>2
    <2> HIDE DEF g, B
    <2>8. QED
      BY <2>4, <2>6, <2>7
  <1>4. Cardinality(S) \in P
    <2> HIDE DEF P
    <2>1. P \in SUBSET Nat
      BY DEF P
    <2>2. \A n \in Nat : n \in P
      BY <1>2, <1>3, <2>1, Induction
    <2>3. QED
      BY <2>2, FS_CardinalityType
  <1>5. B(Cardinality(S)) = SUBSET S
    BY <1>1
  <1> HIDE DEF B
  <1>6. QED
    BY <1>4, <1>5

LEMMA AddsUnique ==
  ASSUME NEW S, IsFiniteSet(S), NEW w, NEW v, NEW f, NEW g,
         \A x \in S : w[x] = v[x],
         \A s \in SUBSET S : Adds(w, f, s),
         \A s \in SUBSET S : Adds(v, g, s)
  PROVE  f[S] = g[S]
  <1> DEFINE P == {n \in Nat : \A s \in SUBSET S : Cardinality(s) = n => f[s] = g[s]}
  <1>1. \A s \in SUBSET S : IsFiniteSet(s) /\ Cardinality(s) \in Nat
    BY FS_Subset, FS_CardinalityType
  <1>2. 0 \in P
    <2>1. ASSUME NEW s \in SUBSET S, Cardinality(s) = 0
          PROVE  f[s] = g[s]
      <3>1. s = {}
        BY <1>1, <2>1, FS_EmptySet
      <3>2. QED
        BY <3>1 DEF Adds
    <2>2. QED
      BY <2>1
  <1>3. ASSUME NEW n \in P
        PROVE  n + 1 \in P
    <2>1. n \in Nat /\ n + 1 \in Nat /\ \A s \in SUBSET S : Cardinality(s) = n => f[s] = g[s]
      OBVIOUS
    <2>2. ASSUME NEW s \in SUBSET S, Cardinality(s) = n + 1
          PROVE  f[s] = g[s]
      <3>1. s # {}
        BY <2>1, <2>2, FS_EmptySet
      <3>2. Pick(s) \in s
        BY <3>1, Picked
      <3>3. Cardinality(s) = Cardinality(s \ {Pick(s)}) + 1 /\ Cardinality(s \ {Pick(s)}) \in Nat
        BY <1>1, <3>2, Smaller
      <3>4. Cardinality(s \ {Pick(s)}) = n /\ s \ {Pick(s)} \in SUBSET S
        BY <2>1, <2>2, <3>3
      <3>5. f[s \ {Pick(s)}] = g[s \ {Pick(s)}] /\ w[Pick(s)] = v[Pick(s)]
        BY <2>1, <3>2, <3>4
      <3>6. Adds(w, f, s) /\ Adds(v, g, s)
        OBVIOUS
      <3>7. QED
        BY <3>1, <3>5, <3>6 DEF Adds
    <2>3. QED
      BY <2>1, <2>2
  <1>4. Cardinality(S) \in P
    <2> HIDE DEF P
    <2>1. P \in SUBSET Nat
      BY DEF P
    <2>2. \A n \in Nat : n \in P
      BY <1>2, <1>3, <2>1, Induction
    <2>3. QED
      BY <2>2, FS_CardinalityType
  <1>5. QED
    BY <1>4

\* The total is what any function that adds the weights up says.
LEMMA TotalOf ==
  ASSUME NEW S, IsFiniteSet(S), NEW w, \A x \in S : w[x] \in Nat
  PROVE  /\ Total(w, S) \in Nat
         /\ \A f : (\A s \in SUBSET S : Adds(w, f, s)) => Total(w, S) = f[S]
  <1> DEFINE T(f) == [s \in SUBSET S |-> IF s = {} THEN 0 ELSE w[Pick(s)] + f[s \ {Pick(s)}]]
             t == CHOOSE f : f = T(f)
  <1>1. PICK g \in [SUBSET S -> Nat] : \A s \in SUBSET S : Adds(w, g, s)
    BY AddsExists
  <1>2. g = T(g)
    <2>1. \A s \in SUBSET S : g[s] = T(g)[s]
      BY <1>1 DEF Adds
    <2>2. QED
      BY <2>1
  <1>3. t = T(t)
    BY <1>2
  <1>4. \A s \in SUBSET S : Adds(w, t, s)
    <2> HIDE DEF t
    <2>1. \A s \in SUBSET S : t[s] = T(t)[s]
      BY <1>3
    <2>2. QED
      BY <2>1 DEF Adds
  <1>5. Total(w, S) = t[S]
    BY DEF Total
  <1> HIDE DEF t
  <1>6. ASSUME NEW f, \A s \in SUBSET S : Adds(w, f, s)
        PROVE  t[S] = f[S]
    BY <1>4, <1>6, AddsUnique
  <1>7. t[S] = g[S] /\ g[S] \in Nat
    BY <1>1, <1>6
  <1>8. QED
    BY <1>5, <1>6, <1>7

LEMMA TotalAdds ==
  ASSUME NEW S, IsFiniteSet(S), NEW w, \A x \in S : w[x] \in Nat
  PROVE  /\ S = {} => Total(w, S) = 0
         /\ S # {} => Total(w, S) = w[Pick(S)] + Total(w, S \ {Pick(S)})
  <1>1. PICK f \in [SUBSET S -> Nat] : \A s \in SUBSET S : Adds(w, f, s)
    BY AddsExists
  <1>2. Total(w, S) = f[S] /\ Adds(w, f, S)
    BY <1>1, TotalOf
  <1>3. ASSUME S # {}
        PROVE  Total(w, S \ {Pick(S)}) = f[S \ {Pick(S)}]
    <2> DEFINE R == S \ {Pick(S)}
    <2>1. IsFiniteSet(R) /\ R \subseteq S
      BY FS_RemoveElement
    <2> HIDE DEF R
    <2>2. Total(w, R) = f[R]
      BY <1>1, <2>1, TotalOf
    <2>3. QED
      BY <2>2 DEF R
  <1>4. QED
    BY <1>2, <1>3 DEF Adds

\* Weights that agree have the same total.
LEMMA TotalSame ==
  ASSUME NEW S, IsFiniteSet(S), NEW w, NEW v, \A x \in S : w[x] \in Nat /\ w[x] = v[x]
  PROVE  Total(w, S) = Total(v, S)
  <1>1. PICK f \in [SUBSET S -> Nat] : \A s \in SUBSET S : Adds(w, f, s)
    BY AddsExists
  <1>2. PICK g \in [SUBSET S -> Nat] : \A s \in SUBSET S : Adds(v, g, s)
    BY AddsExists
  <1>3. f[S] = g[S]
    BY <1>1, <1>2, AddsUnique
  <1>4. QED
    BY <1>1, <1>2, <1>3, TotalOf

\* Any element may be taken out of a sum.
LEMMA TotalRemove ==
  ASSUME NEW S, IsFiniteSet(S), NEW w, \A x \in S : w[x] \in Nat
  PROVE  \A y \in S : Total(w, S) = w[y] + Total(w, S \ {y})
  <1> DEFINE P == {n \in Nat : \A s \in SUBSET S : Cardinality(s) = n =>
                                 \A y \in s : Total(w, s) = w[y] + Total(w, s \ {y})}
  <1>1. \A s \in SUBSET S : IsFiniteSet(s) /\ Cardinality(s) \in Nat
    BY FS_Subset, FS_CardinalityType
  <1>2. \A s \in SUBSET S : /\ Total(w, s) \in Nat
                            /\ s # {} => Total(w, s) = w[Pick(s)] + Total(w, s \ {Pick(s)})
    BY <1>1, TotalOf, TotalAdds
  <1>3. 0 \in P
    <2>1. ASSUME NEW s \in SUBSET S, Cardinality(s) = 0
          PROVE  s = {}
      BY <1>1, <2>1, FS_EmptySet
    <2>2. QED
      BY <2>1
  <1>4. ASSUME NEW n \in P
        PROVE  n + 1 \in P
    <2>1. /\ n \in Nat /\ n + 1 \in Nat
          /\ \A s \in SUBSET S : Cardinality(s) = n => \A y \in s : Total(w, s) = w[y] + Total(w, s \ {y})
      OBVIOUS
    <2>2. ASSUME NEW s \in SUBSET S, Cardinality(s) = n + 1, NEW y \in s
          PROVE  Total(w, s) = w[y] + Total(w, s \ {y})
      <3>1. PICK c : c = Pick(s)
        OBVIOUS
      <3>2. c \in s /\ Total(w, s) = w[c] + Total(w, s \ {c})
        BY <1>2, <3>1, Picked
      <3>3. CASE y = c
        BY <3>2, <3>3
      <3>4. CASE y # c
        <4>1. \A x \in s : s \ {x} \in SUBSET S /\ Cardinality(s \ {x}) = n
          <5>1. ASSUME NEW x \in s PROVE Cardinality(s \ {x}) = n
            <6>1. Cardinality(s) = Cardinality(s \ {x}) + 1 /\ Cardinality(s \ {x}) \in Nat
              BY <1>1, Smaller
            <6>2. QED
              BY <2>1, <2>2, <6>1
          <5>2. QED
            BY <5>1
        <4>2. Total(w, s \ {c}) = w[y] + Total(w, (s \ {c}) \ {y})
          BY <2>1, <3>2, <3>4, <4>1
        <4>3. Total(w, s \ {y}) = w[c] + Total(w, (s \ {y}) \ {c})
          BY <2>1, <3>2, <3>4, <4>1
        <4>4. (s \ {y}) \ {c} = (s \ {c}) \ {y}
          OBVIOUS
        <4>5. w[c] \in Nat /\ w[y] \in Nat /\ Total(w, (s \ {c}) \ {y}) \in Nat
          BY <1>2, <3>2
        <4>6. \A a, b, t, u, v, x : a \in Nat /\ b \in Nat /\ t \in Nat /\ x = b + u /\ u = a + t /\ v = b + t
                 => x = a + v
          OBVIOUS
        <4>7. Total(w, s \ {y}) = w[c] + Total(w, (s \ {c}) \ {y})
          BY <4>3, <4>4
        <4> HIDE <4>3, <4>4
        <4>8. QED
          BY <3>2, <4>2, <4>5, <4>6, <4>7
      <3>5. QED
        BY <3>3, <3>4
    <2>3. QED
      BY <2>1, <2>2
  <1>5. Cardinality(S) \in P
    <2> HIDE DEF P
    <2>1. P \in SUBSET Nat
      BY DEF P
    <2>2. \A n \in Nat : n \in P
      BY <1>3, <1>4, <2>1, Induction
    <2>3. QED
      BY <2>2, FS_CardinalityType
  <1>6. QED
    BY <1>5

LEMMA TotalAdd ==
  ASSUME NEW S, IsFiniteSet(S), NEW w, NEW y, y \notin S, \A x \in S \cup {y} : w[x] \in Nat
  PROVE  Total(w, S \cup {y}) = w[y] + Total(w, S)
  <1> DEFINE T == S \cup {y}
  <1>1. IsFiniteSet(T) /\ T \ {y} = S /\ y \in T
    BY FS_AddElement
  <1> HIDE DEF T
  <1>2. \A x \in T : w[x] \in Nat
    BY DEF T
  <1>3. Total(w, T) = w[y] + Total(w, T \ {y})
    BY <1>1, <1>2, TotalRemove
  <1>4. QED
    BY <1>1, <1>3 DEF T

\* The cardinality is the total of ones.
LEMMA TotalOnes ==
  ASSUME NEW S, IsFiniteSet(S), NEW w, \A x \in S : w[x] = 1
  PROVE  Total(w, S) = Cardinality(S)
  <1> DEFINE P == {n \in Nat : \A s \in SUBSET S : Cardinality(s) = n => Total(w, s) = n}
  <1>1. \A s \in SUBSET S : IsFiniteSet(s) /\ Cardinality(s) \in Nat
    BY FS_Subset, FS_CardinalityType
  <1>2. \A s \in SUBSET S : /\ s = {} => Total(w, s) = 0
                            /\ s # {} => Total(w, s) = w[Pick(s)] + Total(w, s \ {Pick(s)})
    <2>1. ASSUME NEW s \in SUBSET S
          PROVE  /\ s = {} => Total(w, s) = 0
                 /\ s # {} => Total(w, s) = w[Pick(s)] + Total(w, s \ {Pick(s)})
      <3>1. IsFiniteSet(s) /\ \A x \in s : w[x] \in Nat
        BY <1>1
      <3>2. QED
        BY <3>1, TotalAdds
    <2>2. QED
      BY <2>1
  <1>3. 0 \in P
    <2>1. ASSUME NEW s \in SUBSET S, Cardinality(s) = 0
          PROVE  s = {}
      BY <1>1, <2>1, FS_EmptySet
    <2>2. QED
      BY <1>2, <2>1
  <1>4. ASSUME NEW n \in P
        PROVE  n + 1 \in P
    <2>1. n \in Nat /\ n + 1 \in Nat /\ \A s \in SUBSET S : Cardinality(s) = n => Total(w, s) = n
      OBVIOUS
    <2>2. ASSUME NEW s \in SUBSET S, Cardinality(s) = n + 1
          PROVE  Total(w, s) = n + 1
      <3>1. s # {}
        BY <2>1, <2>2, FS_EmptySet
      <3>2. Pick(s) \in s
        BY <3>1, Picked
      <3>3. Cardinality(s) = Cardinality(s \ {Pick(s)}) + 1 /\ Cardinality(s \ {Pick(s)}) \in Nat
        BY <1>1, <3>2, Smaller
      <3>4. Total(w, s \ {Pick(s)}) = n /\ w[Pick(s)] = 1
        BY <2>1, <2>2, <3>2, <3>3
      <3>5. QED
        BY <1>2, <2>1, <3>1, <3>4
    <2>3. QED
      BY <2>1, <2>2
  <1>5. Cardinality(S) \in P
    <2> HIDE DEF P
    <2>1. P \in SUBSET Nat
      BY DEF P
    <2>2. \A n \in Nat : n \in P
      BY <1>3, <1>4, <2>1, Induction
    <2>3. QED
      BY <2>2, FS_CardinalityType
  <1>6. QED
    BY <1>5

\* A sum splits over a set and the rest.
LEMMA TotalSplit ==
  ASSUME NEW S, IsFiniteSet(S), NEW w, \A x \in S : w[x] \in Nat
  PROVE  \A s \in SUBSET S : /\ Total(w, S) = Total(w, s) + Total(w, S \ s)
                             /\ Total(w, s) \in Nat
  <1> DEFINE P == {n \in Nat : \A s \in SUBSET S : Cardinality(s) = n =>
                                 Total(w, S) = Total(w, s) + Total(w, S \ s)}
  <1>1. \A s \in SUBSET S : /\ IsFiniteSet(s) /\ Cardinality(s) \in Nat
                            /\ \A x \in s : w[x] \in Nat
    BY FS_Subset, FS_CardinalityType
  <1>2. \A s \in SUBSET S : Total(w, s) \in Nat
    BY <1>1, TotalOf
  <1>3. \A s \in SUBSET S : \A y \in s : Total(w, s) = w[y] + Total(w, s \ {y})
    BY <1>1, TotalRemove
  <1>4. 0 \in P
    <2>1. ASSUME NEW s \in SUBSET S, Cardinality(s) = 0
          PROVE  Total(w, S) = Total(w, s) + Total(w, S \ s)
      <3>1. s = {} /\ S \ s = S
        BY <1>1, <2>1, FS_EmptySet
      <3>2. Total(w, s) = 0
        <4>1. Total(w, {}) = 0
          BY FS_EmptySet, TotalAdds
        <4>2. QED
          BY <3>1, <4>1
      <3>3. Total(w, S \ s) = Total(w, S) /\ Total(w, S) \in Nat
        BY <1>2, <3>1
      <3>4. QED
        BY <3>2, <3>3
    <2>2. QED
      BY <2>1
  <1>5. ASSUME NEW n \in P
        PROVE  n + 1 \in P
    <2>1. /\ n \in Nat /\ n + 1 \in Nat
          /\ \A s \in SUBSET S : Cardinality(s) = n => Total(w, S) = Total(w, s) + Total(w, S \ s)
      OBVIOUS
    <2>2. ASSUME NEW s \in SUBSET S, Cardinality(s) = n + 1
          PROVE  Total(w, S) = Total(w, s) + Total(w, S \ s)
      <3>1. PICK y \in s : TRUE
        <4>1. s # {}
          BY <2>1, <2>2, FS_EmptySet
        <4>2. QED
          BY <4>1
      <3>2. PICK r : r = s \ {y}
        OBVIOUS
      <3>3. Cardinality(r) = n /\ r \in SUBSET S
        <4>1. Cardinality(s) = Cardinality(s \ {y}) + 1 /\ Cardinality(s \ {y}) \in Nat
          BY <1>1, <3>1, Smaller
        <4>2. QED
          BY <2>1, <2>2, <3>2, <4>1
      <3>4. Total(w, S) = Total(w, r) + Total(w, S \ r)
        BY <2>1, <3>3
      <3>5. Total(w, s) = w[y] + Total(w, r)
        BY <1>3, <3>1, <3>2
      <3>6. Total(w, S \ r) = w[y] + Total(w, S \ s)
        <4>1. S \ r \in SUBSET S /\ y \in S \ r /\ (S \ r) \ {y} = S \ s
          BY <3>1, <3>2
        <4>2. Total(w, S \ r) = w[y] + Total(w, (S \ r) \ {y})
          BY <1>3, <4>1
        <4>3. QED
          BY <4>1, <4>2
      <3>7. w[y] \in Nat /\ Total(w, r) \in Nat /\ Total(w, S \ s) \in Nat
        BY <1>1, <1>2, <3>1, <3>3
      <3>8. \A a, b, c, t, u, v : a \in Nat /\ b \in Nat /\ c \in Nat /\ t = b + u /\ u = a + c /\ v = a + b
               => t = v + c
        OBVIOUS
      <3>9. QED
        BY <3>4, <3>5, <3>6, <3>7, <3>8
    <2>3. QED
      BY <2>1, <2>2
  <1>6. \A s \in SUBSET S : Cardinality(s) \in P
    <2> HIDE DEF P
    <2>1. P \in SUBSET Nat
      BY DEF P
    <2>2. \A n \in Nat : n \in P
      BY <1>4, <1>5, <2>1, Induction
    <2>3. QED
      BY <1>1, <2>2
  <1>7. QED
    BY <1>2, <1>6

Img(f, s) == {f[x] : x \in s}

\* A sum is the same after a one-to-one renaming.
LEMMA TotalRenamed ==
  ASSUME NEW S, IsFiniteSet(S), NEW w, NEW v, NEW f,
         \A x \in S : w[x] \in Nat /\ v[f[x]] = w[x],
         \A x, y \in S : f[x] = f[y] => x = y
  PROVE  IsFiniteSet(Img(f, S)) /\ Total(v, Img(f, S)) = Total(w, S)
  <1> DEFINE P == {n \in Nat : \A s \in SUBSET S : Cardinality(s) = n =>
                     IsFiniteSet(Img(f, s)) /\ Total(v, Img(f, s)) = Total(w, s)}
  <1>1. \A s \in SUBSET S : /\ IsFiniteSet(s) /\ Cardinality(s) \in Nat
                            /\ \A x \in s : w[x] \in Nat
    BY FS_Subset, FS_CardinalityType
  <1>2. 0 \in P
    <2>1. ASSUME NEW s \in SUBSET S, Cardinality(s) = 0
          PROVE  IsFiniteSet(Img(f, s)) /\ Total(v, Img(f, s)) = Total(w, s)
      <3>1. s = {} /\ Img(f, s) = {}
        BY <1>1, <2>1, FS_EmptySet DEF Img
      <3>2. Total(w, {}) = 0 /\ Total(v, {}) = 0
        <4>1. Total(w, {}) = 0
          BY FS_EmptySet, TotalAdds
        <4>2. Total(v, {}) = 0
          BY FS_EmptySet, TotalAdds
        <4>3. QED
          BY <4>1, <4>2
      <3>3. QED
        BY <3>1, <3>2, FS_EmptySet
    <2>2. QED
      BY <2>1
  <1>3. ASSUME NEW n \in P
        PROVE  n + 1 \in P
    <2>1. /\ n \in Nat /\ n + 1 \in Nat
          /\ \A s \in SUBSET S : Cardinality(s) = n =>
               IsFiniteSet(Img(f, s)) /\ Total(v, Img(f, s)) = Total(w, s)
      OBVIOUS
    <2>2. ASSUME NEW s \in SUBSET S, Cardinality(s) = n + 1
          PROVE  IsFiniteSet(Img(f, s)) /\ Total(v, Img(f, s)) = Total(w, s)
      <3>1. PICK y \in s : TRUE
        <4>1. s # {}
          BY <2>1, <2>2, FS_EmptySet
        <4>2. QED
          BY <4>1
      <3>2. PICK r : r = s \ {y}
        OBVIOUS
      <3>3. Cardinality(r) = n /\ r \in SUBSET S
        <4>1. Cardinality(s) = Cardinality(s \ {y}) + 1 /\ Cardinality(s \ {y}) \in Nat
          BY <1>1, <3>1, Smaller
        <4>2. QED
          BY <2>1, <2>2, <3>2, <4>1
      <3>4. IsFiniteSet(Img(f, r)) /\ Total(v, Img(f, r)) = Total(w, r)
        BY <2>1, <3>3
      <3>5. Img(f, s) = Img(f, r) \cup {f[y]} /\ f[y] \notin Img(f, r)
        BY <3>1, <3>2 DEF Img
      <3>6. IsFiniteSet(Img(f, r) \cup {f[y]})
        BY <3>4, FS_AddElement
      <3>7. Total(v, Img(f, r) \cup {f[y]}) = v[f[y]] + Total(v, Img(f, r))
        <4>1. \A z \in Img(f, r) \cup {f[y]} : v[z] \in Nat
          BY <3>1, <3>3 DEF Img
        <4>2. QED
          BY <3>4, <3>5, <4>1, TotalAdd
      <3>8. Total(w, s) = w[y] + Total(w, r)
        BY <1>1, <3>1, <3>2, TotalRemove
      <3>9. v[f[y]] = w[y]
        BY <3>1
      <3>10. QED
        BY <3>4, <3>5, <3>6, <3>7, <3>8, <3>9
    <2>3. QED
      BY <2>1, <2>2
  <1>4. Cardinality(S) \in P
    <2> HIDE DEF P
    <2>1. P \in SUBSET Nat
      BY DEF P
    <2>2. \A n \in Nat : n \in P
      BY <1>2, <1>3, <2>1, Induction
    <2>3. QED
      BY <2>2, FS_CardinalityType
  <1>5. QED
    BY <1>4

-----------------------------------------------------------------------------
(* Conservation *)

\* The sum of the function c of flows over the keys K, over the exports.
SumOf(tab, K, c) == Total([k \in K |-> c[tab[k]]], K)

DoneSum(ex, c) == Total([r \in ex |-> c[r.flow]], ex)

\* Exporting the flows of a set of keys, each once, moves their sum.
LEMMA ExportMoves ==
  ASSUME NEW tab, NEW ex, NEW ex1, NEW L, NEW c \in [Flows -> Nat],
         IsFiniteSet(L), IsFiniteSet(ex), ex \subseteq ex1,
         \A k \in L : tab[k] \in Flows,
         \A r \in ex : r.flow \in Flows,
         \A j, k \in L : tab[j] = tab[k] => j = k,
         \A r \in ex1 \ ex : \E k \in L : r.flow = tab[k],
         \A k \in L : \E r \in ex1 \ ex : r.flow = tab[k],
         \A r, s \in ex1 \ ex : r.flow = s.flow => r = s
  PROVE  /\ IsFiniteSet(ex1)
         /\ DoneSum(ex1, c) = DoneSum(ex, c) + SumOf(tab, L, c)
         /\ DoneSum(ex, c) \in Nat
  <1> DEFINE N == ex1 \ ex
             w == [k \in L |-> c[tab[k]]]
             v == [r \in ex1 |-> c[r.flow]]
             u == [r \in ex |-> c[r.flow]]
             f == [k \in L |-> CHOOSE r \in N : r.flow = tab[k]]
  <1>1. \A k \in L : f[k] \in N /\ f[k].flow = tab[k]
    OBVIOUS
  <1>2. \A k \in L : w[k] = c[tab[k]] /\ w[k] \in Nat
    OBVIOUS
  <1>3. \A r \in N : r.flow \in Flows /\ r \in ex1
    OBVIOUS
  <1>4. \A r \in ex1 : v[r] = c[r.flow] /\ v[r] \in Nat
    BY <1>3
  <1>5. \A r \in ex : u[r] = v[r] /\ u[r] \in Nat
    BY <1>4
  <1>6. \A r \in N : \E k \in L : f[k] = r
    <2>1. ASSUME NEW r \in N PROVE \E k \in L : f[k] = r
      <3>1. PICK k \in L : r.flow = tab[k]
        OBVIOUS
      <3>2. f[k] \in N /\ f[k].flow = r.flow
        BY <1>1, <3>1
      <3> HIDE DEF f
      <3>3. QED
        BY <3>2
    <2>2. QED
      BY <2>1
  <1> HIDE DEF w, v, u, f
  <1>7. N = Img(f, L)
    BY <1>1, <1>6 DEF Img
  <1>8. \A k \in L : w[k] \in Nat /\ v[f[k]] = w[k]
    BY <1>1, <1>2, <1>3, <1>4
  <1>9. \A j, k \in L : f[j] = f[k] => j = k
    BY <1>1
  <1> HIDE DEF N
  <1>10. IsFiniteSet(N) /\ Total(v, N) = Total(w, L)
    <2>1. IsFiniteSet(Img(f, L)) /\ Total(v, Img(f, L)) = Total(w, L)
      BY <1>8, <1>9, TotalRenamed
    <2>2. QED
      BY <1>7, <2>1
  <1>11. ex1 = ex \cup N /\ N = ex1 \ ex
    BY DEF N
  <1>12. IsFiniteSet(ex1)
    BY <1>10, <1>11, FS_Union
  <1>13. Total(v, ex1) = Total(v, ex) + Total(v, ex1 \ ex)
    BY <1>4, <1>12, TotalSplit
  <1>14. Total(u, ex) = Total(v, ex) /\ Total(u, ex) \in Nat
    BY <1>5, TotalSame, TotalOf
  <1>15. DoneSum(ex1, c) = Total(v, ex1) /\ DoneSum(ex, c) = Total(u, ex)
    BY DEF DoneSum, v, u
  <1>16. QED
    BY <1>10, <1>11, <1>12, <1>13, <1>14, <1>15 DEF w, SumOf

\* The sums of two tables that differ by the flows of L and that under key.
SumsDiffer(tab, tab1, L, key, c) ==
  /\ SumOf(tab, DOMAIN tab, c) + c[tab1[key]]
       = SumOf(tab1, DOMAIN tab1, c) + SumOf(tab, L, c)
          + (IF key \in DOMAIN tab \ L THEN c[tab[key]] ELSE 0)
  /\ SumOf(tab, DOMAIN tab, c) \in Nat /\ SumOf(tab1, DOMAIN tab1, c) \in Nat
  /\ SumOf(tab, L, c) \in Nat

\* When the flows of L leave the table and that under key is opened or changes,
\* the sum of the rest is unchanged.
LEMMA TableMoves ==
  ASSUME NEW tab, NEW tab1, NEW L, NEW key, NEW c \in [Flows -> Nat],
         IsFiniteSet(DOMAIN tab),
         \A k \in DOMAIN tab : tab[k] \in Flows,
         \A k \in DOMAIN tab1 : tab1[k] \in Flows,
         L \subseteq DOMAIN tab,
         DOMAIN tab1 = (DOMAIN tab \ L) \cup {key},
         \A k \in DOMAIN tab \ L : k # key => tab1[k] = tab[k]
  PROVE  SumsDiffer(tab, tab1, L, key, c)
  <1> DEFINE D == DOMAIN tab
             M == D \ L
             O == M \ {key}
             w == [k \in D |-> c[tab[k]]]
             x == [k \in L |-> c[tab[k]]]
             y == [k \in M \cup {key} |-> c[tab1[k]]]
  <1>1. \A k \in D : w[k] = c[tab[k]] /\ w[k] \in Nat
    OBVIOUS
  <1>2. \A k \in L : x[k] = w[k] /\ x[k] \in Nat
    OBVIOUS
  <1>3. \A k \in M \cup {key} : y[k] = c[tab1[k]] /\ y[k] \in Nat
    OBVIOUS
  <1>4. \A k \in O : y[k] = w[k] /\ k \in D /\ k \in M
    OBVIOUS
  <1>5. SumOf(tab, DOMAIN tab, c) = Total(w, D) /\ SumOf(tab1, DOMAIN tab1, c) = Total(y, M \cup {key})
    BY DEF SumOf
  <1>6. /\ IsFiniteSet(D) /\ IsFiniteSet(M) /\ IsFiniteSet(O) /\ IsFiniteSet(L)
        /\ IsFiniteSet(M \cup {key}) /\ IsFiniteSet(O \cup {key})
    <2>1. M \in SUBSET D /\ O \in SUBSET D /\ L \in SUBSET D
      OBVIOUS
    <2> HIDE DEF D, M, O
    <2>2. IsFiniteSet(D)
      BY DEF D
    <2>3. IsFiniteSet(M) /\ IsFiniteSet(O) /\ IsFiniteSet(L)
      BY <2>1, <2>2, FS_Subset
    <2>4. IsFiniteSet(M \cup {key}) /\ IsFiniteSet(O \cup {key})
      BY <2>3, FS_AddElement
    <2>5. QED
      BY <2>2, <2>3, <2>4
  <1>7. M \in SUBSET D /\ D \ M = L /\ M \cup {key} = O \cup {key} /\ key \notin O
    OBVIOUS
  <1>8. y[key] = c[tab1[key]] /\ (key \in M => w[key] = c[tab[key]])
    OBVIOUS
  <1> DEFINE e == IF key \in M THEN w[key] ELSE 0
  <1>9. key \in M => M = O \cup {key}
    OBVIOUS
  <1>10. key \notin M => M = O
    OBVIOUS
  <1> HIDE DEF D, M, O, w, x, y, e
  <1>11. Total(w, D) = Total(w, M) + Total(w, L) /\ Total(w, D) \in Nat /\ Total(w, M) \in Nat
    <2>1. Total(w, D) = Total(w, M) + Total(w, D \ M) /\ Total(w, M) \in Nat
      BY <1>1, <1>6, <1>7, TotalSplit
    <2>2. Total(w, D) \in Nat
      BY <1>1, <1>6, TotalOf
    <2>3. QED
      BY <1>7, <2>1, <2>2
  <1>12. Total(x, L) = Total(w, L) /\ Total(x, L) \in Nat
    BY <1>2, <1>6, TotalSame, TotalOf
  <1>13. Total(y, O) = Total(w, O) /\ Total(y, O) \in Nat
    <2>1. \A k \in O : y[k] \in Nat /\ y[k] = w[k]
      BY <1>3, <1>4
    <2>2. QED
      BY <2>1, <1>6, TotalSame, TotalOf
  <1>14. Total(y, O \cup {key}) = y[key] + Total(y, O) /\ y[key] \in Nat
    <2>1. \A k \in O \cup {key} : y[k] \in Nat
      BY <1>3, <1>7
    <2>2. QED
      BY <2>1, <1>6, <1>7, TotalAdd
  <1>15. Total(w, M) = e + Total(w, O) /\ e \in Nat
    <2>1. CASE key \in M
      <3>1. \A k \in O \cup {key} : w[k] \in Nat
        BY <1>1, <1>4, <1>7, <2>1
      <3>2. Total(w, O \cup {key}) = w[key] + Total(w, O)
        BY <3>1, <1>6, <1>7, TotalAdd
      <3>3. QED
        BY <1>9, <2>1, <3>1, <3>2 DEF e
    <2>2. CASE key \notin M
      BY <1>10, <1>13, <2>2 DEF e
    <2>3. QED
      BY <2>1, <2>2
  <1>16. Total(y, M \cup {key}) = y[key] + Total(w, O)
    <2>1. Total(y, M \cup {key}) = Total(y, O \cup {key})
      BY <1>7
    <2>2. QED
      BY <1>13, <1>14, <2>1
  <1>17. SumOf(tab, DOMAIN tab, c) + y[key] = SumOf(tab1, DOMAIN tab1, c) + Total(x, L) + e
    BY <1>5, <1>11, <1>12, <1>13, <1>14, <1>15, <1>16
  <1>18. SumOf(tab, DOMAIN tab, c) \in Nat /\ SumOf(tab1, DOMAIN tab1, c) \in Nat
    BY <1>5, <1>11, <1>13, <1>14, <1>16
  <1>19. y[key] = c[tab1[key]] /\ e = IF key \in DOMAIN tab \ L THEN c[tab[key]] ELSE 0
    BY <1>8 DEF e, M, D
  <1>20. QED
    BY <1>12, <1>17, <1>18, <1>19 DEF x, SumOf, SumsDiffer

\* Each flow is exported once.
ExportedOnce ==
  /\ IsFiniteSet(exported)
  /\ \A r, s \in exported : r.flow.born = s.flow.born => r = s

\* A flow is displaced or swept by one update, not both, and for one reason.
LEMMA UpdateExportsOnce ==
  ASSUME TypeOK, SweepFresh, Numbered, NEW p \in Packets, Update(p)
  PROVE  \A r, s \in exported' \ exported : r.flow = s.flow => r = s
  <1> DEFINE now == IF p.ts > clock THEN p.ts ELSE clock
             key == make_key(p.proto, p.src, p.dst)
             D == DOMAIN table
             A == Attach(p)
             S == IF SweepDue(now) THEN Expired(A, now) ELSE {}
             out(d) == Export(table[d[1]], d[2], now)
             swept(k) == Export(A[k], get_close_reason(A[k]), now)
  <1>1. \A d, e \in Displaced(p) : d = e
    BY DEF Displaced
  <1>2. \A d \in Displaced(p) : d[1] \in D /\ out(d).flow = table[d[1]]
    <2>1. \A d \in Displaced(p) : d[1] \in D
      BY DisplacedType
    <2>2. \A d \in Displaced(p) : out(d).flow = table[d[1]]
      BY DEF Export
    <2>3. QED
      BY <2>1, <2>2
  <1>3. \A k \in S : k \in D \ Gone(p) /\ A[k] = table[k]
    <2>1. /\ DOMAIN A = (D \ Gone(p)) \cup {key}
          /\ \A k \in DOMAIN A \ {key} : k \in D \ Gone(p) /\ A[k] = table[k]
      BY AttachShape
    <2>2. key \notin S
      BY OwnFlowUnexpired DEF Expired, SweepFresh
    <2>3. S \subseteq DOMAIN A
      BY DEF Expired
    <2> HIDE DEF S, A, key
    <2>4. QED
      BY <2>1, <2>2, <2>3
  <1>4. \A k \in S : swept(k).flow = table[k]
    BY <1>3 DEF Export
  <1>5. \A r \in exported' \ exported :
          (\E d \in Displaced(p) : r = out(d)) \/ (\E k \in S : r = swept(k))
    BY DEF Update, SweptOut
  <1>6. \A d \in Displaced(p) : d[1] \in Gone(p)
    BY DEF Gone
  <1>7. \A j, k \in D : table[j] = table[k] => j = k
    BY DEF Numbered
  <1> SUFFICES ASSUME NEW r \in exported' \ exported, NEW s \in exported' \ exported,
                      r.flow = s.flow
               PROVE  r = s
    OBVIOUS
  <1> HIDE DEF out, swept, S, A, D
  <1>8. CASE \E d, e \in Displaced(p) : r = out(d) /\ s = out(e)
    BY <1>1, <1>8
  <1>9. CASE \E j, k \in S : r = swept(j) /\ s = swept(k)
    <2>1. PICK j \in S, k \in S : r = swept(j) /\ s = swept(k)
      BY <1>9
    <2>2. j = k
      BY <1>3, <1>4, <1>7, <2>1
    <2>3. QED
      BY <2>1, <2>2
  <1>10. ~ \E d \in Displaced(p), k \in S : out(d).flow = swept(k).flow
    BY <1>2, <1>3, <1>4, <1>6, <1>7
  <1>11. QED
    BY <1>5, <1>8, <1>9, <1>10

\* A flow is counted as opened when its number is that of the packet.
LEMMA UpdateOpens ==
  ASSUME TypeOK, SweepFresh, Numbered, NEW p \in Packets, Update(p)
  PROVE  opened' = IF \E k \in DOMAIN table' : table'[k].born = arrivals + 1
                     THEN opened + 1 ELSE opened
  <1> DEFINE key == make_key(p.proto, p.src, p.dst)
  <1>1. key \in DOMAIN table' /\ table'[key] = Attach(p)[key]
    BY UpdateKeepsOwn DEF SweepFresh
  <1>2. opened' = IF Attach(p)[key].born = arrivals + 1 THEN opened + 1 ELSE opened
    BY DEF Update
  <1>3. \A k \in DOMAIN table' : k # key => table'[k].born # arrivals + 1
    <2>1. ASSUME NEW k \in DOMAIN table', k # key
          PROVE  table'[k].born # arrivals + 1
      <3>1. k \in DOMAIN Attach(p) /\ table'[k] = Attach(p)[k]
        BY DEF Update, Unexpired, Restrict
      <3>2. k \in DOMAIN table /\ table'[k] = table[k]
        BY <2>1, <3>1, AttachShape
      <3>3. table[k].born \in 1..arrivals /\ arrivals \in Nat
        BY <3>2, EnvironmentAssumption DEF Numbered, TypeOK
      <3>4. QED
        BY <3>2, <3>3
    <2>2. QED
      BY <2>1
  <1>4. QED
    BY <1>1, <1>2, <1>3

PacketsOf == [f \in Flows |-> Count(f)]

OneEach == [f \in Flows |-> 1]

\* Packets and flows add up over the table and the exports.
Balanced ==
  /\ arrivals = SumOf(table, DOMAIN table, PacketsOf) + DoneSum(exported, PacketsOf)
  /\ opened = SumOf(table, DOMAIN table, OneEach) + DoneSum(exported, OneEach)

LEMMA CountsType == PacketsOf \in [Flows -> Nat] /\ OneEach \in [Flows -> Nat]
  <1>1. \A f \in Flows : Count(f) \in Nat
    BY DEF Flows, Count
  <1>2. QED
    BY <1>1 DEF PacketsOf, OneEach

LEMMA UpdateBalanced ==
  ASSUME TypeOK, TypeOK', SweepFresh, CapacityInv, Numbered, Numbered', ExportedOnce,
         Balanced, NEW p \in Packets, Update(p)
  PROVE  ExportedOnce' /\ Balanced'
  <1>1. PICK now \in Nat, key \in Keys :
          LET D == DOMAIN table
              L == Leaving(p, now)
          IN /\ L \subseteq D
             /\ DOMAIN table' = (D \ L) \cup {key}
             /\ \A k \in D \ L : k # key => table'[k] = table[k]
             /\ key \in D \ L =>
                  /\ table'[key].born = table[key].born
                  /\ Count(table'[key]) = Count(table[key]) + 1
             /\ key \notin D \ L =>
                  table'[key].born = arrivals + 1 /\ Count(table'[key]) = 1
             /\ \A r \in exported' \ exported : \E k \in L : r.flow = table[k]
             /\ \A k \in L : \E r \in exported' : r.flow = table[k]
             /\ exported \subseteq exported'
    BY UpdateShape
  <1> DEFINE L == Leaving(p, now)
  <1> HIDE DEF L
  <1>2. /\ L \subseteq DOMAIN table
        /\ DOMAIN table' = (DOMAIN table \ L) \cup {key}
        /\ \A k \in DOMAIN table \ L : k # key => table'[k] = table[k]
        /\ key \in DOMAIN table \ L =>
             /\ table'[key].born = table[key].born
             /\ Count(table'[key]) = Count(table[key]) + 1
        /\ key \notin DOMAIN table \ L =>
             table'[key].born = arrivals + 1 /\ Count(table'[key]) = 1
        /\ \A r \in exported' \ exported : \E k \in L : r.flow = table[k]
        /\ \A k \in L : \E r \in exported' : r.flow = table[k]
        /\ exported \subseteq exported'
    BY <1>1 DEF L
  <1>3. /\ IsFiniteSet(DOMAIN table) /\ IsFiniteSet(L) /\ IsFiniteSet(exported)
    BY <1>2, FS_Subset DEF CapacityInv, ExportedOnce
  <1>4. /\ \A k \in DOMAIN table : table[k] \in Flows
        /\ \A k \in DOMAIN table' : table'[k] \in Flows
        /\ \A r \in exported : r.flow \in Flows
    BY DEF TypeOK
  <1>5. \A j, k \in DOMAIN table : table[j] = table[k] => j = k
    BY DEF Numbered
  <1>6. \A k \in L : \E r \in exported' \ exported : r.flow = table[k]
    <2>1. ASSUME NEW k \in L PROVE \E r \in exported' \ exported : r.flow = table[k]
      <3>1. PICK r \in exported' : r.flow = table[k]
        BY <1>2
      <3>2. r \notin exported
        BY <1>2, <3>1 DEF Numbered
      <3>3. QED
        BY <3>1, <3>2
    <2>2. QED
      BY <2>1
  <1>7. \A r, s \in exported' \ exported : r.flow = s.flow => r = s
    BY UpdateExportsOnce
  <1>8. ASSUME NEW c \in [Flows -> Nat]
        PROVE  /\ IsFiniteSet(exported')
               /\ DoneSum(exported', c)
                    = DoneSum(exported, c) + SumOf(table, L, c)
               /\ DoneSum(exported, c) \in Nat
    <2>1. /\ \A k \in L : table[k] \in Flows
          /\ \A j, k \in L : table[j] = table[k] => j = k
      BY <1>2, <1>4, <1>5
    <2>2. QED
      BY <1>2, <1>3, <1>4, <1>6, <1>7, <2>1, ExportMoves
  <1>9. ASSUME NEW c \in [Flows -> Nat], NEW d \in Nat,
               key \in DOMAIN table \ L => c[table'[key]] = c[table[key]] + d,
               key \notin DOMAIN table \ L => c[table'[key]] = d
        PROVE  SumOf(table', DOMAIN table', c) + DoneSum(exported', c)
                 = SumOf(table, DOMAIN table, c) + DoneSum(exported, c) + d
    <2>1. /\ SumOf(table, DOMAIN table, c) + c[table'[key]]
               = SumOf(table', DOMAIN table', c) + SumOf(table, L, c)
                  + (IF key \in DOMAIN table \ L THEN c[table[key]] ELSE 0)
          /\ SumOf(table, DOMAIN table, c) \in Nat /\ SumOf(table', DOMAIN table', c) \in Nat
          /\ SumOf(table, L, c) \in Nat
      <3>1. IsFiniteSet(DOMAIN table)
        BY <1>3
      <3>2. \A k \in DOMAIN table : table[k] \in Flows
        BY <1>4
      <3>3. \A k \in DOMAIN table' : table'[k] \in Flows
        BY <1>4
      <3>4. L \subseteq DOMAIN table /\ DOMAIN table' = (DOMAIN table \ L) \cup {key}
        BY <1>2
      <3>5. \A k \in DOMAIN table \ L : k # key => table'[k] = table[k]
        BY <1>2
      <3> HIDE <1>2, <1>3, <1>4
      <3>6. PICK t1 : t1 = table'
        OBVIOUS
      <3>7. \A k \in DOMAIN t1 : t1[k] \in Flows
        BY <3>3, <3>6
      <3>8. DOMAIN t1 = (DOMAIN table \ L) \cup {key}
        BY <3>4, <3>6
      <3>9. \A k \in DOMAIN table \ L : k # key => t1[k] = table[k]
        BY <3>5, <3>6
      <3>10. SumsDiffer(table, t1, L, key, c)
        BY <3>1, <3>2, <3>4, <3>7, <3>8, <3>9, TableMoves
      <3>11. QED
        BY <3>6, <3>10 DEF SumsDiffer
    <2>2. key \in DOMAIN table \ L => c[table[key]] \in Nat
      BY <1>2, <1>4
    <2>3. QED
      BY <1>8, <1>9, <2>1, <2>2
  <1>10. table'[key] \in Flows /\ (key \in DOMAIN table \ L => table[key] \in Flows)
    BY <1>2, <1>4
  <1>11. SumOf(table', DOMAIN table', PacketsOf) + DoneSum(exported', PacketsOf)
           = SumOf(table, DOMAIN table, PacketsOf) + DoneSum(exported, PacketsOf) + 1
    <2>1. /\ key \in DOMAIN table \ L => PacketsOf[table'[key]] = PacketsOf[table[key]] + 1
          /\ key \notin DOMAIN table \ L => PacketsOf[table'[key]] = 1
      BY <1>2, <1>10 DEF PacketsOf
    <2>2. QED
      BY <1>9, <2>1, CountsType
  <1>12. PICK d \in {0, 1} : d = IF key \in DOMAIN table \ L THEN 0 ELSE 1
    OBVIOUS
  <1>13. SumOf(table', DOMAIN table', OneEach) + DoneSum(exported', OneEach)
           = SumOf(table, DOMAIN table, OneEach) + DoneSum(exported, OneEach) + d
    <2>1. /\ key \in DOMAIN table \ L => OneEach[table'[key]] = OneEach[table[key]] + d
          /\ key \notin DOMAIN table \ L => OneEach[table'[key]] = d
      BY <1>10, <1>12 DEF OneEach
    <2>2. QED
      BY <1>9, <1>12, <2>1, CountsType
  <1>14. opened' = opened + d
    <2>1. arrivals \in Nat /\ opened \in Nat
      BY EnvironmentAssumption DEF TypeOK
    <2>2. \A k \in DOMAIN table' : k # key => table'[k].born \in 1..arrivals
      BY <1>2 DEF Numbered
    <2>3. key \in DOMAIN table \ L => table'[key].born \in 1..arrivals
      BY <1>2 DEF Numbered
    <2>4. (\E k \in DOMAIN table' : table'[k].born = arrivals + 1) <=> key \notin DOMAIN table \ L
      BY <1>2, <2>1, <2>2, <2>3
    <2>5. QED
      BY <1>12, <2>1, <2>4, UpdateOpens
  <1>15. arrivals' = arrivals + 1
    BY DEF Update
  <1>16. Balanced'
    BY <1>11, <1>13, <1>14, <1>15 DEF Balanced
  <1>17. ExportedOnce'
    <2>1. IsFiniteSet(exported')
      BY <1>8, CountsType
    <2>2. ASSUME NEW r \in exported', NEW s \in exported', r.flow.born = s.flow.born
          PROVE  r = s
      <3>1. CASE r \in exported /\ s \in exported
        BY <2>2, <3>1 DEF ExportedOnce
      <3>2. CASE r \notin exported /\ s \notin exported
        <4>1. PICK j \in L, k \in L : r.flow = table[j] /\ s.flow = table[k]
          BY <1>2, <3>2
        <4>2. r.flow = s.flow
          BY <1>2, <2>2, <4>1 DEF Numbered
        <4>3. QED
          BY <1>7, <3>2, <4>2
      <3>3. CASE r \in exported /\ s \notin exported
        BY <1>2, <2>2, <3>3 DEF Numbered
      <3>4. CASE r \notin exported /\ s \in exported
        BY <1>2, <2>2, <3>4 DEF Numbered
      <3>5. QED
        BY <3>1, <3>2, <3>3, <3>4
    <2>3. QED
      BY <2>1, <2>2 DEF ExportedOnce
  <1>18. QED
    BY <1>16, <1>17

LEMMA FlushBalanced ==
  ASSUME TypeOK, CapacityInv, Numbered, ExportedOnce, Balanced, Flush
  PROVE  ExportedOnce' /\ Balanced'
  <1> DEFINE D == DOMAIN table
             out(k) == Export(table[k], flush_reason(table[k]), clock)
  <1>1. /\ DOMAIN table' = {} /\ arrivals' = arrivals /\ opened' = opened
        /\ exported' = exported \cup {out(k) : k \in D}
    BY DEF Flush, Restrict
  <1>2. \A k \in D : out(k).flow = table[k]
    BY DEF Export
  <1>3. \A j, k \in D : table[j].born = table[k].born => j = k
    BY DEF Numbered
  <1>4. \A k \in D, r \in exported : r.flow.born # table[k].born
    BY DEF Numbered
  <1> HIDE DEF out
  <1>5. \A r \in exported' \ exported : \E k \in D : r = out(k)
    BY <1>1
  <1>6. \A k \in D : out(k) \in exported' \ exported
    BY <1>1, <1>2, <1>4
  <1>7. ASSUME NEW c \in [Flows -> Nat]
        PROVE  /\ IsFiniteSet(exported')
               /\ DoneSum(exported', c) = DoneSum(exported, c) + SumOf(table, D, c)
               /\ DoneSum(exported, c) \in Nat
    <2>1. IsFiniteSet(D) /\ IsFiniteSet(exported) /\ exported \subseteq exported'
      BY <1>1 DEF CapacityInv, ExportedOnce
    <2>2. (\A k \in D : table[k] \in Flows) /\ (\A r \in exported : r.flow \in Flows)
      BY DEF TypeOK
    <2>3. \A j, k \in D : table[j] = table[k] => j = k
      BY <1>3
    <2>4. \A r \in exported' \ exported : \E k \in D : r.flow = table[k]
      BY <1>2, <1>5
    <2>5. \A k \in D : \E r \in exported' \ exported : r.flow = table[k]
      BY <1>2, <1>6
    <2>6. \A r, s \in exported' \ exported : r.flow = s.flow => r = s
      BY <1>2, <1>5, <2>3
    <2>7. QED
      BY <2>1, <2>2, <2>3, <2>4, <2>5, <2>6, ExportMoves
  <1>8. ASSUME NEW c \in [Flows -> Nat]
        PROVE  SumOf(table', DOMAIN table', c) + DoneSum(exported', c)
                 = SumOf(table, DOMAIN table, c) + DoneSum(exported, c)
    <2>1. SumOf(table', DOMAIN table', c) = 0
      BY <1>1, FS_EmptySet, TotalAdds DEF SumOf
    <2>2. SumOf(table, DOMAIN table, c) \in Nat
      <3> DEFINE w == [k \in D |-> c[table[k]]]
      <3>1. IsFiniteSet(D) /\ \A k \in D : w[k] \in Nat
        BY DEF CapacityInv, TypeOK
      <3> HIDE DEF w
      <3>2. Total(w, D) \in Nat
        BY <3>1, TotalOf
      <3>3. QED
        BY <3>2 DEF SumOf, w
    <2>3. QED
      BY <1>7, <2>1, <2>2
  <1>9. Balanced'
    BY <1>1, <1>8, CountsType DEF Balanced
  <1>10. IsFiniteSet(exported')
    BY <1>7, CountsType
  <1>11. ASSUME NEW r \in exported', NEW s \in exported', r.flow.born = s.flow.born
         PROVE  r = s
    BY <1>1, <1>2, <1>3, <1>4, <1>5, <1>11 DEF ExportedOnce
  <1>12. QED
    BY <1>9, <1>10, <1>11 DEF ExportedOnce

LEMMA NextBalanced ==
  /\ TypeOK /\ TypeOK' /\ SweepFresh /\ CapacityInv
  /\ Numbered /\ Numbered'
  /\ ExportedOnce /\ Balanced
  /\ [Next]_vars
  => ExportedOnce' /\ Balanced'
  <1> SUFFICES ASSUME TypeOK, TypeOK', SweepFresh, CapacityInv, Numbered, Numbered',
                      ExportedOnce, Balanced, [Next]_vars
               PROVE  ExportedOnce' /\ Balanced'
    OBVIOUS
  <1>1. CASE \E p \in Packets : Update(p)
    BY <1>1, UpdateBalanced
  <1>2. CASE Flush
    BY <1>2, FlushBalanced
  <1>3. CASE UNCHANGED <<table, exported, arrivals, opened>>
    BY <1>3 DEF ExportedOnce, Balanced
  <1>4. QED
    BY <1>1, <1>2, <1>3 DEF Next, Ignore, vars

LEMMA InitBalanced == Init => ExportedOnce /\ Balanced
  <1> SUFFICES ASSUME Init PROVE ExportedOnce /\ Balanced
    OBVIOUS
  <1>1. DOMAIN table = {} /\ exported = {} /\ arrivals = 0 /\ opened = 0
    BY DEF Init
  <1>2. \A w : Total(w, {}) = 0
    BY FS_EmptySet, TotalAdds
  <1>3. ASSUME NEW c
        PROVE  SumOf(table, DOMAIN table, c) = 0 /\ DoneSum(exported, c) = 0
    BY <1>1, <1>2 DEF SumOf, DoneSum
  <1>4. Balanced
    BY <1>1, <1>3 DEF Balanced
  <1>5. QED
    BY <1>1, <1>4, FS_EmptySet DEF ExportedOnce

\* What the sums of the specification say.
LEMMA TableTotal ==
  MapThenSumSet(LAMBDA k : Count(table[k]), DOMAIN table)
    = Total([k \in DOMAIN table |-> Count(table[k])], DOMAIN table)
  <1> DEFINE w == [k \in DOMAIN table |-> Count(table[k])]
             S == DOMAIN table
             T(f) == [s \in SUBSET S |-> IF s = {} THEN 0 ELSE w[Pick(s)] + f[s \ {Pick(s)}]]
             U(f) == [s \in SUBSET S |-> IF s = {} THEN 0
                                         ELSE Count(table[Pick(s)]) + f[s \ {Pick(s)}]]
  <1>1. ASSUME NEW f PROVE T(f) = U(f)
    <2>1. ASSUME NEW s \in SUBSET S PROVE s # {} => w[Pick(s)] = Count(table[Pick(s)])
      BY Picked
    <2>2. QED
      BY <2>1
  <1>2. (CHOOSE f : f = T(f)) = (CHOOSE f : f = U(f))
    BY <1>1
  <1>3. Total(w, S) = (CHOOSE f : f = U(f))[S]
    BY <1>2 DEF Total
  <1>4. MapThenSumSet(LAMBDA k : Count(table[k]), S) = (CHOOSE f : f = U(f))[S]
    BY DEF MapThenSumSet, MapThenFoldSet, Pick
  <1>5. QED
    BY <1>3, <1>4

LEMMA ExportTotal ==
  MapThenSumSet(LAMBDA r : Count(r.flow), exported)
    = Total([r \in exported |-> Count(r.flow)], exported)
  <1> DEFINE w == [r \in exported |-> Count(r.flow)]
             S == exported
             T(f) == [s \in SUBSET S |-> IF s = {} THEN 0 ELSE w[Pick(s)] + f[s \ {Pick(s)}]]
             U(f) == [s \in SUBSET S |-> IF s = {} THEN 0
                                         ELSE Count(Pick(s).flow) + f[s \ {Pick(s)}]]
  <1>1. ASSUME NEW f PROVE T(f) = U(f)
    <2>1. ASSUME NEW s \in SUBSET S PROVE s # {} => w[Pick(s)] = Count(Pick(s).flow)
      BY Picked
    <2>2. QED
      BY <2>1
  <1>2. (CHOOSE f : f = T(f)) = (CHOOSE f : f = U(f))
    BY <1>1
  <1>3. Total(w, S) = (CHOOSE f : f = U(f))[S]
    BY <1>2 DEF Total
  <1>4. MapThenSumSet(LAMBDA r : Count(r.flow), S) = (CHOOSE f : f = U(f))[S]
    BY DEF MapThenSumSet, MapThenFoldSet, Pick
  <1>5. QED
    BY <1>3, <1>4

LEMMA BalancedConservation ==
  TypeOK /\ CapacityInv /\ ExportedOnce /\ Balanced => Conservation
  <1> SUFFICES ASSUME TypeOK, CapacityInv, ExportedOnce, Balanced PROVE Conservation
    OBVIOUS
  <1>1. IsFiniteSet(DOMAIN table) /\ IsFiniteSet(exported)
    BY DEF CapacityInv, ExportedOnce
  <1>2. \A k \in DOMAIN table : table[k] \in Flows
    BY DEF TypeOK
  <1>3. \A r \in exported : r.flow \in Flows
    BY DEF TypeOK
  <1>4. SumOf(table, DOMAIN table, OneEach) = Cardinality(DOMAIN table)
    <2> DEFINE w == [k \in DOMAIN table |-> OneEach[table[k]]]
    <2>1. \A k \in DOMAIN table : w[k] = 1
      BY <1>2 DEF OneEach
    <2> HIDE DEF w
    <2>2. Total(w, DOMAIN table) = Cardinality(DOMAIN table)
      BY <1>1, <2>1, TotalOnes
    <2>3. QED
      BY <2>2 DEF SumOf, w
  <1>5. DoneSum(exported, OneEach) = Cardinality(exported)
    <2> DEFINE w == [r \in exported |-> OneEach[r.flow]]
    <2>1. \A r \in exported : w[r] = 1
      BY <1>3 DEF OneEach
    <2> HIDE DEF w
    <2>2. Total(w, exported) = Cardinality(exported)
      BY <1>1, <2>1, TotalOnes
    <2>3. QED
      BY <2>2 DEF DoneSum, w
  <1>6. SumOf(table, DOMAIN table, PacketsOf)
          = MapThenSumSet(LAMBDA k : Count(table[k]), DOMAIN table)
    <2>1. [k \in DOMAIN table |-> PacketsOf[table[k]]] = [k \in DOMAIN table |-> Count(table[k])]
      BY <1>2 DEF PacketsOf
    <2>2. QED
      BY <2>1, TableTotal DEF SumOf
  <1>7. DoneSum(exported, PacketsOf) = MapThenSumSet(LAMBDA r : Count(r.flow), exported)
    <2>1. [r \in exported |-> PacketsOf[r.flow]] = [r \in exported |-> Count(r.flow)]
      BY <1>3 DEF PacketsOf
    <2>2. QED
      BY <2>1, ExportTotal DEF DoneSum
  <1>8. QED
    BY <1>4, <1>5, <1>6, <1>7 DEF Balanced, Conservation

\* No packet and no flow is ever lost or counted twice: whatever expires, is
\* reused, evicted, swept or flushed, the flows opened are those in the table
\* and those exported, and their packet counts add up to the packets tracked.
THEOREM PacketsConserved == Spec => []Conservation
  <1>1. QED
    BY InitBalanced, NextBalanced, BalancedConservation, TypeCorrect, SweepNeverOverdue,
       TableStaysFinite, FlowsNumbered, PTL DEF Spec

-----------------------------------------------------------------------------
(* The engine's view of a flow *)

IdFiled == \A k \in DOMAIN table : table[k].id[1] = k

LEMMA AttachFiled ==
  ASSUME TypeOK, IdFiled, NEW p \in Packets, NEW k \in DOMAIN Attach(p)
  PROVE  Attach(p)[k].id[1] = k
  <1> DEFINE key == make_key(p.proto, p.src, p.dst)
  <1>1. arrivals \in Nat /\ NewFlow(p) \in Flows
    BY EnvironmentAssumption, NewFlowType DEF TypeOK
  <1>2. NewFlow(p).id[1] = key
    BY DEF NewFlow, make_flow_id
  <1>3. Absorb(NewFlow(p), p).id[1] = key
    BY <1>1, <1>2, AbsorbType
  <1>4. key \in DOMAIN table => Absorb(table[key], p).id[1] = key
    BY <1>1, AbsorbType DEF TypeOK, IdFiled
  <1> HIDE DEF key
  <1>5. /\ Attach(p)[key] = Absorb(table[key], p) \/ Attach(p)[key] = Absorb(NewFlow(p), p)
        /\ key \notin DOMAIN table => Attach(p)[key] = Absorb(NewFlow(p), p)
        /\ k # key => k \in DOMAIN table /\ Attach(p)[k] = table[k]
    BY AttachShape DEF key
  <1>6. QED
    BY <1>3, <1>4, <1>5 DEF IdFiled

LEMMA UpdateFiled ==
  ASSUME TypeOK, IdFiled, NEW p \in Packets, Update(p)
  PROVE  IdFiled'
  <1> DEFINE now == IF p.ts > clock THEN p.ts ELSE clock
  <1>1. now \in Nat
    BY PacketType DEF TypeOK
  <1>2. table' = Attach(p) \/ table' = Unexpired(Attach(p), now)
    BY DEF Update
  <1> HIDE DEF now
  <1>3. \A k \in DOMAIN table' : k \in DOMAIN Attach(p) /\ table'[k] = Attach(p)[k]
    BY <1>1, <1>2, UnexpiredType
  <1>4. QED
    BY <1>3, AttachFiled DEF IdFiled

LEMMA NextFiled == TypeOK /\ IdFiled /\ [Next]_vars => IdFiled'
  <1> SUFFICES ASSUME TypeOK, IdFiled, [Next]_vars PROVE IdFiled'
    OBVIOUS
  <1>1. CASE \E p \in Packets : Update(p)
    BY <1>1, UpdateFiled
  <1>2. CASE Flush
    BY <1>2 DEF Flush, Restrict, IdFiled
  <1>3. CASE UNCHANGED table
    BY <1>3 DEF IdFiled
  <1>4. QED
    BY <1>1, <1>2, <1>3 DEF Next, Ignore, vars

\* The active flows are filed under the key their flow_id was made from, so
\* that the engine's lookup by 5-tuple and the event's flow_id agree.
THEOREM FlowsFiled == Spec => []IdFiled
  <1>1. Init => IdFiled
    BY DEF Init, IdFiled
  <1>2. QED
    BY <1>1, NextFiled, TypeCorrect, PTL DEF Spec

-----------------------------------------------------------------------------
(* Roles *)

LEMMA UpdateHasContext ==
  ASSUME TypeOK, TypeOK', SweepFresh, IdFiled', NEW p \in Packets, Update(p)
  PROVE  HasContext'
  <1>1. PICK k \in DOMAIN table' : table'[k].id = event'.flow_id
    BY UpdateOwnFlow DEF SweepFresh
  <1>2. event'.flow_id[1] = k
    BY <1>1 DEF IdFiled
  <1>3. table'[k] \in Flows /\ table'[k].id \in Keys \X Nat
    BY DEF TypeOK, Flows
  <1>4. QED
    BY <1>1, <1>2, <1>3, ContextAssumption DEF HasContext, snapshot

\* The two ends of a flow are those of its key.
LEMMA SameEnds ==
  ASSUME NEW f \in Flows, NEW g \in Flows, KeyOf(f) = KeyOf(g), f.a = g.a
  PROVE  f.proto = g.proto /\ f.b = g.b
  <1>1. f.proto = g.proto /\ {f.a, f.b} = {g.a, g.b}
    BY DEF KeyOf, make_key
  <1>2. QED
    BY <1>1

\* What one step does to an active flow.
LEMMA NextAbsorbs ==
  ASSUME TypeOK, SweepFresh, WitnessInv, Numbered, Next,
         NEW k \in DOMAIN table \cap DOMAIN table', table[k].born = table'[k].born
  PROVE  table'[k] = table[k] \/ \E p \in Packets : table'[k] = Absorb(table[k], p)
  <1>1. CASE \E p \in Packets : Update(p)
    BY <1>1, UpdateStable
  <1>2. CASE Flush
    BY <1>2 DEF Flush, Restrict
  <1>3. CASE UNCHANGED table
    BY <1>3
  <1>4. QED
    BY <1>1, <1>2, <1>3 DEF Next, Ignore

LEMMA SameClient ==
  ASSUME TypeOK, TypeOK', SweepFresh, WitnessInv, Numbered, Next,
         NEW k \in DOMAIN table \cap DOMAIN table', table[k].born = table'[k].born
  PROVE  client_is_a(table[k]) = client_is_a(table'[k])
  <1> DEFINE f == table[k]
             g == table'[k]
  <1>1. /\ f \in Flows /\ g \in Flows /\ KeyOf(f) = k /\ KeyOf(g) = k
        /\ arrivals \in Nat /\ Witnessed(f)
    BY EnvironmentAssumption DEF TypeOK, WitnessInv, AllFlows
  <1>2. g = f \/ \E p \in Packets : g = Absorb(f, p)
    BY NextAbsorbs
  <1> HIDE DEF f, g
  <1>3. g.a = f.a /\ g.conn.midstream = f.conn.midstream
    BY <1>1, <1>2, AbsorbStable
  <1>4. g.proto = f.proto /\ g.b = f.b
    BY <1>1, <1>3, SameEnds
  <1>5. client_is_a(f) = client_is_a(g)
    BY <1>3, <1>4 DEF client_is_a
  <1>6. QED
    BY <1>5 DEF f, g

\* The client of a flow stays the client.
THEOREM RolesKept == Spec => RolesSettled
  <1> DEFINE Kept == \A k \in DOMAIN table \cap DOMAIN table' :
                       table[k].born = table'[k].born =>
                         client_is_a(table[k]) = client_is_a(table'[k])
  <1>1. TypeOK /\ SweepFresh /\ WitnessInv /\ Numbered /\ TypeOK' /\ [Next]_vars => [Kept]_vars
    <2> SUFFICES ASSUME TypeOK, TypeOK', SweepFresh, WitnessInv, Numbered, Next PROVE Kept
      OBVIOUS
    <2>1. QED
      BY SameClient
  <1>2. QED
    BY <1>1, TypeCorrect, SweepNeverOverdue, FlowsWitnessed, FlowsNumbered, PTL
       DEF Spec, RolesSettled

\* While no update raises, every tracked packet has its context right after its
\* update, whatever that expired, evicted or swept, and however late the packet.
THEOREM ContextFound == Spec => [][arrivals' > arrivals => HasContext']_vars
  <1>1. TypeOK /\ SweepFresh /\ TypeOK' /\ IdFiled' /\ [Next]_vars
        => [arrivals' > arrivals => HasContext']_vars
    <2> SUFFICES ASSUME TypeOK, TypeOK', SweepFresh, IdFiled', Next, arrivals' > arrivals
                 PROVE  HasContext'
      OBVIOUS
    <2>1. PICK p \in Packets : Update(p)
      BY EnvironmentAssumption DEF Next, Ignore, Flush, TypeOK
    <2>2. QED
      BY <2>1, UpdateHasContext
  <1>2. QED
    BY <1>1, TypeCorrect, SweepNeverOverdue, FlowsFiled, PTL DEF Spec

-----------------------------------------------------------------------------
(* Establishment *)

\* A connection past its handshake moves on or is reset.
LEMMA NextConnectionEstablished ==
  ASSUME NEW c \in Connection, NEW flags \in SUBSET TcpFlags, NEW dir \in Directions,
         c.state \in {"ESTABLISHED", "CLOSING", "CLOSED"}
  PROVE  NextConnection(c, flags, dir, FALSE).state \in {"ESTABLISHED", "CLOSING", "CLOSED", "RESET"}
  BY DEF NextConnection, OnSyn, OnFin, OnAck, OnBare, Connection, Terminal

LEMMA AbsorbEstablished ==
  ASSUME NEW f \in Flows, Witnessed(f), NEW p \in Packets, arrivals \in Nat,
         established(f)
  PROVE  established(Absorb(f, p)) \/ Absorb(f, p).conn.state = "RESET"
  <1> DEFINE g == Absorb(f, p)
             dir == direction_of(f, p.src)
  <1>1. /\ f.conn \in Connection /\ f.fwd \in Nat /\ f.bwd \in Nat
        /\ p.flags \in SUBSET TcpFlags /\ dir \in Directions
    BY PacketType DEF Flows, direction_of, Directions
  <1>2. (Count(f) = 0) = FALSE
    BY <1>1 DEF Count, Witnessed
  <1>3. /\ g.proto = f.proto
        /\ g.bwd = f.bwd \/ g.bwd = f.bwd + 1
        /\ g.conn = IF p.proto = "TCP" THEN NextConnection(f.conn, p.flags, dir, FALSE) ELSE f.conn
    BY <1>2 DEF Absorb, Flows
  <1> HIDE DEF g, dir
  <1>4. CASE f.proto = "TCP"
    <2>1. f.conn.state \in {"ESTABLISHED", "CLOSING", "CLOSED"}
      BY <1>4 DEF established
    <2>2. NextConnection(f.conn, p.flags, dir, FALSE).state
            \in {"ESTABLISHED", "CLOSING", "CLOSED", "RESET"}
      BY <1>1, <2>1, NextConnectionEstablished
    <2>3. g.proto = "TCP" /\ g.conn.state \in {"ESTABLISHED", "CLOSING", "CLOSED", "RESET"}
      BY <1>3, <1>4, <2>1, <2>2
    <2>4. established(g) \/ g.conn.state = "RESET"
      BY <2>3 DEF established
    <2>5. QED
      BY <2>4 DEF g
  <1>5. CASE f.proto # "TCP"
    <2>1. established(g)
      BY <1>1, <1>3, <1>5 DEF established
    <2>2. QED
      BY <2>1 DEF g
  <1>6. QED
    BY <1>4, <1>5

\* An established flow stays established for as long as it is active, until a
\* reset.
THEOREM EstablishedKept == Spec => EstablishedPersists
  <1> DEFINE Kept ==
        \A k \in DOMAIN table \cap DOMAIN table' :
          table[k].born = table'[k].born /\ established(table[k]) =>
            established(table'[k]) \/ table'[k].conn.state = "RESET"
  <1>1. TypeOK /\ SweepFresh /\ WitnessInv /\ Numbered /\ [Next]_vars => [Kept]_vars
    <2> SUFFICES ASSUME TypeOK, SweepFresh, WitnessInv, Numbered, Next,
                        NEW k \in DOMAIN table \cap DOMAIN table',
                        table[k].born = table'[k].born, established(table[k])
                 PROVE  established(table'[k]) \/ table'[k].conn.state = "RESET"
      OBVIOUS
    <2>1. table[k] \in Flows /\ arrivals \in Nat /\ Witnessed(table[k])
      BY EnvironmentAssumption DEF TypeOK, WitnessInv, AllFlows
    <2>2. table'[k] = table[k] \/ \E p \in Packets : table'[k] = Absorb(table[k], p)
      BY NextAbsorbs
    <2>3. QED
      BY <2>1, <2>2, AbsorbEstablished
  <1>2. QED
    BY <1>1, TypeCorrect, SweepNeverOverdue, FlowsWitnessed, FlowsNumbered, PTL
       DEF Spec, EstablishedPersists
=============================================================================
