------------------------- MODULE LiveCaptureProofs -------------------------
(***************************************************************************)
(* The queue of the live capture keeps the traffic in order, and a drained *)
(* generator has delivered everything that got in.                         *)
(*                                                                         *)
(* The inductive invariant is TypeOK, PillLast and InOrderOnce: the pill   *)
(* is the last item the queue ever gets, so taking it out of the view of   *)
(* the queue (Waiting) leaves a suffix of the stream, on which a put is an *)
(* Append and a get moves the border between delivered and waiting.        *)
(***************************************************************************)
EXTENDS LiveCapture, SequenceTheorems, TLAPS

PillLast ==
  /\ \A i \in 1..Len(queue) : queue[i] = Pill => i = Len(queue) /\ sniffer = "gone"
  /\ consumer = "drained" => queue = <<>> /\ sniffer = "gone"

-----------------------------------------------------------------------------
(* Types *)

LEMMA SeqWiden ==
  ASSUME NEW m \in Nat, NEW n \in Nat, m <= n, NEW s \in Seq(1..m)
  PROVE  s \in Seq(1..n)
  <1>1. 1..m \subseteq 1..n
    OBVIOUS
  <1>2. QED
    BY <1>1, SeqMonotonic

LEMMA NextTypeOK == TypeOK /\ PillLast /\ InOrderOnce /\ [Next]_vars => TypeOK'
  <1> DEFINE Items == (1..MaxPackets) \cup {Pill}
  <1> SUFFICES ASSUME TypeOK, PillLast, InOrderOnce, [Next]_vars PROVE TypeOK'
    OBVIOUS
  <1>0. /\ queue \in Seq(Items) /\ Len(queue) \in Nat /\ Len(queue) <= Capacity
        /\ captured \in Nat /\ captured <= MaxPackets /\ MaxPackets \in Nat
        /\ Capacity \in Nat \ {0} /\ lost \subseteq 1..captured
        /\ delivered \in Seq(1..captured) /\ Pill \notin Nat
    BY CaptureAssumption DEF TypeOK
  <1>1. CASE HandlePacket
    <2>1. /\ captured' = captured + 1 /\ captured' \in 0..MaxPackets
          /\ captured' \in Items
      BY <1>0, <1>1 DEF HandlePacket
    <2>2. delivered' \in Seq(1..captured')
      BY <1>0, <1>1, <2>1, SeqWiden DEF HandlePacket, consuming
    <2>3. queue' \in Seq(Items) /\ Len(queue') <= Capacity
      <3>1. CASE queue' = Append(queue, captured') /\ Room
        BY <1>0, <2>1, <3>1, AppendProperties DEF Room
      <3>2. CASE UNCHANGED queue
        BY <1>0, <3>2
      <3>3. QED
        BY <1>1, <3>1, <3>2 DEF HandlePacket
    <2>4. lost' \subseteq 1..captured'
      <3>1. lost' = lost \/ lost' = lost \cup {captured + 1}
        BY <1>1, <2>1 DEF HandlePacket
      <3>2. \A x \in lost \cup {captured + 1} : x \in 1..(captured + 1)
        BY <1>0
      <3>3. QED
        BY <2>1, <3>1, <3>2
    <2>5. QED
      BY <1>1, <2>1, <2>2, <2>3, <2>4 DEF HandlePacket, TypeOK, consuming
  <1>2. CASE Farewell
    <2>1. queue' \in Seq(Items) /\ Len(queue') <= Capacity
      <3>1. CASE queue' = Append(queue, Pill) /\ Room
        BY <1>0, <3>1, AppendProperties DEF Room
      <3>2. CASE queue' = queue
        BY <1>0, <3>2
      <3>3. QED
        BY <1>2, <3>1, <3>2 DEF Farewell
    <2>2. QED
      BY <1>2, <2>1 DEF Farewell, TypeOK, consuming
  <1>3. CASE Get
    <2>1. /\ queue # <<>> /\ queue' = Tail(queue)
          /\ UNCHANGED <<stop, sniffer, captured, lost>>
      BY <1>3 DEF Get, sniffing
    <2>2. queue' \in Seq(Items) /\ Len(queue') <= Capacity /\ Head(queue) = queue[1]
      BY <1>0, <2>1, HeadTailProperties
    <2>3. CASE Head(queue) = Pill
      BY <1>3, <2>1, <2>2, <2>3 DEF Get, TypeOK
    <2>4. CASE Head(queue) # Pill
      <3>1. Head(queue) \in ToSet(delivered \o Waiting)
        <4>1. Waiting \in Seq(Items) /\ Len(Waiting) >= 1 /\ Waiting[1] = Head(queue)
          BY <1>0, <2>1, <2>2, <2>4 DEF Waiting, PillSent
        <4>2. delivered \in Seq(Items)
          BY <1>0, SeqMonotonic
        <4>3. (delivered \o Waiting)[Len(delivered) + 1] = Waiting[1]
          BY <4>1, <4>2, ConcatProperties
        <4>4. Len(delivered) + 1 \in DOMAIN (delivered \o Waiting)
          BY <4>1, <4>2, ConcatProperties
        <4>5. QED
          BY <4>1, <4>3, <4>4 DEF ToSet
      <3>2. Head(queue) \in 1..captured
        BY <3>1 DEF InOrderOnce
      <3>3. delivered' \in Seq(1..captured')
        <4>1. delivered' = Append(delivered, Head(queue)) /\ captured' = captured
          BY <1>3, <2>1, <2>4 DEF Get
        <4>2. Append(delivered, Head(queue)) \in Seq(1..captured)
          BY <1>0, <3>2, AppendProperties
        <4>3. QED
          BY <4>1, <4>2
      <3>4. QED
        BY <1>3, <2>1, <2>2, <2>4, <3>3 DEF Get, TypeOK
    <2>5. QED
      BY <2>3, <2>4
  <1>4. CASE StopFilter \/ SniffFails \/ Resume \/ Interrupt \/ Finish \/ UNCHANGED vars
    BY <1>4 DEF StopFilter, SniffFails, Resume, Interrupt, Finish, vars, TypeOK,
                sniffing, consuming
  <1>5. QED
    BY <1>1, <1>2, <1>3, <1>4 DEF Next

-----------------------------------------------------------------------------
(* The pill *)

LEMMA NextPillLast == TypeOK /\ PillLast /\ [Next]_vars => PillLast'
  <1> DEFINE Items == (1..MaxPackets) \cup {Pill}
  <1> SUFFICES ASSUME TypeOK, PillLast, [Next]_vars PROVE PillLast'
    OBVIOUS
  <1>0. queue \in Seq(Items) /\ Len(queue) \in Nat /\ captured \in Nat /\ Pill \notin Nat
    BY CaptureAssumption DEF TypeOK
  <1>1. CASE HandlePacket
    <2>1. /\ sniffer = "listening" /\ captured' = captured + 1 /\ consumer' = consumer
          /\ queue' = Append(queue, captured') \/ queue' = queue
      BY <1>1 DEF HandlePacket, consuming
    <2>2. \A i \in 1..Len(queue) : queue[i] # Pill
      BY <2>1 DEF PillLast
    <2>3. \A i \in 1..Len(queue') : queue'[i] # Pill
      <3>1. CASE queue' = Append(queue, captured')
        <4>1. captured' \in Items
          BY <1>0, <1>1, <2>1, CaptureAssumption DEF HandlePacket
        <4>2. /\ Len(queue') = Len(queue) + 1 /\ queue'[Len(queue) + 1] = captured'
              /\ \A i \in 1..Len(queue) : queue'[i] = queue[i]
          BY <1>0, <3>1, <4>1, AppendProperties
        <4>3. QED
          BY <1>0, <2>1, <2>2, <4>2
      <3>2. CASE queue' = queue
        BY <2>2, <3>2
      <3>3. QED
        BY <2>1, <3>1, <3>2
    <2>4. QED
      BY <2>1, <2>3 DEF PillLast
  <1>2. CASE Farewell
    <2>1. /\ sniffer = "ending" /\ sniffer' = "gone" /\ consumer' = consumer
          /\ queue' = Append(queue, Pill) \/ queue' = queue
      BY <1>2 DEF Farewell, consuming
    <2>2. \A i \in 1..Len(queue) : queue[i] # Pill
      BY <2>1 DEF PillLast
    <2>3. \A i \in 1..Len(queue') : queue'[i] = Pill => i = Len(queue')
      <3>1. CASE queue' = Append(queue, Pill)
        <4>1. Pill \in Items
          OBVIOUS
        <4>2. /\ Len(queue') = Len(queue) + 1 /\ queue'[Len(queue) + 1] = Pill
              /\ \A i \in 1..Len(queue) : queue'[i] = queue[i]
          BY <1>0, <3>1, <4>1, AppendProperties
        <4>3. QED
          BY <1>0, <2>1, <2>2, <4>2
      <3>2. CASE queue' = queue
        BY <2>2, <3>2
      <3>3. QED
        BY <2>1, <3>1, <3>2
    <2>4. QED
      BY <2>1, <2>3 DEF PillLast
  <1>3. CASE Get
    <2>1. queue # <<>> /\ queue' = Tail(queue) /\ sniffer' = sniffer
      BY <1>3 DEF Get, sniffing
    <2>2. /\ Len(queue') = Len(queue) - 1 /\ Head(queue) = queue[1] /\ Len(queue) >= 1
          /\ queue' \in Seq(Items)
          /\ \A i \in 1..Len(queue') : queue'[i] = queue[i + 1]
      BY <1>0, <2>1, HeadTailProperties
    <2>3. ASSUME NEW i \in 1..Len(queue'), queue'[i] = Pill
          PROVE  i = Len(queue') /\ sniffer' = "gone"
      <3>1. i + 1 \in 1..Len(queue) /\ queue[i + 1] = Pill
        BY <1>0, <2>2, <2>3
      <3>2. i + 1 = Len(queue) /\ sniffer = "gone"
        BY <3>1 DEF PillLast
      <3>3. Len(queue') = Len(queue) - 1 /\ i \in Int
        BY <2>2
      <3>4. i = Len(queue')
        BY <1>0, <3>2, <3>3
      <3>5. QED
        BY <2>1, <3>2, <3>4
    <2>4. CASE Head(queue) = Pill
      <3>1. Len(queue) = 1 /\ sniffer = "gone"
        BY <1>0, <2>2, <2>4 DEF PillLast
      <3>2. queue' = <<>>
        BY <2>2, <3>1, EmptySeq
      <3>3. QED
        BY <2>1, <2>3, <3>1, <3>2 DEF PillLast
    <2>5. CASE Head(queue) # Pill
      BY <1>3, <2>3, <2>5 DEF Get, PillLast
    <2>6. QED
      BY <2>4, <2>5
  <1>4. CASE StopFilter \/ SniffFails \/ Resume \/ Interrupt \/ Finish \/ UNCHANGED vars
    BY <1>4 DEF StopFilter, SniffFails, Resume, Interrupt, Finish, vars, PillLast,
                sniffing, consuming
  <1>5. QED
    BY <1>1, <1>2, <1>3, <1>4 DEF Next

-----------------------------------------------------------------------------
(* The stream *)

stream == delivered \o Waiting

LEMMA AppendAscending ==
  ASSUME NEW n \in Nat, NEW s \in Seq(1..n), Ascending(s)
  PROVE  /\ Ascending(Append(s, n + 1))
         /\ ToSet(Append(s, n + 1)) = ToSet(s) \cup {n + 1}
  <1> DEFINE t == Append(s, n + 1)
  <1>1. /\ Len(s) \in Nat /\ Len(t) = Len(s) + 1
        /\ DOMAIN s = 1..Len(s) /\ DOMAIN t = 1..(Len(s) + 1)
        /\ \A i \in 1..Len(s) : t[i] = s[i] /\ s[i] \in 1..n
        /\ t[Len(s) + 1] = n + 1
    <2>1. s \in Seq(Nat) /\ n + 1 \in Nat
      BY SeqMonotonic
    <2>2. QED
      BY <2>1, AppendProperties
  <1> HIDE DEF t
  <1>2. Ascending(t)
    BY <1>1 DEF Ascending
  <1>3. ToSet(t) = ToSet(s) \cup {n + 1}
    BY <1>1 DEF ToSet
  <1>4. QED
    BY <1>2, <1>3 DEF t

LEMMA StreamType ==
  ASSUME TypeOK, PillLast
  PROVE  /\ Waiting \in Seq(Nat) /\ delivered \in Seq(Nat) /\ stream \in Seq(Nat)
         /\ ~PillSent => Waiting = queue
  <1> DEFINE Items == (1..MaxPackets) \cup {Pill}
  <1>1. /\ queue \in Seq(Items) /\ Len(queue) \in Nat /\ captured \in Nat /\ Pill \notin Nat
        /\ delivered \in Seq(1..captured)
    BY CaptureAssumption DEF TypeOK
  <1>2. delivered \in Seq(Nat)
    BY <1>1, SeqMonotonic
  <1>3. \A i \in 1..Len(queue) : queue[i] \in Nat \/ queue[i] = Pill
    BY <1>1, ElementOfSeq
  <1>4. CASE PillSent
    <2>1. Waiting = SubSeq(queue, 1, Len(queue) - 1) /\ Len(queue) >= 1
      BY <1>1, <1>4 DEF Waiting, PillSent
    <2>2. /\ Waiting \in Seq(Items) /\ Len(Waiting) = Len(queue) - 1
          /\ \A i \in 1..Len(Waiting) : Waiting[i] = queue[i]
      <3> DEFINE n == Len(queue) - 1
      <3>1. n \in 0..Len(queue) /\ 1 \in 1..(Len(queue) + 1)
        BY <1>1, <2>1
      <3>2. /\ SubSeq(queue, 1, n) \in Seq(Items)
            /\ Len(SubSeq(queue, 1, n)) = IF 1 <= n THEN n - 1 + 1 ELSE 0
            /\ \A i \in 1..n - 1 + 1 : SubSeq(queue, 1, n)[i] = queue[1 + i - 1]
        BY <1>1, <3>1, SubSeqProperties
      <3> HIDE DEF n
      <3>3. n \in Nat /\ n - 1 + 1 = n /\ Len(SubSeq(queue, 1, n)) = n
        BY <1>1, <3>1, <3>2
      <3>4. \A i \in 1..n : SubSeq(queue, 1, n)[i] = queue[i]
        BY <3>2, <3>3
      <3>5. QED
        BY <2>1, <3>2, <3>3, <3>4 DEF n
    <2>3. \A i \in 1..Len(Waiting) : Waiting[i] \in Nat
      BY <1>1, <1>3, <2>1, <2>2 DEF PillLast
    <2>4. Waiting \in Seq(Nat)
      BY <2>2, <2>3
    <2>5. QED
      BY <1>2, <1>4, <2>4, ConcatProperties DEF stream
  <1>5. CASE ~PillSent
    <2>1. Waiting = queue
      BY <1>5 DEF Waiting
    <2>2. \A i \in 1..Len(queue) : queue[i] \in Nat
      BY <1>1, <1>3, <1>5 DEF PillLast, PillSent
    <2>3. queue \in Seq(Nat)
      BY <1>1, <2>2
    <2>4. QED
      BY <1>2, <2>1, <2>3, ConcatProperties DEF stream
  <1>6. QED
    BY <1>4, <1>5

LEMMA JoinedEnd ==
  ASSUME NEW s \in Seq(Nat), NEW t \in Seq(Nat), NEW x \in Nat
  PROVE  s \o Append(t, x) = Append(s \o t, x)
  OBVIOUS

LEMMA MoveBorder ==
  ASSUME NEW s \in Seq(Nat), NEW t \in Seq(Nat), t # <<>>
  PROVE  Append(s, Head(t)) \o Tail(t) = s \o t
  <1> DEFINE u == Append(s, Head(t))
             v == Tail(t)
  <1>1. /\ Len(s) \in Nat /\ Len(t) \in Nat \ {0} /\ Head(t) = t[1] /\ Head(t) \in Nat
    BY LenProperties, EmptySeq, HeadTailProperties
  <1>2. /\ u \in Seq(Nat) /\ Len(u) = Len(s) + 1 /\ u[Len(s) + 1] = t[1]
        /\ \A i \in 1..Len(s) : u[i] = s[i]
    BY <1>1, AppendProperties
  <1>3. /\ v \in Seq(Nat) /\ Len(v) = Len(t) - 1
        /\ \A i \in 1..Len(v) : v[i] = t[i + 1]
    BY HeadTailProperties
  <1> HIDE DEF u, v
  <1>4. /\ u \o v \in Seq(Nat) /\ Len(u \o v) = Len(s) + Len(t)
        /\ \A i \in 1..(Len(u) + Len(v)) :
             (u \o v)[i] = IF i <= Len(u) THEN u[i] ELSE v[i - Len(u)]
    <2>1. /\ u \o v \in Seq(Nat) /\ Len(u \o v) = Len(u) + Len(v)
          /\ \A i \in 1..(Len(u) + Len(v)) :
               (u \o v)[i] = IF i <= Len(u) THEN u[i] ELSE v[i - Len(u)]
      BY <1>2, <1>3, ConcatProperties
    <2>2. Len(u) + Len(v) = Len(s) + Len(t)
      BY <1>1, <1>2, <1>3
    <2>3. QED
      BY <2>1, <2>2
  <1>5. /\ s \o t \in Seq(Nat) /\ Len(s \o t) = Len(s) + Len(t)
        /\ \A i \in 1..(Len(s) + Len(t)) :
             (s \o t)[i] = IF i <= Len(s) THEN s[i] ELSE t[i - Len(s)]
    BY ConcatProperties
  <1>6. ASSUME NEW i \in 1..(Len(s) + Len(t)) PROVE (u \o v)[i] = (s \o t)[i]
    <2>1. CASE i <= Len(s) + 1
      <3>1. i \in 1..Len(u) /\ i \in 1..(Len(u) + Len(v)) /\ (u \o v)[i] = u[i]
        BY <1>1, <1>2, <1>3, <1>4, <2>1
      <3>2. CASE i <= Len(s)
        <4>1. i \in 1..Len(s)
          BY <1>1, <3>2
        <4>2. u[i] = s[i]
          BY <1>2, <4>1
        <4>3. (s \o t)[i] = s[i]
          BY <1>5, <3>2
        <4>4. QED
          BY <3>1, <4>2, <4>3
      <3>3. CASE i = Len(s) + 1
        <4>1. u[i] = t[1]
          BY <1>2, <3>3
        <4>2. ~(i <= Len(s)) /\ i - Len(s) = 1
          BY <1>1, <3>3
        <4>3. (s \o t)[i] = t[1]
          BY <1>5, <4>2
        <4>4. QED
          BY <3>1, <4>1, <4>3
      <3>4. i <= Len(s) \/ i = Len(s) + 1
        <4>1. Len(s) \in Nat /\ i \in Int
          BY <1>1
        <4>2. \A m, n \in Int : n <= m + 1 => n <= m \/ n = m + 1
          OBVIOUS
        <4>3. QED
          BY <2>1, <4>1, <4>2
      <3>5. QED
        BY <3>2, <3>3, <3>4
    <2>2. CASE i > Len(s) + 1
      <3>1. /\ i - Len(u) \in 1..Len(v) /\ (i - Len(u)) + 1 = i - Len(s)
            /\ i \in 1..(Len(u) + Len(v)) /\ ~(i <= Len(u)) /\ ~(i <= Len(s))
        BY <1>1, <1>2, <1>3, <2>2
      <3>2. QED
        BY <1>3, <1>4, <1>5, <3>1
    <2>3. i <= Len(s) + 1 \/ i > Len(s) + 1
      <3>1. Len(s) \in Nat /\ i \in Int
        BY <1>1
      <3>2. QED
        BY <3>1
    <2>4. QED
      BY <2>1, <2>2, <2>3
  <1>7. u \o v = s \o t
    BY <1>4, <1>5, <1>6, SeqEqual
  <1>8. QED
    BY <1>7 DEF u, v

LEMMA FrontOfTail ==
  ASSUME NEW S, NEW q \in Seq(S), Len(q) >= 2
  PROVE  LET f == SubSeq(q, 1, Len(q) - 1)
         IN f # <<>> /\ Head(f) = q[1] /\ SubSeq(Tail(q), 1, Len(Tail(q)) - 1) = Tail(f)
  <1> DEFINE n == Len(q) - 1
             f == SubSeq(q, 1, n)
             m == Len(Tail(q)) - 1
             g == SubSeq(Tail(q), 1, m)
  <1>1. /\ Len(q) \in Nat /\ n \in Nat /\ n >= 1 /\ n \in 0..Len(q)
        /\ \A i \in 1..Len(q) : q[i] \in S
    BY LenProperties, ElementOfSeq
  <1>2. /\ Tail(q) \in Seq(S) /\ Len(Tail(q)) = n /\ m = n - 1
        /\ \A i \in 1..n : Tail(q)[i] = q[i + 1]
    BY <1>1, EmptySeq, HeadTailProperties
  <1>3. \A i \in 1..n : Tail(q)[i] \in S
    BY <1>2, ElementOfSeq
  <1> HIDE DEF n, m
  <1>4. f \in Seq(S) /\ Len(f) = n /\ \A i \in 1..n : f[i] = q[i]
    <2>1. \A i \in 1..n : q[i] \in S
      BY <1>1
    <2>2. /\ f \in Seq(S) /\ Len(f) = IF 1 <= n THEN n - 1 + 1 ELSE 0
          /\ \A i \in 1..n - 1 + 1 : f[i] = q[1 + i - 1]
      BY <1>1, <2>1, SubSeqProperties
    <2> HIDE DEF f
    <2>3. n - 1 + 1 = n
      BY <1>1
    <2>4. QED
      BY <1>1, <2>2, <2>3
  <1>5. g \in Seq(S) /\ Len(g) = m /\ \A i \in 1..m : g[i] = Tail(q)[i]
    <2>1. m \in Nat /\ \A i \in 1..m : Tail(q)[i] \in S
      BY <1>1, <1>2, <1>3
    <2> DEFINE r == Tail(q)
    <2>2. \A i \in 1..m : r[i] \in S
      BY <2>1
    <2> HIDE DEF r
    <2>3. LET h == SubSeq(r, 1, m)
          IN /\ h \in Seq(S) /\ Len(h) = IF 1 <= m THEN m - 1 + 1 ELSE 0
             /\ \A i \in 1..m - 1 + 1 : h[i] = r[1 + i - 1]
      BY <2>1, <2>2, SubSeqProperties
    <2>4. g = SubSeq(r, 1, m)
      BY DEF r
    <2>5. /\ g \in Seq(S) /\ Len(g) = IF 1 <= m THEN m - 1 + 1 ELSE 0
          /\ \A i \in 1..m - 1 + 1 : g[i] = r[1 + i - 1]
      BY <2>3, <2>4
    <2> HIDE DEF g
    <2>6. m - 1 + 1 = m
      BY <2>1
    <2>7. Len(g) = m
      BY <2>1, <2>5, <2>6
    <2>8. \A i \in 1..m : g[i] = r[i]
      BY <2>1, <2>5, <2>6
    <2>9. QED
      BY <2>5, <2>7, <2>8 DEF r
  <1> HIDE DEF f, g
  <1>6. f # <<>> /\ Head(f) = q[1]
    BY <1>1, <1>4
  <1>7. /\ Tail(f) \in Seq(S) /\ Len(Tail(f)) = n - 1
        /\ \A i \in 1..(n - 1) : Tail(f)[i] = f[i + 1]
    BY <1>4, <1>6, HeadTailProperties
  <1>8. \A i \in 1..m : g[i] = Tail(f)[i]
    BY <1>1, <1>2, <1>4, <1>5, <1>7
  <1>9. g = Tail(f)
    BY <1>2, <1>5, <1>7, <1>8, SeqEqual
  <1>10. QED
    BY <1>6, <1>9 DEF f, g, n, m

\* A put extends the stream, a get moves its border.
LEMMA NextStream ==
  ASSUME TypeOK, PillLast, Next
  PROVE  /\ HandlePacket =>
              /\ captured' = captured + 1
              /\ \/ stream' = Append(stream, captured + 1) /\ lost' = lost
                 \/ stream' = stream /\ lost' = lost \cup {captured + 1}
         /\ ~HandlePacket => stream' = stream /\ UNCHANGED <<captured, lost>>
  <1> DEFINE Items == (1..MaxPackets) \cup {Pill}
  <1>0. /\ queue \in Seq(Items) /\ Len(queue) \in Nat /\ captured \in Nat /\ Pill \notin Nat
        /\ delivered \in Seq(Nat) /\ Waiting \in Seq(Nat) /\ stream \in Seq(Nat)
    BY StreamType, CaptureAssumption DEF TypeOK
  <1>1. ASSUME HandlePacket
        PROVE  /\ captured' = captured + 1
               /\ \/ stream' = Append(stream, captured + 1) /\ lost' = lost
                  \/ stream' = stream /\ lost' = lost \cup {captured + 1}
    <2>1. /\ sniffer = "listening" /\ captured' = captured + 1 /\ delivered' = delivered
          /\ \/ queue' = Append(queue, captured + 1) /\ lost' = lost
             \/ queue' = queue /\ lost' = lost \cup {captured + 1}
      BY <1>1 DEF HandlePacket, consuming
    <2>2. Waiting = queue
      BY <1>0, <2>1 DEF Waiting, PillSent, PillLast
    <2>3. CASE queue' = Append(queue, captured + 1) /\ lost' = lost
      <3>1. Len(queue') = Len(queue) + 1 /\ queue'[Len(queue) + 1] = captured + 1
        BY <1>0, <2>3, AppendProperties
      <3>2. Waiting' = queue'
        BY <1>0, <3>1 DEF Waiting, PillSent
      <3>3. stream' = delivered \o Append(Waiting, captured + 1)
        BY <2>1, <2>2, <2>3, <3>2 DEF stream
      <3>4. delivered \o Append(Waiting, captured + 1) = Append(stream, captured + 1)
        <4>1. delivered \in Seq(Nat) /\ Waiting \in Seq(Nat) /\ captured + 1 \in Nat
          BY <1>0
        <4>2. QED
          BY <4>1, JoinedEnd DEF stream
      <3>5. QED
        BY <2>1, <2>3, <3>3, <3>4
    <2>4. CASE queue' = queue /\ lost' = lost \cup {captured + 1}
      <3>1. Waiting' = Waiting
        BY <2>4 DEF Waiting, PillSent
      <3>2. QED
        BY <2>1, <2>4, <3>1 DEF stream
    <2>5. QED
      BY <2>1, <2>3, <2>4
  <1>2. ASSUME Farewell PROVE stream' = stream /\ UNCHANGED <<captured, lost>>
    <2>1. /\ sniffer = "ending" /\ delivered' = delivered /\ UNCHANGED <<captured, lost>>
          /\ queue' = Append(queue, Pill) \/ queue' = queue
      BY <1>2 DEF Farewell, consuming
    <2>2. Waiting = queue /\ ~PillSent
      BY <1>0, <2>1 DEF Waiting, PillSent, PillLast
    <2>3. CASE queue' = Append(queue, Pill)
      <3>1. /\ Len(queue') = Len(queue) + 1 /\ queue'[Len(queue) + 1] = Pill
            /\ queue' \in Seq(Items)
            /\ \A i \in 1..Len(queue) : queue'[i] = queue[i]
        BY <1>0, <2>3, AppendProperties
      <3>2. Waiting' = SubSeq(queue', 1, Len(queue))
        BY <1>0, <3>1 DEF Waiting, PillSent
      <3>3. SubSeq(queue', 1, Len(queue)) = queue
        BY <1>0, <2>3
      <3>4. QED
        BY <2>1, <2>2, <3>2, <3>3 DEF stream
    <2>4. CASE queue' = queue
      BY <2>1, <2>4 DEF stream, Waiting, PillSent
    <2>5. QED
      BY <2>1, <2>3, <2>4
  <1>3. ASSUME Get PROVE stream' = stream /\ UNCHANGED <<captured, lost>>
    <2>1. queue # <<>> /\ queue' = Tail(queue) /\ UNCHANGED <<captured, lost>>
      BY <1>3 DEF Get, sniffing
    <2>2. /\ queue' \in Seq(Items) /\ Len(queue') = Len(queue) - 1
          /\ Len(queue) >= 1 /\ Head(queue) = queue[1]
          /\ \A i \in 1..Len(queue') : queue'[i] = queue[i + 1]
      BY <1>0, <2>1, HeadTailProperties
    <2>3. CASE Head(queue) = Pill
      <3>1. Len(queue) = 1 /\ delivered' = delivered
        <4>1. 1 = Len(queue)
          BY <1>0, <2>2, <2>3 DEF PillLast
        <4>2. delivered' = delivered
          BY <1>3, <2>3 DEF Get
        <4>3. QED
          BY <4>1, <4>2
      <3>2. Waiting = <<>>
        BY <1>0, <2>2, <2>3, <3>1 DEF Waiting, PillSent
      <3>3. Waiting' = <<>>
        BY <2>2, <3>1 DEF Waiting, PillSent
      <3>4. QED
        BY <2>1, <3>1, <3>2, <3>3 DEF stream
    <2>4. CASE Head(queue) # Pill
      <3>1. delivered' = Append(delivered, Head(queue))
        BY <1>3, <2>4 DEF Get
      <3>2. Waiting # <<>> /\ Head(Waiting) = Head(queue) /\ Waiting' = Tail(Waiting)
        <4>1. CASE PillSent
          <5>1. Len(queue) >= 2
            BY <1>0, <2>2, <2>4, <4>1 DEF PillSent
          <5>2. Waiting = SubSeq(queue, 1, Len(queue) - 1)
            BY <4>1 DEF Waiting
          <5>3. Waiting' = SubSeq(queue', 1, Len(queue') - 1)
            BY <1>0, <2>2, <4>1, <5>1 DEF Waiting, PillSent
          <5>4. QED
            BY <1>0, <2>1, <2>2, <5>1, <5>2, <5>3, FrontOfTail
        <4>2. CASE ~PillSent
          <5>1. Waiting = queue
            BY <4>2 DEF Waiting
          <5>2. Waiting' = queue'
            BY <1>0, <2>2, <4>2 DEF Waiting, PillSent
          <5>3. QED
            BY <2>1, <5>1, <5>2
        <4>3. QED
          BY <4>1, <4>2
      <3>3. Append(delivered, Head(Waiting)) \o Tail(Waiting) = delivered \o Waiting
        BY <1>0, <3>2, MoveBorder
      <3>4. QED
        BY <2>1, <3>1, <3>2, <3>3 DEF stream
    <2>5. QED
      BY <2>3, <2>4
  <1>4. ASSUME StopFilter \/ SniffFails \/ Resume \/ Interrupt \/ Finish
        PROVE  stream' = stream /\ UNCHANGED <<captured, lost>>
    BY <1>4 DEF StopFilter, SniffFails, Resume, Interrupt, Finish, sniffing, consuming,
                stream, Waiting, PillSent
  <1>5. QED
    BY <1>1, <1>2, <1>3, <1>4 DEF Next

LEMMA NextInOrder == TypeOK /\ PillLast /\ InOrderOnce /\ [Next]_vars => InOrderOnce'
  <1> SUFFICES ASSUME TypeOK, PillLast, InOrderOnce, [Next]_vars PROVE InOrderOnce'
    OBVIOUS
  <1>0. /\ captured \in Nat /\ lost \subseteq 1..captured /\ stream \in Seq(Nat)
        /\ Ascending(stream) /\ ToSet(stream) = (1..captured) \ lost
    BY StreamType, CaptureAssumption DEF TypeOK, InOrderOnce, stream
  <1>1. CASE stream' = stream /\ UNCHANGED <<captured, lost>>
    BY <1>0, <1>1 DEF InOrderOnce, stream
  <1>2. CASE captured' = captured + 1 /\ stream' = stream /\ lost' = lost \cup {captured + 1}
    <2>1. (1..captured') \ lost' = (1..captured) \ lost
      BY <1>0, <1>2
    <2>2. QED
      BY <1>0, <1>2, <2>1 DEF InOrderOnce, stream
  <1>3. CASE captured' = captured + 1 /\ stream' = Append(stream, captured + 1) /\ lost' = lost
    <2>1. stream \in Seq(1..captured)
      <3>1. stream \in [1..Len(stream) -> Nat] /\ Len(stream) \in Nat
        BY <1>0, LenProperties
      <3>2. \A i \in 1..Len(stream) : stream[i] \in 1..captured
        BY <1>0, <3>1 DEF ToSet
      <3>3. stream \in [1..Len(stream) -> 1..captured]
        BY <3>1, <3>2
      <3>4. QED
        BY <3>1, <3>3, SeqDef
    <2>2. /\ Ascending(stream')
          /\ ToSet(stream') = ((1..captured) \ lost) \cup {captured + 1}
      BY <1>0, <1>3, <2>1, AppendAscending
    <2>3. (1..captured') \ lost' = ((1..captured) \ lost) \cup {captured + 1}
      BY <1>0, <1>3
    <2>4. QED
      BY <2>2, <2>3 DEF InOrderOnce, stream
  <1>4. CASE UNCHANGED vars
    BY <1>1, <1>4 DEF vars, stream, Waiting, PillSent
  <1>5. QED
    BY <1>1, <1>2, <1>3, <1>4, NextStream

-----------------------------------------------------------------------------
IInv == TypeOK /\ PillLast /\ InOrderOnce

LEMMA InitInvariant == Init => IInv
  <1> SUFFICES ASSUME Init PROVE IInv
    OBVIOUS
  <1>1. /\ queue = <<>> /\ delivered = <<>> /\ captured = 0 /\ lost = {} /\ Len(queue) = 0
        /\ consumer = "getting"
    BY EmptySeq DEF Init
  <1>2. TypeOK
    <2>1. queue \in Seq((1..MaxPackets) \cup {Pill}) /\ delivered \in Seq(1..captured)
      BY <1>1, EmptySeq
    <2>2. Len(queue) <= Capacity /\ captured \in 0..MaxPackets /\ lost \subseteq 1..captured
      BY <1>1, CaptureAssumption
    <2>3. QED
      BY <2>1, <2>2 DEF Init, TypeOK
  <1>3. PillLast
    BY <1>1 DEF PillLast
  <1>4. delivered \o Waiting = <<>>
    BY <1>1 DEF Waiting, PillSent
  <1>5. InOrderOnce
    BY <1>1, <1>4 DEF InOrderOnce, Ascending, ToSet
  <1>6. QED
    BY <1>2, <1>3, <1>5 DEF IInv

\* The invariant of queue, pill, thread and generator holds in every interleaving
\* of the two threads.
THEOREM CaptureInvariant == Spec => []IInv
  <1>1. IInv /\ [Next]_vars => IInv'
    BY NextTypeOK, NextPillLast, NextInOrder DEF IInv
  <1>2. QED
    BY <1>1, InitInvariant, PTL DEF Spec

\* The queue never exceeds its maxsize, whatever the threads do.
THEOREM CaptureTypeCorrect == Spec => []TypeOK
  BY CaptureInvariant, PTL DEF IInv

\* The pipeline sees the traffic in order, each packet once, and misses
\* exactly the packets that were refused, for any queue size and any traffic.
THEOREM StreamInOrder == Spec => []InOrderOnce
  BY CaptureInvariant, PTL DEF IInv

\* A generator that ended by the pill has delivered all that was accepted.
THEOREM DrainedComplete == Spec => []DrainedIsComplete
  <1>1. IInv => DrainedIsComplete
    <2> SUFFICES ASSUME IInv, consumer = "drained" PROVE
                   /\ queue = <<>> /\ sniffer = "gone"
                   /\ ToSet(delivered) = (1..captured) \ lost
      BY DEF DrainedIsComplete
    <2>1. queue = <<>> /\ sniffer = "gone"
      BY DEF IInv, PillLast
    <2>2. Waiting = <<>> /\ delivered \in Seq(Nat)
      BY <2>1, StreamType, EmptySeq DEF IInv, Waiting, PillSent
    <2>3. delivered \o Waiting = delivered
      BY <2>2, ConcatEmptySeq
    <2>4. QED
      BY <2>1, <2>3 DEF IInv, InOrderOnce
  <1>2. QED
    BY <1>1, CaptureInvariant, PTL
=============================================================================
