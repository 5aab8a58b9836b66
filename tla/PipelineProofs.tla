--------------------------- MODULE PipelineProofs ---------------------------
(***************************************************************************)
(* The safety properties of a run, for any packets, rules, policies and    *)
(* bounds, under RunAssumption alone.  PipelineInv joins the types, what   *)
(* is in hand at each stage (Control), and one part for each thing a run   *)
(* accounts for: the finished events, the verdicts, the traces of an       *)
(* event, the event log, the counters, the place of every flow and what    *)
(* the flows count.  Each part is kept by every step in a lemma of its own *)
(* that names the other parts it rests on.  The steps that leave an event, *)
(* the table or the files alone are first gathered under one name, so that *)
(* a lemma splits on the few steps that can disturb its part.              *)
(***************************************************************************)
EXTENDS Pipeline, FiniteSetTheorems, WellFoundedInduction, SequenceTheorems, TLAPS

EventTyped ==
  /\ event \in Events \cup {None} /\ finished \subseteq Events
  /\ \A e \in finished \cup ({event} \ {None}) :
       e.id \in 1..packet_count /\ e.flow \in 1..Len(size) \cup {None}

StateTyped ==
  /\ policy \in Policies
  /\ stage \in {"capture", "parse", "decode", "preprocess", "judged", "discard", "leave", "track", "count", "sweep",
                "engine", "detect", "flush", "done"}
  /\ packet_count \in 0..MaxPackets
  /\ packet \in Packets \cup {None}
  /\ counts \in [Verdicts -> Nat]
  /\ matched \subseteq Rules
  /\ failures \in 0..MaxFailures /\ interrupts \in 0..MaxInterrupts

TableTyped ==
  /\ DOMAIN live \subseteq Nat /\ live \in [DOMAIN live -> 1..Len(size)]
  /\ size \in Seq(Nat) /\ {leaving, writing} \subseteq 1..Len(size) \cup {None}

FilesTyped ==
  /\ events \in Seq(1..packet_count) /\ flows \in Seq(1..Len(size))
  /\ detections \in Seq((1..packet_count) \X Rules)
  /\ write_errors \in [{"events", "flows", "detections"} -> Nat]
  /\ flows_exported \in Nat

LEMMA TypeParts == TypeOK <=> EventTyped /\ StateTyped /\ TableTyped /\ FilesTyped
  BY DEF TypeOK, EventTyped, StateTyped, TableTyped, FilesTyped

\* What the parser returns, whatever it meets.
FreshEvent(e) ==
  /\ e \in Events /\ e.id = packet_count
  /\ e.flow = None /\ e.prep = None /\ e.action = None /\ e.decode = None
  /\ e.status = "UNKNOWN" => e.ends = None
  /\ e.error \notin {"preprocessor", "flow_tracker", "engine"}

LEMMA MalformedTyped ==
  ASSUME NEW e, FreshEvent(e), NEW layer \in {"parser", "network", "transport", "application"}
  PROVE  FreshEvent(Malformed(e, layer)) /\ Malformed(e, layer).status = "MALFORMED"
  BY DEF FreshEvent, Malformed, Events, Layers

LEMMA ParsedTyped ==
  ASSUME TypeOK, packet \in Packets
  PROVE  FreshEvent(NewEvent) /\ FreshEvent(Parsed(packet))
  <1> USE RunAssumption DEF RunAssumption, Layers, Verdicts
  <1>1. packet \in PacketKinds
    OBVIOUS
  <1>2. FreshEvent(NewEvent) /\ NewEvent.status = "OK"
    BY DEF NewEvent, Events, TypeOK, FreshEvent
  <1> DEFINE e == [NewEvent EXCEPT !.ends = packet.ends]
  <1>3. FreshEvent(e) /\ e.status = "OK"
    BY <1>1, <1>2 DEF FreshEvent, Events, PacketKinds
  <1> HIDE DEF e
  <1>4. FreshEvent([e EXCEPT !.status = "IGNORED"])
    BY <1>3 DEF FreshEvent, Events
  <1>5. FreshEvent(ParsedApplication(e, packet))
    BY <1>3, <1>4, MalformedTyped DEF ParsedApplication
  <1>6. FreshEvent([NewEvent EXCEPT !.supported = FALSE])
    BY <1>2 DEF FreshEvent, Events
  <1>7. FreshEvent(ParsedTransport(NewEvent, packet))
    BY <1>2, <1>5, <1>6, MalformedTyped DEF ParsedTransport, e
  <1>8. FreshEvent([NewEvent EXCEPT !.status = "UNKNOWN", !.supported = FALSE])
    BY <1>2 DEF FreshEvent, Events, NewEvent
  <1>9. QED
    BY <1>2, <1>7, <1>8, MalformedTyped DEF Parsed

-----------------------------------------------------------------------------
(* The steps *)

Takes ==
  \E k \in DOMAIN live : TakeOut(k) /\ (stage \in {"sweep", "flush"} \/ (stage = "track" /\ Tracked(event)))

Moves == PassBy \/ EndUpdate \/ CaptureEnds \/ Shutdown \/ FlushRaises \/ CountVerdict \/ Discard

Raises == UpdateRaises \/ EngineRaises \/ DiscardRaises

Receives == \E p \in Packets : Receive(p)

LEMMA Steps ==
  ASSUME Next
  PROVE  \/ Receives \/ Parse \/ ParseRaises \/ Decode \/ DecodeRaises \/ Preprocess \/ PreprocessRaises
         \/ Leave \/ Log \/ Moves \/ Raises
         \/ Takes \/ HandOver \/ WriteFlow \/ Attach \/ Count
         \/ Evaluate \/ WriteDetection \/ Interrupt
  <1>1. Expire => Takes
    BY DEF Expire, Known, Takes
  <1>2. ASSUME NEW k \in DOMAIN live, Evict(k) \/ Sweep(k) \/ Flush(k) PROVE Takes
    BY <1>2 DEF Evict, Sweep, Flush, Takes
  <1>3. QED
    BY <1>1, <1>2 DEF Next, Work, Track, Moves, Raises, Receives

\* Steps that leave the flows alone.
Elsewhere ==
  /\ UNCHANGED <<live, size, leaving, writing, flows, flows_exported, interrupts>>
  /\ write_errors'["flows"] = write_errors["flows"]

LEMMA TableSteps ==
  ASSUME TypeOK, Next
  PROVE  Elsewhere \/ Takes \/ HandOver \/ WriteFlow \/ Attach \/ Count \/ Interrupt
  <1>1. CASE Receives \/ Parse \/ ParseRaises \/ Decode \/ DecodeRaises
    BY <1>1 DEF Elsewhere, Receives, Receive, Parse, ParseRaises, Decode, DecodeRaises, OnEvent, input, table, files
  <1>2. CASE Preprocess \/ PreprocessRaises \/ Leave \/ Moves
    BY <1>2 DEF Elsewhere, Preprocess, PreprocessRaises, Leave, Moves, PassBy, EndUpdate, CaptureEnds,
                Shutdown, FlushRaises, CountVerdict, Discard, OnEvent, input, table, files
  <1>3. CASE Raises \/ Evaluate
    BY <1>3 DEF Elsewhere, Raises, UpdateRaises, EngineRaises, DiscardRaises, Evaluate, OnEvent, input, table, files
  <1>4. CASE Log \/ WriteDetection
    BY <1>4 DEF Elsewhere, Log, Written, NotWritten, WriteFails, Kept, WriteDetection, input, table, files, TypeOK
  <1>5. QED
    BY <1>1, <1>2, <1>3, <1>4, Steps

\* Steps that leave the events alone.
Others == Moves \/ Takes \/ HandOver \/ WriteFlow \/ Count \/ Evaluate \/ WriteDetection \/ Interrupt

Aside ==
  /\ UNCHANGED <<packet_count, packet, event, finished, events>>
  /\ write_errors'["events"] = write_errors["events"]

LEMMA EventSteps ==
  ASSUME TypeOK, Next
  PROVE  \/ Aside /\ Others
         \/ Receives \/ Parse \/ ParseRaises \/ Decode \/ DecodeRaises \/ Preprocess \/ PreprocessRaises
         \/ Leave \/ Raises \/ Attach \/ Log
  <1>1. CASE Moves
    BY <1>1 DEF Aside, Moves, PassBy, EndUpdate, CaptureEnds, Shutdown, FlushRaises, CountVerdict, Discard,
                OnEvent, input, files, Others
  <1>2. CASE Takes \/ HandOver \/ Count \/ Evaluate \/ Interrupt
    BY <1>2 DEF Aside, Takes, TakeOut, HandOver, Count, Evaluate, Interrupt, input, files, Others
  <1>3. CASE WriteFlow \/ WriteDetection
    BY <1>3 DEF Aside, WriteFlow, WriteDetection, WriteFails, input, files, Others, TypeOK
  <1>4. QED
    BY <1>1, <1>2, <1>3, Steps

-----------------------------------------------------------------------------
(* Types *)

LEMMA MinIsLeast ==
  ASSUME NEW S \in SUBSET Nat, S # {}
  PROVE  Min(S) \in S /\ \A y \in S : Min(S) <= y
  <1> DEFINE R == OpToRel(<, Nat)
  <1>1. \E x \in S : \A y \in S : ~ (<<y, x>> \in R)
    <2>1. IsWellFoundedOn(R, Nat)
      BY NatLessThanWellFounded
    <2> HIDE DEF R
    <2>2. QED
      BY <2>1, WFMin
  <1>2. \A m, n \in Nat : <<m, n>> \in R <=> m < n
    BY DEF OpToRel
  <1>3. PICK x \in S : \A y \in S : ~ (<<y, x>> \in R)
    BY <1>1
  <1> HIDE DEF R
  <1>4. ASSUME NEW y \in S PROVE x <= y
    <2>1. x \in Nat /\ y \in Nat
      OBVIOUS
    <2>2. ~ (y < x)
      BY <1>2, <1>3, <2>1
    <2>3. QED
      BY <2>1, <2>2
  <1>5. QED
    BY <1>3, <1>4 DEF Min

\* The packets and the flows only become more.
LEMMA Grows ==
  ASSUME TypeOK, Next
  PROVE  /\ packet_count' \in Nat /\ packet_count <= packet_count'
         /\ Len(size') \in Nat /\ Len(size) <= Len(size')
  <1>1. packet_count' \in Nat /\ packet_count <= packet_count'
    <2>0. packet_count \in Nat
      BY TypeParts, RunAssumption DEF StateTyped
    <2>1. CASE Receives
      <3>1. packet_count' = packet_count + 1
        BY <2>1 DEF Receives, Receive
      <3>2. QED
        BY <2>0, <3>1
    <2>2. CASE UNCHANGED packet_count
      BY <2>0, <2>2
    <2>3. QED
      BY <2>1, <2>2, EventSteps
      DEF Aside, Parse, ParseRaises, Decode, DecodeRaises, Preprocess, PreprocessRaises, Leave,
          Raises, UpdateRaises, EngineRaises, DiscardRaises, Attach, Log, OnEvent, input
  <1>2. Len(size') \in Nat /\ Len(size) <= Len(size')
    <2>1. CASE Attach
      BY <2>1 DEF Attach, TypeOK
    <2>2. CASE Count
      BY <2>2 DEF Count, TypeOK
    <2>3. CASE UNCHANGED size
      BY <2>3 DEF TypeOK
    <2>4. QED
      BY <2>1, <2>2, <2>3, TableSteps DEF Elsewhere, Takes, TakeOut, HandOver, WriteFlow, Interrupt, table
  <1>3. QED
    BY <1>1, <1>2

LEMMA FailedTyped ==
  ASSUME NEW e \in Events, NEW layer \in Layers
  PROVE  /\ Failed(e, layer) \in Events
         /\ Failed(e, layer).id = e.id /\ Failed(e, layer).flow = e.flow
         /\ Failed(e, layer).prep = e.prep /\ Failed(e, layer).action = e.action
         /\ Failed(e, layer).status = e.status /\ Failed(e, layer).ends = e.ends
         /\ Failed(e, layer).error = IF e.error = None THEN layer ELSE e.error
         /\ Failed(e, layer).error # None /\ Failed(e, layer).raised = e.raised
  BY RunAssumption DEF Failed, Events

\* What the preprocessor returns.
Verdict == apply_policies(event, validate(event))

LEMMA VerdictTyped ==
  ASSUME TypeOK, event \in Events
  PROVE  /\ Verdict \in Events /\ Verdict.prep \in Verdicts
         /\ Verdict.id = event.id /\ Verdict.flow = event.flow /\ Verdict.status = event.status
         /\ Verdict.ends = event.ends /\ Verdict.error = event.error
         /\ event.status = "MALFORMED" => Verdict.prep = "invalid"
  <1>1. validate(event) \in Verdicts /\ (event.status = "MALFORMED" => validate(event) = "invalid")
    BY DEF validate, Events, Verdicts
  <1> DEFINE v == validate(event)
             prep == IF v # "invalid" /\ ~event.supported THEN "partial" ELSE v
             action == IF v = "invalid" THEN IF policy.invalid = "drop" THEN "dropped" ELSE "flagged"
                       ELSE IF ~event.supported
                         THEN IF policy.unsupported = "skip" THEN "skipped" ELSE "flagged"
                       ELSE "none"
  <1>2. Verdict = [event EXCEPT !.prep = prep, !.action = action]
    BY DEF Verdict, apply_policies
  <1>3. prep \in Verdicts /\ (event.status = "MALFORMED" => prep = "invalid")
    BY <1>1 DEF Verdicts
  <1>4. action \in {"none", "flagged", "skipped", "dropped"}
    OBVIOUS
  <1> HIDE DEF v, prep, action
  <1>5. QED
    BY <1>2, <1>3, <1>4 DEF Events

\* What it leaves when it raises.
LEMMA FallbackTyped ==
  ASSUME event \in Events
  PROVE  /\ Fallback(event) \in Events /\ Fallback(event).prep = "invalid" /\ Fallback(event).action = "flagged"
         /\ Fallback(event).id = event.id /\ Fallback(event).flow = event.flow /\ Fallback(event).status = event.status
         /\ Fallback(event).ends = event.ends /\ Fallback(event).error # None
         /\ event.error # None => Fallback(event).error = event.error
  <1>1. "preprocessor" \in Layers
    BY DEF Layers
  <1> DEFINE e == Failed(event, "preprocessor")
  <1>2. /\ e \in Events /\ e.error # None /\ e.id = event.id /\ e.flow = event.flow
        /\ e.status = event.status /\ e.ends = event.ends
        /\ event.error # None => e.error = event.error
    BY <1>1, FailedTyped
  <1> HIDE DEF e
  <1>3. QED
    BY <1>2 DEF Fallback, Events, Verdicts, e

-----------------------------------------------------------------------------
(* Control *)

InHand == {"decode", "preprocess", "judged", "discard", "leave", "track", "count", "sweep", "engine", "detect"}

\* What is in hand at each stage.  Ctrl+C leaves it there for good.
Control ==
  /\ stage = "capture" => packet = None
  /\ stage \in {"capture", "parse"} => event = None
  /\ stage \in InHand \cup {"parse"} => packet # None
  /\ stage \in InHand => event # None
  /\ packet # None => packet_count # 0
  /\ event # None => packet # None /\ event.id = packet_count

\* The packet joins its flow, or opens the next one.
Joins ==
  /\ event.ends \in DOMAIN live /\ UNCHANGED <<size, live>>
  /\ event' = [event EXCEPT !.flow = live[event.ends]]

Opens ==
  /\ event.ends \notin DOMAIN live
  /\ size' = Append(size, 0) /\ event' = [event EXCEPT !.flow = Len(size) + 1]
  /\ DOMAIN live' = DOMAIN live \cup {event.ends} /\ live'[event.ends] = Len(size) + 1
  /\ \A k \in DOMAIN live : live'[k] = live[k]

LEMMA AttachStep ==
  ASSUME TypeOK, Attach
  PROVE  Joins \/ Opens
  <1>1. CASE Known
    <2>1. live' = live
      BY <1>1 DEF Attach, Known, TypeOK
    <2>2. QED
      BY <1>1, <2>1 DEF Attach, Known, Joins
  <1>2. CASE ~Known
    <2>1. live' = [k \in DOMAIN live \cup {event.ends} |-> IF k = event.ends THEN Len(size) + 1 ELSE live[k]]
      BY <1>2 DEF Attach
    <2>2. QED
      BY <1>2, <2>1 DEF Attach, Known, Opens
  <1>3. QED
    BY <1>1, <1>2

Held == event \in Events /\ event # None

\* A stage that raises leaves its mark, and the rest of the event as it is.
Suffers(layer) ==
  /\ event' \in Events
  /\ event'.id = event.id /\ event'.flow = event.flow /\ event'.prep = event.prep
  /\ event'.action = event.action /\ event'.status = event.status /\ event'.ends = event.ends
  /\ event'.error = IF event.error = None THEN layer ELSE event.error
Same == UNCHANGED <<packet_count, packet, finished>>

\* What the steps of the stages make of the event.
LEMMA EventShape ==
  ASSUME TypeOK, Control, Next
  PROVE  \/ Aside /\ Others
         \/ Receives
         \/ (Parse \/ ParseRaises) /\ Same /\ packet \in Packets /\ FreshEvent(event')
         \/ Decode /\ Same /\ Held /\ event' \in {event, [event EXCEPT !.decode = "PARTIAL"]}
         \/ DecodeRaises /\ Same /\ Held /\ Suffers("decoder")
         \/ Preprocess /\ Same /\ Held /\ event' = Verdict
         \/ PreprocessRaises /\ Same /\ Held /\ event' = Fallback(event)
         \/ Attach /\ Same /\ Held /\ \E f \in 1..Len(size') : event' = [event EXCEPT !.flow = f]
         \/ Raises /\ Same /\ Held /\ \E layer \in {"flow_tracker", "engine"} : Suffers(layer)
         \/ (Leave \/ Log) /\ Held /\ event' = None /\ finished' = finished \cup {event}
  <1>0. stage \in InHand => Held
    BY TypeParts DEF EventTyped, Control, Held
  <1>1. Parse \/ ParseRaises => Same /\ packet \in Packets /\ FreshEvent(event')
    <2>1. Parse \/ ParseRaises => packet \in Packets
      BY DEF Control, Parse, ParseRaises, OnEvent, TypeOK
    <2>2. QED
      BY <2>1, ParsedTyped, MalformedTyped DEF Parse, ParseRaises, OnEvent, Same, input
  <1>2. Attach => Same /\ Held /\ \E f \in 1..Len(size') : event' = [event EXCEPT !.flow = f]
    <2> SUFFICES ASSUME Attach PROVE Same /\ Held /\ \E f \in 1..Len(size') : event' = [event EXCEPT !.flow = f]
      OBVIOUS
    <2>0. Same /\ Held
      BY <1>0 DEF Attach, Same, InHand, input
    <2>1. size \in Seq(Nat) /\ Len(size) \in Nat
      BY TypeParts DEF TableTyped
    <2>2. CASE Joins
      BY <2>0, <2>2, TypeParts DEF Joins, TableTyped
    <2>3. CASE Opens
      <3>1. Len(size') = Len(size) + 1
        BY <2>1, <2>3 DEF Opens
      <3>2. Len(size) + 1 \in 1..Len(size')
        BY <2>1, <3>1
      <3>3. QED
        BY <2>0, <2>3, <3>2 DEF Opens
    <2>4. QED
      BY <2>2, <2>3, AttachStep
  <1>3. Decode => Same /\ Held /\ event' \in {event, [event EXCEPT !.decode = "PARTIAL"]}
    BY <1>0 DEF Decode, OnEvent, InHand, Same, input
  <1>4. /\ DecodeRaises => Same /\ Held /\ Suffers("decoder")
        /\ Raises => Same /\ Held /\ \E layer \in {"flow_tracker", "engine"} : Suffers(layer)
    <2>1. DecodeRaises \/ Raises => Same /\ Held
      BY <1>0 DEF DecodeRaises, Raises, UpdateRaises, EngineRaises, DiscardRaises, OnEvent, InHand, Same, input
    <2>2. ASSUME Held, NEW layer \in Layers, event' = Failed(event, layer) PROVE Suffers(layer)
      BY <2>2, FailedTyped DEF Held, Suffers
    <2>3. ASSUME Held, event' = [Failed(event, "flow_tracker") EXCEPT !.raised = TRUE]
          PROVE  Suffers("flow_tracker")
      <3> DEFINE e == Failed(event, "flow_tracker")
      <3>1. /\ e \in Events /\ e.id = event.id /\ e.flow = event.flow /\ e.prep = event.prep
            /\ e.action = event.action /\ e.status = event.status /\ e.ends = event.ends
            /\ e.error = IF event.error = None THEN "flow_tracker" ELSE event.error
        BY <2>3, FailedTyped DEF Held, Layers
      <3>2. event' = [e EXCEPT !.raised = TRUE]
        BY <2>3
      <3> HIDE DEF e
      <3>3. QED
        BY <3>1, <3>2 DEF Suffers, Events
    <2>4. {"decoder", "flow_tracker", "engine"} \subseteq Layers
      BY DEF Layers
    <2>5. DecodeRaises => Suffers("decoder")
      BY <2>1, <2>2, <2>4 DEF DecodeRaises
    <2>6. Raises => \E layer \in {"flow_tracker", "engine"} : Suffers(layer)
      <3>1. UpdateRaises => Suffers("flow_tracker")
        BY <2>1, <2>3 DEF Raises, UpdateRaises
      <3>2. EngineRaises \/ DiscardRaises => Suffers("engine")
        BY <2>1, <2>2, <2>4 DEF Raises, EngineRaises, DiscardRaises
      <3>3. QED
        BY <3>1, <3>2 DEF Raises
    <2>7. QED
      BY <2>1, <2>5, <2>6
  <1>5. /\ Preprocess => Same /\ Held /\ event' = Verdict
        /\ PreprocessRaises => Same /\ Held /\ event' = Fallback(event)
    BY <1>0 DEF Preprocess, PreprocessRaises, OnEvent, Verdict, InHand, Same, input
  <1>6. Leave \/ Log => Held /\ event' = None /\ finished' = finished \cup {event}
    BY <1>0 DEF Leave, Log, Return, InHand
  <1>7. QED
    BY <1>1, <1>2, <1>3, <1>4, <1>5, <1>6, EventSteps

LEMMA EventTypeKept ==
  ASSUME TypeOK, Control, Next
  PROVE  EventTyped'
  <1> USE RunAssumption
  <1>0. /\ event \in Events \cup {None} /\ finished \subseteq Events
        /\ packet_count \in Nat /\ Len(size) \in Nat
        /\ \A e \in finished : e.id \in 1..packet_count /\ e.flow \in 1..Len(size) \cup {None}
        /\ event # None => event.id \in 1..packet_count /\ event.flow \in 1..Len(size) \cup {None}
    BY TypeParts DEF EventTyped, StateTyped, TableTyped
  \* The event may become any one of this packet and of a known flow.
  <1>a. ASSUME Same, NEW e, event' = e, e \in Events, e.id \in 1..packet_count, e.flow \in 1..Len(size') \cup {None}
        PROVE  EventTyped'
    BY <1>0, <1>a, Grows DEF EventTyped, Same
  <1>b. ASSUME Same, Held, event' \in Events, event'.id = event.id, event'.flow = event.flow
        PROVE  EventTyped'
    BY <1>0, <1>a, <1>b, Grows DEF Held
  <1>1. CASE Aside
    BY <1>0, <1>1, Grows DEF Aside, EventTyped
  <1>2. CASE Receives
    BY <1>0, <1>2, Grows DEF Receives, Receive, EventTyped
  <1>3. CASE Same /\ packet \in Packets /\ FreshEvent(event')
    <2>1. packet_count \in 1..packet_count
      BY <1>0, <1>3 DEF Control
    <2>2. QED
      BY <1>3, <1>a, <2>1 DEF FreshEvent, Same
  <1>4. CASE Same /\ Held /\ event' \in {event, [event EXCEPT !.decode = "PARTIAL"]}
    BY <1>4, <1>b DEF Events, Held
  <1>5. CASE Same /\ Held /\ \E layer \in {"decoder", "flow_tracker", "engine"} : Suffers(layer)
    BY <1>5, <1>b DEF Suffers, Layers, Held
  <1>6. CASE Same /\ Held /\ event' \in {Verdict, Fallback(event)}
    BY <1>6, <1>b, VerdictTyped, FallbackTyped DEF Held
  <1>7. CASE Same /\ Held /\ \E f \in 1..Len(size') : event' = [event EXCEPT !.flow = f]
    BY <1>0, <1>7, <1>a, Grows DEF Held, Events
  <1>8. CASE (Leave \/ Log) /\ Held /\ event' = None /\ finished' = finished \cup {event}
    <2>1. UNCHANGED <<packet_count, size>>
      BY <1>8 DEF Leave, Log, table
    <2>2. QED
      BY <1>0, <1>8, <2>1 DEF EventTyped, Held
  <1>9. QED
    BY <1>1, <1>2, <1>3, <1>4, <1>5, <1>6, <1>7, <1>8, EventShape

LEMMA ControlKept ==
  ASSUME TypeOK, Control, Next
  PROVE  Control'
  <1> USE RunAssumption DEF Control, InHand
  <1>1. CASE Aside /\ Others
    <2>1. CASE Moves \/ Count \/ Evaluate
      BY <1>1, <2>1 DEF Aside, Moves, PassBy, EndUpdate, CaptureEnds, Shutdown, FlushRaises, CountVerdict,
                        Discard, Count, Evaluate, OnEvent
    <2>2. CASE Takes \/ HandOver \/ WriteFlow \/ WriteDetection \/ Interrupt
      BY <1>1, <2>2 DEF Aside, Takes, TakeOut, HandOver, WriteFlow, WriteDetection, Interrupt
    <2>3. QED
      BY <1>1, <2>1, <2>2 DEF Others
  <1>2. CASE Receives
    BY <1>2, TypeParts DEF Receives, Receive, StateTyped
  <1>3. CASE (Parse \/ ParseRaises) /\ Same /\ packet \in Packets /\ FreshEvent(event')
    BY <1>3 DEF Parse, ParseRaises, OnEvent, Same, FreshEvent
  <1>4. CASE Decode /\ Same /\ Held /\ event' \in {event, [event EXCEPT !.decode = "PARTIAL"]}
    <2>1. event' \in Events /\ event'.id = event.id
      BY <1>4 DEF Held, Events
    <2>2. QED
      BY <1>4, <2>1 DEF Decode, OnEvent, Same, Held
  <1>5. CASE (DecodeRaises \/ Raises) /\ Same /\ Held
             /\ \E layer \in {"decoder", "flow_tracker", "engine"} : Suffers(layer)
    <2>1. event' \in Events /\ event'.id = event.id
      BY <1>5 DEF Suffers, Held, Layers
    <2>2. QED
      BY <1>5, <2>1 DEF DecodeRaises, Raises, UpdateRaises, EngineRaises, DiscardRaises, OnEvent, Same, Held
  <1>6. CASE (Preprocess \/ PreprocessRaises) /\ Same /\ Held /\ event' \in {Verdict, Fallback(event)}
    <2>1. event' \in Events /\ event'.id = event.id
      BY <1>6, VerdictTyped, FallbackTyped DEF Held
    <2>2. QED
      BY <1>6, <2>1 DEF Preprocess, PreprocessRaises, OnEvent, Same, Held
  <1>7. CASE Attach /\ Same /\ Held /\ \E f \in 1..Len(size') : event' = [event EXCEPT !.flow = f]
    <2>1. Len(size') \in Nat
      BY Grows
    <2>2. event' \in Events /\ event'.id = event.id
      BY <1>7, <2>1 DEF Held, Events
    <2>3. QED
      BY <1>7, <2>2 DEF Attach, Same, Held
  <1>8. CASE (Leave \/ Log) /\ Held
    BY <1>8 DEF Leave, Log, Return
  <1>9. QED
    BY <1>1, <1>2, <1>3, <1>4, <1>5, <1>6, <1>7, <1>8, EventShape

LEMMA StateTypeKept ==
  ASSUME TypeOK, Control, Next
  PROVE  StateTyped'
  <1> USE RunAssumption
  <1>0. StateTyped
    BY TypeParts
  <1>1. failures' \in 0..MaxFailures
    <2>1. Works \/ Fails
      BY Steps DEF Receives, Receive, Parse, ParseRaises, Decode, DecodeRaises, Preprocess, PreprocessRaises,
         Leave, Log, Written, NotWritten, WriteFails, Kept, Moves, PassBy, EndUpdate, CaptureEnds, Shutdown,
         FlushRaises, CountVerdict, Discard, Raises,
         UpdateRaises, EngineRaises, DiscardRaises, Takes, TakeOut, HandOver, WriteFlow, Attach, Count,
         Evaluate, WriteDetection,
         Interrupt
    <2>2. QED
      BY <1>0, <2>1 DEF StateTyped, Works, Fails
  <1>2. interrupts' \in 0..MaxInterrupts /\ policy' \in Policies
    <2>1. CASE Interrupt
      BY <1>0, <2>1 DEF Interrupt, StateTyped
    <2>2. CASE UNCHANGED <<interrupts, policy>>
      BY <1>0, <2>2 DEF StateTyped
    <2>3. QED
      BY <2>1, <2>2, Steps
      DEF Receives, Receive, Parse, ParseRaises, Decode, DecodeRaises, Preprocess, PreprocessRaises, Leave,
          Log, Moves, PassBy, EndUpdate, CaptureEnds, Shutdown, FlushRaises, CountVerdict, Discard, Raises,
          UpdateRaises, EngineRaises, DiscardRaises, Takes, TakeOut,
          HandOver, WriteFlow, Attach, Count, Evaluate, WriteDetection, OnEvent, input
  <1>3. /\ packet_count' \in 0..MaxPackets /\ packet' \in Packets \cup {None}
        /\ counts' \in [Verdicts -> Nat]
    <2>1. CASE CountVerdict
      <3>1. counts' = [counts EXCEPT ![event.prep] = @ + 1] /\ UNCHANGED <<packet_count, packet>>
        BY <2>1 DEF CountVerdict, OnEvent, input
      <3>2. counts' \in [Verdicts -> Nat]
        <4>1. CASE event.prep \in Verdicts
          BY <1>0, <3>1, <4>1 DEF StateTyped
        <4>2. CASE event.prep \notin Verdicts
          BY <1>0, <3>1, <4>2 DEF StateTyped
        <4>3. QED
          BY <4>1, <4>2
      <3>3. QED
        BY <1>0, <3>1, <3>2 DEF StateTyped
    <2>2. CASE Receives
      BY <1>0, <2>2 DEF Receives, Receive, StateTyped
    <2>3. CASE UNCHANGED <<packet_count, counts>> /\ packet' \in {packet, None}
      BY <1>0, <2>3 DEF StateTyped
    <2>4. QED
      BY <2>1, <2>2, <2>3, Steps
      DEF Parse, ParseRaises, Decode, DecodeRaises, Preprocess, PreprocessRaises, Leave, Raises, UpdateRaises,
          EngineRaises, DiscardRaises, Attach, Log, Return, Moves, PassBy, EndUpdate, CaptureEnds, Shutdown,
          FlushRaises, Discard, Takes, TakeOut, HandOver, WriteFlow, Count, Evaluate, WriteDetection, Interrupt,
          OnEvent, input
  <1>4. matched' \subseteq Rules
    <2>1. CASE Evaluate
      BY <2>1 DEF Evaluate
    <2>2. CASE WriteDetection
      BY <1>0, <2>2 DEF WriteDetection, StateTyped
    <2>3. CASE UNCHANGED matched
      BY <1>0, <2>3 DEF StateTyped
    <2>4. QED
      BY <2>1, <2>2, <2>3, Steps
      DEF Receives, Receive, Parse, ParseRaises, Decode, DecodeRaises, Preprocess, PreprocessRaises, Leave,
          Log, Moves, PassBy, EndUpdate, CaptureEnds, Shutdown, FlushRaises, CountVerdict, Discard, Raises,
          UpdateRaises, EngineRaises, DiscardRaises, Takes, TakeOut,
          HandOver, WriteFlow, Attach, Count, Interrupt, OnEvent
  <1>5. stage' \in {"capture", "parse", "decode", "preprocess", "judged", "discard", "leave", "track", "count", "sweep",
                    "engine", "detect", "flush", "done"}
    BY <1>0, Steps
      DEF Receives, Receive, Parse, ParseRaises, Decode, DecodeRaises, Preprocess, PreprocessRaises, Leave,
          Log, Return, Moves, PassBy, EndUpdate, CaptureEnds, Shutdown, FlushRaises, CountVerdict, Discard,
          Raises, UpdateRaises, EngineRaises, DiscardRaises, Takes,
          TakeOut, HandOver, WriteFlow, Attach, Count, Evaluate, WriteDetection, Interrupt, OnEvent, StateTyped
  <1>6. QED
    BY <1>1, <1>2, <1>3, <1>4, <1>5 DEF StateTyped

LEMMA TableTypeKept ==
  ASSUME TypeOK, Control, Next
  PROVE  TableTyped'
  <1>0. TableTyped
    BY TypeParts
  <1>1. CASE Elsewhere \/ HandOver \/ WriteFlow \/ Interrupt
    BY <1>0, <1>1 DEF Elsewhere, HandOver, WriteFlow, Interrupt, TableTyped
  <1>2. CASE Takes
    BY <1>0, <1>2 DEF Takes, TakeOut, TableTyped, Restrict
  <1>3. CASE Count
    <2>1. size \in [1..Len(size) -> Nat] /\ Len(size) \in Nat
      BY <1>0 DEF TableTyped
    <2>0. size' = [size EXCEPT ![event.flow] = @ + 1]
      BY <1>3 DEF Count
    <2> DEFINE counted == [size EXCEPT ![event.flow] = @ + 1]
    <2>2. size' \in [1..Len(size) -> Nat]
      <3>1. \A i \in 1..Len(size) : counted[i] \in Nat
        BY <2>1
      <3>2. DOMAIN counted = 1..Len(size) /\ counted = [i \in DOMAIN counted |-> counted[i]]
        BY <2>1
      <3> HIDE DEF counted
      <3>3. counted \in [1..Len(size) -> Nat]
        BY <3>1, <3>2
      <3>4. QED
        BY <2>0, <3>3 DEF counted
    <2>3. size' \in Seq(Nat) /\ Len(size') = Len(size)
      BY <2>1, <2>2
    <2>4. QED
      BY <1>0, <1>3, <2>3 DEF Count, TableTyped
  <1>4. CASE Attach
    <2>1. event.ends \in Nat
      BY <1>4, TypeParts DEF Attach, Tracked, Control, InHand, EventTyped, Events
    <2>2. CASE Joins
      BY <1>0, <1>4, <2>2 DEF Joins, Attach, TableTyped
    <2>3. CASE Opens
      <3>1. size' \in Seq(Nat) /\ Len(size') = Len(size) + 1 /\ Len(size) \in Nat
        BY <1>0, <2>3 DEF Opens, TableTyped
      <3>2. live' = [k \in DOMAIN live' |-> live'[k]]
        BY <1>4 DEF Attach
      <3>3. QED
        BY <1>0, <1>4, <2>1, <2>3, <3>1, <3>2 DEF Opens, Attach, TableTyped
    <2>4. QED
      BY <1>4, <2>2, <2>3, AttachStep
  <1>5. QED
    BY <1>1, <1>2, <1>3, <1>4, TableSteps

LEMMA WiderSeq ==
  ASSUME NEW S, NEW T, S \subseteq T, NEW s \in Seq(S)
  PROVE  s \in Seq(T)
  OBVIOUS

LEMMA LongerSeq ==
  ASSUME NEW S, NEW s \in Seq(S), NEW x \in S
  PROVE  Append(s, x) \in Seq(S)
  OBVIOUS

LEMMA FilesTypeKept ==
  ASSUME TypeOK, Control, Next
  PROVE  FilesTyped'
  <1>0. FilesTyped /\ packet_count \in Nat
    BY TypeParts, RunAssumption DEF StateTyped
  <1>1. events' \in Seq(1..packet_count')
    <2>1. 1..packet_count \subseteq 1..packet_count'
      BY <1>0, Grows
    <2>2. CASE Log
      <3>1. event.id \in 1..packet_count /\ packet_count' = packet_count
        BY <2>2, TypeParts DEF Log, EventTyped, Control, InHand
      <3>2. events' = Append(events, event.id) \/ events' = events
        BY <2>2 DEF Log, Written, NotWritten, WriteFails, Kept
      <3>3. events \in Seq(1..packet_count)
        BY <1>0 DEF FilesTyped
      <3>4. Append(events, event.id) \in Seq(1..packet_count)
        BY <3>1, <3>3, LongerSeq
      <3>5. QED
        BY <3>1, <3>2, <3>3, <3>4
    <2>3. CASE UNCHANGED events
      BY <1>0, <2>1, <2>3, WiderSeq DEF FilesTyped
    <2>4. QED
      BY <2>2, <2>3, EventSteps
      DEF Aside, Receives, Receive, Parse, ParseRaises, Decode, DecodeRaises, Preprocess, PreprocessRaises,
          Leave, Raises, UpdateRaises, EngineRaises, DiscardRaises, Attach, OnEvent, files
  <1>2. flows' \in Seq(1..Len(size'))
    <2>1. 1..Len(size) \subseteq 1..Len(size') /\ Len(size) \in Nat
      BY Grows, TypeParts DEF TableTyped
    <2>2. CASE WriteFlow
      <3>1. writing \in 1..Len(size) /\ size' = size
        BY <2>2, TypeParts DEF WriteFlow, TableTyped
      <3>2. flows' = Append(flows, writing) \/ flows' = flows
        BY <2>2 DEF WriteFlow, WriteFails
      <3>3. flows \in Seq(1..Len(size))
        BY <1>0 DEF FilesTyped
      <3>4. Append(flows, writing) \in Seq(1..Len(size))
        BY <3>1, <3>3, LongerSeq
      <3>5. QED
        BY <3>1, <3>2, <3>3, <3>4
    <2>3. CASE UNCHANGED flows
      BY <1>0, <2>1, <2>3, WiderSeq DEF FilesTyped
    <2>4. QED
      BY <2>2, <2>3, TableSteps DEF Elsewhere, Takes, TakeOut, HandOver, Attach, Count, Interrupt, files
  <1>3. detections' \in Seq((1..packet_count') \X Rules)
    <2>1. (1..packet_count) \X Rules \subseteq (1..packet_count') \X Rules
      BY <1>0, Grows
    <2>2. CASE WriteDetection
      <3>1. event.id \in 1..packet_count /\ packet_count' = packet_count
        BY <2>2, TypeParts DEF WriteDetection, EventTyped, Control, InHand, input
      <3>2. Min(matched) \in Rules
        BY <2>2, TypeParts, RunAssumption, MinIsLeast DEF WriteDetection, StateTyped
      <3>3. <<event.id, Min(matched)>> \in (1..packet_count) \X Rules
        BY <3>1, <3>2
      <3>4. detections' = Append(detections, <<event.id, Min(matched)>>) \/ detections' = detections
        BY <2>2 DEF WriteDetection, WriteFails
      <3> DEFINE pairs == (1..packet_count) \X Rules
                 pair == <<event.id, Min(matched)>>
      <3>5. detections \in Seq(pairs) /\ pair \in pairs
        BY <1>0, <3>3 DEF FilesTyped
      <3> HIDE DEF pairs, pair
      <3>6. Append(detections, pair) \in Seq(pairs)
        BY <3>5, LongerSeq
      <3>7. detections' \in Seq(pairs)
        BY <3>4, <3>5, <3>6 DEF pair
      <3>8. QED
        BY <3>1, <3>7 DEF pairs
    <2>3. CASE UNCHANGED detections
      BY <1>0, <2>1, <2>3, WiderSeq DEF FilesTyped
    <2>4. QED
      BY <2>2, <2>3, Steps
      DEF Receives, Receive, Parse, ParseRaises, Decode, DecodeRaises, Preprocess, PreprocessRaises, Leave,
          Log, Moves, PassBy, EndUpdate, CaptureEnds, Shutdown, FlushRaises, CountVerdict, Discard, Raises,
          UpdateRaises, EngineRaises, DiscardRaises, Takes, TakeOut,
          HandOver, WriteFlow, Attach, Count, Evaluate, Interrupt, OnEvent, files
  <1>4. write_errors' \in [{"events", "flows", "detections"} -> Nat] /\ flows_exported' \in Nat
    <2>0. ASSUME NEW f \in {"events", "flows", "detections"}
          PROVE  [write_errors EXCEPT ![f] = @ + 1] \in [{"events", "flows", "detections"} -> Nat]
      BY <1>0 DEF FilesTyped
    <2>1. CASE UNCHANGED flows_exported
               /\ \/ UNCHANGED write_errors
                  \/ \E f \in {"events", "flows", "detections"} : write_errors' = [write_errors EXCEPT ![f] = @ + 1]
      BY <1>0, <2>0, <2>1 DEF FilesTyped
    <2>2. CASE HandOver
      BY <1>0, <2>2 DEF HandOver, FilesTyped
    <2>3. CASE Log \/ WriteFlow \/ WriteDetection
      <3>1. \/ UNCHANGED write_errors
            \/ write_errors' = [write_errors EXCEPT !["events"] = @ + 1]
            \/ write_errors' = [write_errors EXCEPT !["flows"] = @ + 1]
            \/ write_errors' = [write_errors EXCEPT !["detections"] = @ + 1]
        <4>1. CASE Log
          BY <4>1 DEF Log, Written, NotWritten, WriteFails, Kept
        <4>2. CASE WriteFlow
          BY <4>2 DEF WriteFlow, WriteFails
        <4>3. CASE WriteDetection
          BY <4>3 DEF WriteDetection, WriteFails
        <4>4. QED
          BY <2>3, <4>1, <4>2, <4>3
      <3>2. UNCHANGED flows_exported
        BY <2>3 DEF Log, WriteFlow, WriteDetection
      <3>3. QED
        BY <2>1, <3>1, <3>2
    <2>4. QED
      BY <2>1, <2>2, <2>3, Steps
      DEF Receives, Receive, Parse, ParseRaises, Decode, DecodeRaises, Preprocess, PreprocessRaises, Leave,
          Moves, PassBy, EndUpdate, CaptureEnds, Shutdown, FlushRaises, CountVerdict, Discard, Raises, UpdateRaises,
          EngineRaises, DiscardRaises, Takes, TakeOut, Attach, Count, Evaluate, Interrupt, OnEvent, files
  <1>5. QED
    BY <1>1, <1>2, <1>3, <1>4 DEF FilesTyped

LEMMA Started ==
  ASSUME Init
  PROVE  TypeOK /\ Control
  BY RunAssumption DEF Init, TypeOK, Control, InHand

LEMMA TypeStep ==
  ASSUME TypeOK, Control, [Next]_vars
  PROVE  TypeOK' /\ Control'
  <1>1. CASE Next
    <2>1. EventTyped' /\ StateTyped' /\ TableTyped' /\ FilesTyped'
      BY <1>1, EventTypeKept, StateTypeKept, TableTypeKept, FilesTypeKept
    <2>2. QED
      BY <1>1, <2>1, ControlKept DEF TypeOK, EventTyped, StateTyped, TableTyped, FilesTyped
  <1>2. CASE UNCHANGED vars
    BY <1>2 DEF TypeOK, Control, vars
  <1>3. QED
    BY <1>1, <1>2

\* Every variable keeps to its type, whatever packets come and whatever fails.
THEOREM TypeCorrect == Spec => []TypeOK
  <1>1. Spec => [](TypeOK /\ Control)
    BY Started, TypeStep, PTL DEF Spec
  <1>2. QED
    BY <1>1, PTL

\* Whatever else fails for an event, safe_stage and the parser leave its first
\* error in error_info.
THEOREM ErrorsKept == Spec => FirstErrorKept
  <1>1. ASSUME TypeOK, Control, Next, event # None, event' # None, event.error # None
        PROVE  event'.error = event.error
    <2>1. CASE Aside \/ Receives
      BY <2>1 DEF Aside, Receives, Receive
    <2>2. CASE Parse \/ ParseRaises
      BY <1>1, <2>2 DEF Parse, ParseRaises, OnEvent, Control
    <2>3. CASE Held /\ \E f \in 1..Len(size') :
                 event' \in {event, [event EXCEPT !.decode = "PARTIAL"], [event EXCEPT !.flow = f]}
      BY <2>3 DEF Held, Events
    <2>4. CASE Held /\ \E layer \in {"decoder", "flow_tracker", "engine"} : Suffers(layer)
      BY <1>1, <2>4 DEF Suffers, Held, Layers
    <2>5. CASE Held /\ event' \in {Verdict, Fallback(event)}
      BY <1>1, <2>5, VerdictTyped, FallbackTyped DEF Held
    <2>6. CASE Decode /\ Held /\ event' \in {event, [event EXCEPT !.decode = "PARTIAL"]}
      BY <2>6 DEF Held, Events
    <2>7. QED
      BY <1>1, <2>1, <2>2, <2>3, <2>4, <2>5, <2>6, EventShape
  <1>2. TypeOK /\ Control /\ [Next]_vars =>
          [event # None /\ event' # None /\ event.error # None => event'.error = event.error]_vars
    BY <1>1
  <1>3. QED
    BY <1>2, Started, TypeStep, PTL DEF Spec, FirstErrorKept

-----------------------------------------------------------------------------
(* The events that went all the way *)

\* Packets are processed one at a time: whatever is finished is older than the
\* packet in hand, and no two events have one number.
OneByOne ==
  /\ IsFiniteSet(finished)
  /\ \A e, f \in finished : e.id = f.id => e = f
  /\ packet # None => \A e \in finished : e.id < packet_count
  /\ packet_count = Cardinality(finished) + (IF packet = None THEN 0 ELSE 1)

\* An event that finishes is not there yet.
LEMMA Newest ==
  ASSUME TypeOK, Control, OneByOne, Held
  PROVE  /\ event \notin finished
         /\ IsFiniteSet(finished \cup {event})
         /\ Cardinality(finished \cup {event}) = Cardinality(finished) + 1
         /\ Cardinality(finished) \in Nat
  <1>1. event \notin finished
    <2>1. event.id = packet_count /\ packet_count \in Nat /\ \A e \in finished : e.id < packet_count
      BY TypeParts, RunAssumption DEF StateTyped, Control, OneByOne, Held
    <2>2. QED
      BY <2>1
  <1>2. QED
    BY <1>1, FS_AddElement, FS_CardinalityType DEF OneByOne

LEMMA OneByOneKept ==
  ASSUME TypeOK, Control, OneByOne, Next
  PROVE  OneByOne'
  <1>1. CASE UNCHANGED <<packet_count, packet, finished>>
    BY <1>1 DEF OneByOne
  <1>2. CASE Receives
    <2>1. packet_count \in Nat /\ \A e \in finished : e.id \in 1..packet_count
      BY TypeParts, RunAssumption DEF StateTyped, EventTyped
    <2>2. packet = None /\ packet' # None /\ packet_count' = packet_count + 1 /\ finished' = finished
      BY <1>2, RunAssumption DEF Receives, Receive, Control
    <2>3. OneByOne /\ Cardinality(finished) \in Nat
      BY FS_CardinalityType DEF OneByOne
    <2>4. packet_count' = Cardinality(finished) + 1
      BY <2>1, <2>2, <2>3 DEF OneByOne
    <2>5. QED
      BY <2>1, <2>2, <2>3, <2>4 DEF OneByOne
  <1>3. CASE (Leave \/ Log) /\ Held
    <2>1. packet # None /\ packet' = None /\ packet_count' = packet_count /\ finished' = finished \cup {event}
      BY <1>3 DEF Leave, Log, Return, Control, Held
    <2>2. event.id = packet_count /\ packet_count \in Nat
      BY TypeParts, RunAssumption, <1>3 DEF StateTyped, Control, Held
    <2>3. \A e \in finished : e.id # event.id
      BY <2>1, <2>2 DEF OneByOne
    <2>4. QED
      BY <1>3, <2>1, <2>2, <2>3, Newest DEF OneByOne
  <1>4. QED
    BY <1>1, <1>2, <1>3, EventShape DEF Aside, Same

-----------------------------------------------------------------------------
(* Verdicts *)

Unjudged(e) ==
  /\ e.prep = None /\ e.flow = None
  /\ e.error # "preprocessor"
  /\ e.status = "UNKNOWN" => e.ends = None

\* An event that was given up can not be used: its verdict is "invalid", or it
\* has no endpoints.
Sober(e) ==
  /\ e.prep # None
  /\ e.status = "MALFORMED" \/ e.error = "preprocessor" => e.prep = "invalid"
  /\ e.status = "UNKNOWN" => e.ends = None

Accepted == {"track", "count", "sweep", "engine", "detect"}

Judged ==
  /\ stage \in {"decode", "preprocess"} => Unjudged(event)
  /\ stage \in Accepted \cup {"judged", "discard", "leave"} => Sober(event)
  /\ stage \in {"discard", "leave"} => Discarded(event)
  /\ stage \in Accepted => ~Discarded(event)
  /\ \A e \in finished : Sober(e)

LEMMA JudgedKept ==
  ASSUME TypeOK, Control, Judged, Next
  PROVE  Judged'
  <1> USE DEF Judged, Accepted
  <1>1. CASE Aside /\ Others
    <2>1. CASE Moves \/ Count \/ Evaluate
      BY <1>1, <2>1 DEF Aside, Moves, PassBy, EndUpdate, CaptureEnds, Shutdown, FlushRaises, CountVerdict,
                        Discard, Count, Evaluate, OnEvent
    <2>2. CASE Takes \/ HandOver \/ WriteFlow \/ WriteDetection \/ Interrupt
      BY <1>1, <2>2 DEF Aside, Takes, TakeOut, HandOver, WriteFlow, WriteDetection, Interrupt
    <2>3. QED
      BY <1>1, <2>1, <2>2 DEF Others
  <1>2. CASE Receives
    BY <1>2 DEF Receives, Receive
  <1>3. CASE (Parse \/ ParseRaises) /\ Same /\ FreshEvent(event')
    BY <1>3 DEF Parse, ParseRaises, OnEvent, Same, FreshEvent, Unjudged
  <1>4. CASE Decode /\ Same /\ Held /\ event' \in {event, [event EXCEPT !.decode = "PARTIAL"]}
    <2>1. Unjudged(event')
      BY <1>4 DEF Decode, OnEvent, Held, Events, Unjudged
    <2>2. QED
      BY <1>4, <2>1 DEF Decode, OnEvent, Same
  <1>5. CASE DecodeRaises /\ Same /\ Held /\ Suffers("decoder")
    <2>1. Unjudged(event')
      BY <1>5 DEF Suffers, DecodeRaises, OnEvent, Held, Unjudged, Layers
    <2>2. QED
      BY <1>5, <2>1 DEF DecodeRaises, OnEvent, Same
  <1>6. CASE Preprocess /\ Same /\ Held /\ event' = Verdict
    <2>1. Sober(event')
      BY <1>6, VerdictTyped, RunAssumption DEF Preprocess, OnEvent, Held, Unjudged, Sober
    <2>2. stage' = "judged"
      BY <1>6 DEF Preprocess, OnEvent
    <2>3. QED
      BY <1>6, <2>1, <2>2 DEF Same
  <1>7. CASE PreprocessRaises /\ Same /\ Held /\ event' = Fallback(event)
    <2>1. Sober(event')
      BY <1>7, FallbackTyped, RunAssumption DEF PreprocessRaises, OnEvent, Held, Unjudged, Sober, Verdicts
    <2>2. stage' = "judged"
      BY <1>7 DEF PreprocessRaises, OnEvent
    <2>3. QED
      BY <1>7, <2>1, <2>2 DEF Same
  <1>8. CASE Attach /\ Same /\ Held /\ \E f \in 1..Len(size') : event' = [event EXCEPT !.flow = f]
    <2>1. Sober(event') /\ ~Discarded(event')
      BY <1>8 DEF Attach, Held, Events, Sober, Discarded
    <2>2. QED
      BY <1>8, <2>1 DEF Attach, Same
  <1>9. CASE Raises /\ Same /\ Held /\ \E layer \in {"flow_tracker", "engine"} : Suffers(layer)
    <2>1. \/ stage \in Accepted /\ stage' \in {"engine", "detect"}
          \/ stage = "discard" /\ stage' = "leave"
      BY <1>9 DEF Raises, UpdateRaises, EngineRaises, DiscardRaises, OnEvent
    <2>2. Sober(event) /\ Sober(event') /\ (Discarded(event') <=> Discarded(event))
      BY <1>9, <2>1 DEF Suffers, Held, Sober, Discarded
    <2>3. QED
      BY <1>9, <2>1, <2>2 DEF Same
  <1>10. CASE (Leave \/ Log) /\ Held /\ event' = None /\ finished' = finished \cup {event}
    BY <1>10 DEF Leave, Log, Return
  <1>11. QED
    BY <1>1, <1>2, <1>3, <1>4, <1>5, <1>6, <1>7, <1>8, <1>9, <1>10, EventShape

-----------------------------------------------------------------------------
(* Traces of an event *)

\* Only an event that the tracker took up has a flow.
FlowsEarned ==
  /\ stage \in {"judged", "discard", "leave", "track"} => event.flow = None
  /\ stage \in {"count", "sweep"} => event.flow # None /\ Tracked(event)
  /\ stage \in {"engine", "detect"} => (event.flow # None => Tracked(event))
  /\ \A e \in finished : e.flow # None => Tracked(e) /\ ~Discarded(e)

\* Only an eligible event has detections, and they are written in order.
DetectionsEarned ==
  /\ matched # {} => stage \in {"detect", "flush", "done"} /\ event # None
  /\ stage = "detect" /\ matched # {} => Eligible(event)
  /\ stage \in (InHand \ {"detect"}) \cup {"parse"} => \A i \in DOMAIN detections : detections[i][1] < packet_count
  /\ stage = "detect" => \A i \in DOMAIN detections : detections[i][1] = packet_count =>
                           Eligible(event) /\ \A r \in matched : detections[i][2] < r
  /\ \A i, j \in DOMAIN detections : i < j =>
       \/ detections[i][1] < detections[j][1]
       \/ detections[i][1] = detections[j][1] /\ detections[i][2] < detections[j][2]
  /\ \A e \in finished, i \in DOMAIN detections : detections[i][1] = e.id => Eligible(e) /\ ~Discarded(e)

LEMMA FlowsEarnedKept ==
  ASSUME TypeOK, Control, Judged, FlowsEarned, Next
  PROVE  FlowsEarned'
  <1> USE DEF FlowsEarned
  <1>1. CASE Aside /\ Others
    <2>1. CASE Moves \/ Count \/ Evaluate
      BY <1>1, <2>1 DEF Aside, Moves, PassBy, EndUpdate, CaptureEnds, Shutdown, FlushRaises, CountVerdict,
                        Discard, Count, Evaluate, OnEvent
    <2>2. CASE Takes \/ HandOver \/ WriteFlow \/ WriteDetection \/ Interrupt
      BY <1>1, <2>2 DEF Aside, Takes, TakeOut, HandOver, WriteFlow, WriteDetection, Interrupt
    <2>3. QED
      BY <1>1, <2>1, <2>2 DEF Others
  <1>2. CASE Receives
    BY <1>2 DEF Receives, Receive
  <1>3. CASE Parse \/ ParseRaises \/ Decode \/ DecodeRaises
    BY <1>3 DEF Parse, ParseRaises, Decode, DecodeRaises, OnEvent
  <1>4. CASE (Preprocess \/ PreprocessRaises) /\ Same /\ Held /\ event' \in {Verdict, Fallback(event)}
    <2>1. event'.flow = None
      BY <1>4, VerdictTyped, FallbackTyped DEF Held, Judged, Unjudged, Preprocess, PreprocessRaises, OnEvent
    <2>2. QED
      BY <1>4, <2>1 DEF Preprocess, PreprocessRaises, OnEvent, Same
  <1>5. CASE Attach /\ Same /\ Held /\ \E f \in 1..Len(size') : event' = [event EXCEPT !.flow = f]
    <2>1. event'.flow # None /\ Tracked(event')
      BY <1>5, Grows, RunAssumption DEF Attach, Held, Events, Tracked
    <2>2. QED
      BY <1>5, <2>1 DEF Attach, Same
  <1>6. CASE Raises /\ Same /\ Held /\ \E layer \in {"flow_tracker", "engine"} : Suffers(layer)
    <2>1. event'.flow # None => Tracked(event')
      BY <1>6 DEF Suffers, Raises, UpdateRaises, EngineRaises, DiscardRaises, OnEvent, Held, Tracked, Layers
    <2>2. QED
      BY <1>6, <2>1 DEF Suffers, Raises, UpdateRaises, EngineRaises, DiscardRaises, OnEvent, Same
  <1>7. CASE (Leave \/ Log) /\ Held /\ event' = None /\ finished' = finished \cup {event}
    BY <1>7 DEF Leave, Log, Return, Judged, Accepted
  <1>8. QED
    BY <1>1, <1>2, <1>3, <1>4, <1>5, <1>6, <1>7, EventShape

\* Steps that write no detection.
Silent == UNCHANGED <<matched, detections>>

LEMMA DetectionSteps ==
  ASSUME Next
  PROVE  Silent \/ Evaluate \/ WriteDetection
  BY Steps
  DEF Silent, Receives, Receive, Parse, ParseRaises, Decode, DecodeRaises, Preprocess, PreprocessRaises,
      Leave, Log, Moves, PassBy, EndUpdate, CaptureEnds, Shutdown, FlushRaises, CountVerdict, Discard, Raises,
      UpdateRaises, EngineRaises, DiscardRaises, Takes,
      TakeOut, HandOver, WriteFlow, Attach, Count, Interrupt, OnEvent, files

LEMMA DetectionsEarnedKept ==
  ASSUME TypeOK, Control, OneByOne, Judged, DetectionsEarned, Next
  PROVE  DetectionsEarned'
  <1>0. /\ detections \in Seq((1..packet_count) \X Rules) /\ packet_count \in Nat /\ matched \in SUBSET Nat
        /\ \A i \in DOMAIN detections : detections[i] \in (1..packet_count) \X Rules
        /\ Rules \subseteq Nat
    <2>1. packet_count \in Nat /\ matched \in SUBSET Nat /\ Rules \subseteq Nat
      <3>1. MaxPackets \in Nat /\ Rules \subseteq Nat
        BY RunAssumption
      <3>2. packet_count \in 0..MaxPackets /\ matched \subseteq Rules
        BY TypeParts DEF StateTyped
      <3>3. QED
        BY <3>1, <3>2
    <2>2. detections \in Seq((1..packet_count) \X Rules)
      BY TypeParts DEF FilesTyped
    <2>3. ASSUME NEW S, detections \in Seq(S) PROVE \A i \in DOMAIN detections : detections[i] \in S
      BY <2>3
    <2>4. QED
      BY <2>1, <2>2, <2>3
  <1> USE DEF DetectionsEarned
  <1>1. CASE Silent /\ ~Evaluate /\ ~WriteDetection
    <2>1. CASE Aside /\ Others
      <3>1. CASE Moves \/ Count
        <4>1. /\ UNCHANGED <<packet_count, event, finished, matched, detections>>
          BY <1>1, <2>1 DEF Silent, Aside
        <4>2. \/ stage \in InHand \ {"detect"} /\ matched = {} /\ stage' \in InHand \ {"detect"}
              \/ stage \notin InHand \cup {"parse"} /\ stage' \in {"flush", "done"}
          BY <3>1 DEF Moves, PassBy, EndUpdate, CaptureEnds, Shutdown, FlushRaises, CountVerdict, Discard, Count,
                      OnEvent, InHand
        <4>3. QED
          BY <4>1, <4>2 DEF InHand
      <3>2. CASE Takes \/ HandOver \/ WriteFlow
        BY <1>1, <2>1, <3>2 DEF Silent, Aside, Takes, TakeOut, HandOver, WriteFlow
      <3>3. CASE Interrupt
        BY <1>1, <2>1, <3>3 DEF Silent, Aside, Interrupt, InHand
      <3>4. QED
        BY <1>1, <2>1, <3>1, <3>2, <3>3 DEF Others
    <2>2. CASE Receives
      <3>1. \A i \in DOMAIN detections : detections[i][1] < packet_count + 1
        BY <1>0
      <3>2. QED
        BY <1>1, <2>2, <3>1 DEF Receives, Receive, Silent, InHand
    <2>3. CASE (Parse \/ ParseRaises \/ Decode \/ DecodeRaises \/ Preprocess \/ PreprocessRaises \/ Attach) /\ Same
      BY <1>1, <2>3 DEF Parse, ParseRaises, Decode, DecodeRaises, Preprocess, PreprocessRaises, Attach,
                        OnEvent, Same, Silent, InHand
    <2>4. CASE Raises /\ Same
      <3>1. matched = {} /\ \A i \in DOMAIN detections : detections[i][1] < packet_count
        BY <2>4 DEF Raises, UpdateRaises, EngineRaises, DiscardRaises, OnEvent, InHand
      <3>2. QED
        BY <1>0, <1>1, <2>4, <3>1 DEF Raises, UpdateRaises, EngineRaises, DiscardRaises, OnEvent, Same, Silent, InHand
    <2>5. CASE (Leave \/ Log) /\ Held
      <3>1. /\ event.id = packet_count /\ finished' = finished \cup {event} /\ event' = None
            /\ stage' = "capture" /\ packet_count' = packet_count
        BY <2>5 DEF Leave, Log, Return, Control, Held
      <3>2. matched = {}
        BY <2>5 DEF Leave, Log
      <3>3. \A i \in DOMAIN detections : detections[i][1] = event.id => Eligible(event) /\ ~Discarded(event)
        BY <1>0, <2>5, <3>1 DEF Leave, Log, InHand, Judged, Accepted
      <3>4. QED
        BY <1>0, <1>1, <3>1, <3>2, <3>3 DEF Silent, InHand
    <2>6. QED
      BY <1>1, <2>1, <2>2, <2>3, <2>4, <2>5, EventShape
  <1>2. CASE Evaluate
    <2>1. /\ stage = "engine" /\ stage' = "detect" /\ (matched' # {} => Eligible(event)) /\ matched' \subseteq Rules
          /\ UNCHANGED <<event, packet_count, detections, finished>>
      BY <1>2 DEF Evaluate, input, files
    <2>2. \A i \in DOMAIN detections : detections[i][1] < packet_count
      BY <2>1 DEF InHand
    <2>3. event # None
      BY <2>1 DEF Control, InHand
    <2>4. QED
      BY <1>0, <2>1, <2>2, <2>3 DEF InHand, Eligible
  <1>3. CASE WriteDetection
    <2> DEFINE m == Min(matched)
    <2>1. m \in matched /\ (\A r \in matched : m <= r) /\ matched # {}
      BY <1>0, <1>3, MinIsLeast DEF WriteDetection
    <2>2. /\ stage = "detect" /\ stage' = "detect" /\ matched' = matched \ {m}
          /\ UNCHANGED <<event, packet_count, finished>>
          /\ detections' = Append(detections, <<event.id, m>>) \/ UNCHANGED detections
      BY <1>3 DEF WriteDetection, input
    <2> HIDE DEF m
    <2>3. Held /\ event.id = packet_count /\ Eligible(event) /\ ~Discarded(event)
      BY <2>1, <2>2, TypeParts DEF Held, Control, InHand, EventTyped, Judged, Accepted
    <2>4. \A r \in matched' : m < r
      <3> SUFFICES ASSUME NEW r \in matched' PROVE m < r
        OBVIOUS
      <3>1. r \in matched /\ r # m /\ m <= r
        BY <2>1, <2>2
      <3>2. r \in Nat /\ m \in Nat
        BY <1>0, <2>1, <3>1
      <3>3. QED
        BY <3>1, <3>2
    <2>5. CASE UNCHANGED detections
      BY <2>2, <2>3, <2>5, <1>0 DEF InHand, Eligible
    <2>6. CASE detections' = Append(detections, <<event.id, m>>)
      <3> DEFINE n == Len(detections)
      <3>1. /\ n \in Nat /\ DOMAIN detections = 1..n /\ DOMAIN detections' = 1..(n + 1)
            /\ \A i \in 1..n : detections'[i] = detections[i]
            /\ detections'[n + 1] = <<packet_count, m>>
        BY <1>0, <2>3, <2>6
      <3> HIDE DEF n
      <3>2. \A i \in 1..n : \/ detections'[i][1] < packet_count
                            \/ detections'[i][1] = packet_count /\ detections'[i][2] < m
        <4> TAKE i \in 1..n
        <4>1. detections'[i] = detections[i] /\ detections[i] \in (1..packet_count) \X Rules
          BY <1>0, <3>1
        <4>2. detections[i][1] = packet_count => detections[i][2] < m
          BY <2>1, <2>2, <3>1
        <4>3. detections[i][1] \in 1..packet_count
          BY <4>1
        <4>4. QED
          BY <1>0, <4>1, <4>2, <4>3
      <3>3. \A i, j \in DOMAIN detections' : i < j =>
              \/ detections'[i][1] < detections'[j][1]
              \/ detections'[i][1] = detections'[j][1] /\ detections'[i][2] < detections'[j][2]
        <4> TAKE i, j \in DOMAIN detections'
        <4>1. CASE j \in 1..n
          BY <3>1, <4>1
        <4>2. CASE j = n + 1
          BY <3>1, <3>2, <4>2
        <4>3. QED
          BY <3>1, <4>1, <4>2
      <3>4. \A e \in finished', i \in DOMAIN detections' : detections'[i][1] = e.id => Eligible(e) /\ ~Discarded(e)
        <4> TAKE e \in finished', i \in DOMAIN detections'
        <4>1. CASE i \in 1..n
          BY <2>2, <3>1, <4>1
        <4>2. CASE i = n + 1
          <5>1. e.id < packet_count
            BY <2>2, <2>3 DEF OneByOne, Control, Held
          <5>2. QED
            BY <1>0, <3>1, <4>2, <5>1
        <4>3. QED
          BY <3>1, <4>1, <4>2
      <3>5. \A i \in DOMAIN detections' : detections'[i][1] = packet_count => \A r \in matched' : detections'[i][2] < r
        <4> TAKE i \in DOMAIN detections'
        <4>1. CASE i \in 1..n
          BY <2>2, <3>1, <4>1
        <4>2. CASE i = n + 1
          BY <2>4, <3>1, <4>2
        <4>3. QED
          BY <3>1, <4>1, <4>2
      <3>6. QED
        BY <2>2, <2>3, <3>3, <3>4, <3>5 DEF Eligible
    <2>7. QED
      BY <2>2, <2>5, <2>6
  <1>4. QED
    BY <1>1, <1>2, <1>3, DetectionSteps

-----------------------------------------------------------------------------
(* The event log *)

Due == {e \in finished : ~Discarded(e) /\ e.status # "IGNORED"}

\* The lines of the log are older than the packet in hand.
Logged ==
  /\ packet # None => \A i \in DOMAIN events : events[i] < packet_count
  /\ \A i, j \in DOMAIN events : i < j => events[i] < events[j]
  /\ \A i \in DOMAIN events : \E e \in Due : e.id = events[i]
  /\ Len(events) <= Cardinality(Due) /\ Cardinality(Due) <= Len(events) + write_errors["events"]

LEMMA LogSteps ==
  ASSUME TypeOK, Next
  PROVE  \/ Log \/ Leave
         \/ /\ UNCHANGED <<events, finished>> /\ write_errors'["events"] = write_errors["events"]
            /\ Receives \/ UNCHANGED <<packet, packet_count>>
  BY EventSteps
  DEF Aside, Receives, Receive, Parse, ParseRaises, Decode, DecodeRaises, Preprocess, PreprocessRaises,
      Raises, UpdateRaises, EngineRaises, DiscardRaises, Attach, OnEvent, files, input

LEMMA LoggedKept ==
  ASSUME TypeOK, Control, OneByOne, Judged, Logged, Next
  PROVE  Logged'
  <1>0. /\ events \in Seq(1..packet_count) /\ packet_count \in Nat /\ Len(events) \in Nat
        /\ \A i \in DOMAIN events : events[i] \in 1..packet_count
        /\ write_errors["events"] \in Nat
    <2>1. packet_count \in Nat
      BY TypeParts, RunAssumption DEF StateTyped
    <2>2. events \in Seq(1..packet_count) /\ write_errors["events"] \in Nat
      BY TypeParts DEF FilesTyped
    <2>3. QED
      BY <2>1, <2>2
  <1>d. IsFiniteSet(Due) /\ Cardinality(Due) \in Nat
    <2>1. Due \subseteq finished /\ IsFiniteSet(finished)
      BY DEF Due, OneByOne
    <2>2. QED
      BY <2>1, FS_Subset, FS_CardinalityType
  <1>1. CASE /\ UNCHANGED <<events, finished>> /\ write_errors'["events"] = write_errors["events"]
             /\ Receives \/ UNCHANGED <<packet, packet_count>>
    <2>1. Due' = Due
      BY <1>1 DEF Due, Discarded
    <2>2. CASE Receives
      <3>1. packet_count' = packet_count + 1
        BY <2>2 DEF Receives, Receive
      <3>2. QED
        BY <1>0, <1>1, <2>1, <3>1 DEF Logged
    <2>3. QED
      BY <1>1, <2>1, <2>2 DEF Logged
  <1>2. CASE Leave
    <2>1. Held /\ Discarded(event)
      BY <1>2, TypeParts DEF Leave, Held, Control, InHand, EventTyped, Judged
    <2>2. finished' = finished \cup {event} /\ packet' = None /\ UNCHANGED <<events, write_errors>>
      BY <1>2 DEF Leave, Return, files
    <2>3. Due' = Due
      BY <2>1, <2>2 DEF Due, Discarded
    <2>4. QED
      BY <2>2, <2>3 DEF Logged
  <1>3. CASE Log
    <2>1. Held /\ ~Discarded(event) /\ event.id = packet_count /\ packet # None
      BY <1>3, TypeParts DEF Log, Held, Control, InHand, EventTyped, Judged, Accepted
    <2>2. finished' = finished \cup {event} /\ packet' = None
      BY <1>3 DEF Log, Return
    <2>3. CASE event.status = "IGNORED"
      <3>1. Due' = Due
        BY <2>2, <2>3 DEF Due, Discarded
      <3>2. UNCHANGED <<events, write_errors>>
        BY <1>3, <2>3 DEF Log, Kept
      <3>3. QED
        BY <2>2, <3>1, <3>2 DEF Logged
    <2>4. CASE event.status # "IGNORED"
      <3>1. Due' = Due \cup {event} /\ event \notin Due
        BY <2>1, <2>2, <2>4, Newest DEF Due, Discarded
      <3>2. Cardinality(Due') = Cardinality(Due) + 1
        BY <1>d, <3>1, FS_AddElement
      <3>e. write_errors'["events"] \in {write_errors["events"], write_errors["events"] + 1}
        BY <1>0, <1>3, <2>4, TypeParts DEF Log, Kept, Written, NotWritten, WriteFails, FilesTyped
      <3>3. CASE events' = Append(events, event.id)
        <4> DEFINE n == Len(events)
        <4>1. /\ n \in Nat /\ DOMAIN events = 1..n /\ DOMAIN events' = 1..(n + 1) /\ Len(events') = n + 1
              /\ \A i \in 1..n : events'[i] = events[i] /\ events[i] \in Nat /\ events[i] < packet_count
              /\ events'[n + 1] = packet_count
          BY <1>0, <2>1, <3>3 DEF Logged
        <4>2. Len(events') <= Cardinality(Due') /\ Cardinality(Due') <= Len(events') + write_errors'["events"]
          BY <1>0, <1>d, <3>2, <3>e, <4>1 DEF Logged
        <4> HIDE DEF n
        <4>3. \A i, j \in DOMAIN events' : i < j => events'[i] < events'[j]
          <5> TAKE i, j \in DOMAIN events'
          <5>1. CASE j \in 1..n
            BY <4>1, <5>1 DEF Logged
          <5>2. CASE j = n + 1
            BY <4>1, <5>2
          <5>3. QED
            BY <4>1, <5>1, <5>2
        <4>4. \A i \in DOMAIN events' : \E e \in Due' : e.id = events'[i]
          BY <2>1, <3>1, <4>1 DEF Logged
        <4>5. QED
          BY <2>2, <4>2, <4>3, <4>4 DEF Logged
      <3>4. CASE events' = events /\ write_errors'["events"] = write_errors["events"] + 1
        <4>1. Len(events') <= Cardinality(Due') /\ Cardinality(Due') <= Len(events') + write_errors'["events"]
          BY <1>0, <1>d, <3>2, <3>4 DEF Logged
        <4>2. QED
          BY <2>2, <3>1, <3>4, <4>1 DEF Logged
      <3>5. events' = Append(events, event.id) \/ (events' = events /\ write_errors'["events"] = write_errors["events"] + 1)
        BY <1>0, <1>3, <2>4, TypeParts DEF Log, Kept, Written, NotWritten, WriteFails, FilesTyped
      <3>6. QED
        BY <3>3, <3>4, <3>5
    <2>5. QED
      BY <2>3, <2>4
  <1>4. QED
    BY <1>1, <1>2, <1>3, LogSteps

-----------------------------------------------------------------------------
(* The preprocessor counters *)

Total == counts["valid"] + counts["partial"] + counts["invalid"]

Pending == {"parse", "decode", "preprocess", "judged"}
Over == {"flush", "done"}

Tallied ==
  /\ stage \in Pending => Total = packet_count - 1
  /\ stage \notin Pending \cup Over => Total = packet_count
  /\ Total <= packet_count /\ packet_count <= Total + 1 /\ (stage \in Over => packet_count <= Total + interrupts)

LEMMA TalliedKept ==
  ASSUME TypeOK, Control, Judged, Tallied, Next
  PROVE  Tallied'
  <1>0. counts \in [Verdicts -> Nat] /\ packet_count \in Nat /\ interrupts \in Nat /\ Total \in Nat
    <2>1. counts \in [Verdicts -> Nat] /\ packet_count \in Nat /\ interrupts \in Nat
      BY TypeParts, RunAssumption DEF StateTyped
    <2>2. QED
      BY <2>1 DEF Total, Verdicts
  <1> USE DEF Pending, Over
  <1>a. ASSUME UNCHANGED <<counts, packet_count, interrupts>>,
               \/ stage' = stage
               \/ stage \in Pending /\ stage' \in Pending
               \/ stage \notin Pending \cup Over /\ stage' \notin Pending
               \/ stage \in Over /\ stage' \in Over
        PROVE  Tallied'
    <2>1. Total' = Total
      BY <1>a DEF Total
    <2>2. QED
      BY <1>0, <1>a, <2>1 DEF Tallied
  <1>1. CASE Receives
    <2>1. packet_count' = packet_count + 1 /\ Total' = Total /\ stage = "capture" /\ stage' = "parse"
      BY <1>1 DEF Receives, Receive, Total
    <2>2. QED
      BY <1>0, <2>1 DEF Tallied
  <1>2. CASE CountVerdict
    <2>1. /\ stage = "judged" /\ stage' \in {"discard", "track"} /\ UNCHANGED packet_count
          /\ counts' = [counts EXCEPT ![event.prep] = @ + 1]
      BY <1>2 DEF CountVerdict, OnEvent, input
    <2>2. event.prep \in Verdicts
      BY <2>1, TypeParts DEF Judged, Sober, Control, InHand, EventTyped, Events
    <2>3. Total' = Total + 1
      BY <1>0, <2>1, <2>2 DEF Total, Verdicts
    <2>4. QED
      BY <1>0, <2>1, <2>3 DEF Tallied
  <1>3. CASE Interrupt
    <2>1. /\ UNCHANGED <<counts, packet_count>> /\ interrupts' = interrupts + 1 /\ stage' \in Over
      BY <1>3 DEF Interrupt
    <2>2. Total' = Total
      BY <2>1 DEF Total
    <2>3. QED
      BY <1>0, <2>1, <2>2 DEF Tallied
  <1>4. CASE Parse \/ ParseRaises \/ Decode \/ DecodeRaises \/ Preprocess \/ PreprocessRaises
    BY <1>a, <1>4 DEF Parse, ParseRaises, Decode, DecodeRaises, Preprocess, PreprocessRaises, OnEvent, input
  <1>5. CASE PassBy \/ EndUpdate \/ CaptureEnds \/ Shutdown \/ FlushRaises \/ Discard
    BY <1>a, <1>5 DEF PassBy, EndUpdate, CaptureEnds, Shutdown, FlushRaises, Discard, OnEvent, input
  <1>6. CASE Raises \/ Leave \/ Log
    BY <1>a, <1>6 DEF Raises, UpdateRaises, EngineRaises, DiscardRaises, Leave, Log, Return, OnEvent, input
  <1>7. CASE Takes \/ HandOver \/ WriteFlow \/ WriteDetection
    BY <1>a, <1>7 DEF Takes, TakeOut, HandOver, WriteFlow, WriteDetection, input
  <1>8. CASE Attach \/ Count \/ Evaluate
    BY <1>a, <1>8 DEF Attach, Count, Evaluate, input
  <1>9. QED
    BY <1>1, <1>2, <1>3, <1>4, <1>5, <1>6, <1>7, <1>8, Steps DEF Moves

-----------------------------------------------------------------------------
(* Where the flows are *)

\* Every flow is in at most one place: under one key of the table, on its way
\* out, about to be written, or in one line of the log.
OnePlace ==
  /\ IsFiniteSet(DOMAIN live)
  /\ leaving = None \/ writing = None
  /\ \A j, k \in DOMAIN live : live[j] = live[k] => j = k
  /\ \A k \in DOMAIN live : live[k] \notin {leaving, writing}
  /\ \A i, j \in DOMAIN flows : flows[i] = flows[j] => i = j
  /\ \A i \in DOMAIN flows : flows[i] \notin {leaving, writing} /\ \A k \in DOMAIN live : flows[i] # live[k]

One(flow) == IF flow = None THEN 0 ELSE 1

Unexported == Len(size) - (flows_exported + Cardinality(DOMAIN live) + One(leaving))
Unwritten == flows_exported - (Len(flows) + One(writing))

\* Only Ctrl+C and failed writes lose flows, one at a time.
FewLost ==
  Unexported >= 0 /\ Unwritten >= 0 /\ Unexported + Unwritten <= interrupts + write_errors["flows"]

LEMMA FlowTypes ==
  ASSUME TypeOK, OnePlace
  PROVE  /\ size \in Seq(Nat) /\ Len(size) \in Nat /\ flows \in Seq(1..Len(size)) /\ Len(flows) \in Nat
         /\ \A k \in DOMAIN live : live[k] \in 1..Len(size)
         /\ \A i \in DOMAIN flows : flows[i] \in 1..Len(size)
         /\ leaving \in 1..Len(size) \cup {None} /\ writing \in 1..Len(size) \cup {None}
         /\ flows_exported \in Nat /\ write_errors["flows"] \in Nat /\ interrupts \in Nat
         /\ Cardinality(DOMAIN live) \in Nat
         /\ None \notin 1..Len(size)
  <1>1. Cardinality(DOMAIN live) \in Nat
    BY FS_CardinalityType DEF OnePlace
  <1>2. TableTyped /\ FilesTyped /\ interrupts \in Nat /\ None \notin Nat
    BY TypeParts, RunAssumption DEF StateTyped
  <1>3. /\ size \in Seq(Nat) /\ Len(size) \in Nat /\ live \in [DOMAIN live -> 1..Len(size)]
        /\ leaving \in 1..Len(size) \cup {None} /\ writing \in 1..Len(size) \cup {None}
    BY <1>2 DEF TableTyped
  <1>4. /\ flows \in Seq(1..Len(size)) /\ flows_exported \in Nat /\ write_errors["flows"] \in Nat
    BY <1>2 DEF FilesTyped
  <1>5. Len(flows) \in Nat /\ \A i \in DOMAIN flows : flows[i] \in 1..Len(size)
    BY <1>4
  <1>6. \A k \in DOMAIN live : live[k] \in 1..Len(size)
    BY <1>3
  <1>7. QED
    BY <1>1, <1>2, <1>3, <1>4, <1>5, <1>6

LEMMA OnePlaceKept ==
  ASSUME TypeOK, Control, OnePlace, Next
  PROVE  OnePlace'
  <1>0. /\ Len(size) \in Nat /\ flows \in Seq(1..Len(size)) /\ None \notin 1..Len(size)
        /\ \A k \in DOMAIN live : live[k] \in 1..Len(size)
        /\ \A i \in DOMAIN flows : flows[i] \in 1..Len(size)
        /\ leaving \in 1..Len(size) \cup {None} /\ writing \in 1..Len(size) \cup {None}
    BY FlowTypes
  <1>1. CASE UNCHANGED <<live, leaving, writing, flows>>
    BY <1>1 DEF OnePlace
  <1>2. CASE Takes
    <2>1. PICK k \in DOMAIN live : TakeOut(k)
      BY <1>2 DEF Takes
    <2>2. /\ leaving = None /\ writing = None /\ leaving' = live[k] /\ writing' = None /\ flows' = flows
          /\ DOMAIN live' = DOMAIN live \ {k} /\ \A j \in DOMAIN live' : live'[j] = live[j]
      BY <2>1 DEF TakeOut, Settled, Restrict, files
    <2>3. IsFiniteSet(DOMAIN live')
      BY <2>2, FS_RemoveElement DEF OnePlace
    <2>4. QED
      BY <1>0, <2>2, <2>3 DEF OnePlace
  <1>3. CASE HandOver
    BY <1>0, <1>3 DEF HandOver, OnePlace
  <1>4. CASE WriteFlow
    <2>1. writing \in 1..Len(size) /\ writing' = None /\ UNCHANGED <<live, leaving>>
      BY <1>0, <1>4 DEF WriteFlow
    <2>2. CASE UNCHANGED flows
      BY <1>0, <2>1, <2>2 DEF OnePlace
    <2>3. CASE flows' = Append(flows, writing)
      <3> DEFINE n == Len(flows)
      <3>1. /\ n \in Nat /\ DOMAIN flows = 1..n /\ DOMAIN flows' = 1..(n + 1)
            /\ \A i \in 1..n : flows'[i] = flows[i]
            /\ flows'[n + 1] = writing
        BY <1>0, <2>3
      <3> HIDE DEF n
      <3>2. \A i, j \in DOMAIN flows' : flows'[i] = flows'[j] => i = j
        BY <3>1 DEF OnePlace
      <3>3. \A i \in DOMAIN flows' : flows'[i] \notin {leaving, None} /\ \A k \in DOMAIN live : flows'[i] # live[k]
        <4> TAKE i \in DOMAIN flows'
        <4>1. CASE i \in 1..n
          BY <1>0, <3>1, <4>1 DEF OnePlace
        <4>2. CASE i = n + 1
          BY <1>0, <2>1, <3>1, <4>2 DEF OnePlace
        <4>3. QED
          BY <3>1, <4>1, <4>2
      <3>4. QED
        BY <1>0, <2>1, <3>2, <3>3 DEF OnePlace
    <2>4. QED
      BY <1>4, <2>2, <2>3 DEF WriteFlow
  <1>5. CASE Attach
    <2>1. UNCHANGED <<leaving, writing, flows>>
      BY <1>5 DEF Attach, files
    <2>2. CASE Joins
      BY <2>1, <2>2, <1>1 DEF Joins
    <2>3. CASE Opens
      <3>1. /\ DOMAIN live' = DOMAIN live \cup {event.ends} /\ live'[event.ends] = Len(size) + 1
            /\ \A k \in DOMAIN live : live'[k] = live[k]
        BY <2>3 DEF Opens
      <3>2. IsFiniteSet(DOMAIN live')
        BY <3>1, FS_AddElement DEF OnePlace
      <3>3. /\ Len(size) + 1 \notin 1..Len(size) /\ Len(size) + 1 # None
        BY <1>0, RunAssumption
      <3>4. QED
        BY <1>0, <2>1, <3>1, <3>2, <3>3 DEF OnePlace
    <2>4. QED
      BY <1>5, <2>2, <2>3, AttachStep
  <1>6. CASE Count
    BY <1>1, <1>6 DEF Count, files
  <1>7. CASE Interrupt
    BY <1>0, <1>7 DEF Interrupt, files, OnePlace
  <1>8. QED
    BY <1>1, <1>2, <1>3, <1>4, <1>5, <1>6, <1>7, TableSteps DEF Elsewhere

LEMMA FewLostKept ==
  ASSUME TypeOK, Control, OnePlace, FewLost, Next
  PROVE  FewLost'
  <1>n. /\ One(leaving) \in Nat /\ One(writing) \in Nat /\ One(leaving) + One(writing) <= 1
        /\ One(None) = 0 /\ \A flow : flow # None => One(flow) = 1
    BY DEF One, OnePlace
  <1>0. /\ size \in Seq(Nat) /\ Len(size) \in Nat /\ flows \in Seq(1..Len(size)) /\ Len(flows) \in Nat
        /\ flows_exported \in Nat /\ write_errors["flows"] \in Nat /\ interrupts \in Nat
        /\ Cardinality(DOMAIN live) \in Nat /\ None \notin 1..Len(size)
        /\ \A k \in DOMAIN live : live[k] \in 1..Len(size)
    BY FlowTypes
  <1>i. /\ Len(size) \in Int /\ flows_exported \in Int /\ Len(flows) \in Int /\ write_errors["flows"] \in Int
        /\ Cardinality(DOMAIN live) \in Int /\ One(leaving) \in Int /\ One(writing) \in Int /\ interrupts \in Int
    BY <1>0, <1>n
  <1>l. /\ Unexported \in Int /\ Unwritten \in Int
        /\ Unexported >= 0 /\ Unwritten >= 0 /\ Unexported + Unwritten <= interrupts + write_errors["flows"]
    <2>1. Unexported \in Int
      BY <1>i DEF Unexported
    <2>2. Unwritten \in Int
      BY <1>i DEF Unwritten
    <2>3. QED
      BY <2>1, <2>2 DEF FewLost
  <1>same. ASSUME Unexported' = Unexported, Unwritten' = Unwritten, UNCHANGED interrupts,
                  write_errors'["flows"] = write_errors["flows"]
           PROVE  FewLost'
    BY <1>l, <1>same DEF FewLost
  <1>1. CASE Elsewhere
    BY <1>1, <1>same DEF Elsewhere, Unexported, Unwritten
  <1>2. CASE Takes
    <2>1. PICK k \in DOMAIN live : TakeOut(k)
      BY <1>2 DEF Takes
    <2>2. /\ leaving = None /\ writing = None /\ leaving' # None /\ writing' = None
          /\ DOMAIN live' = DOMAIN live \ {k} /\ UNCHANGED <<size, flows, write_errors, flows_exported, interrupts>>
      BY <1>0, <2>1 DEF TakeOut, Settled, Restrict, files, input
    <2>3. Cardinality(DOMAIN live') = Cardinality(DOMAIN live) - 1
      BY <2>2, FS_RemoveElement DEF OnePlace
    <2>4. One(leaving) = 0 /\ One(leaving') = 1 /\ One(writing) = 0 /\ One(writing') = 0
      BY <1>n, <2>2
    <2>5. Unexported' = Unexported /\ Unwritten' = Unwritten
      BY <1>i, <2>2, <2>3, <2>4 DEF Unexported, Unwritten
    <2>6. QED
      BY <1>same, <2>2, <2>5
  <1>3. CASE HandOver
    <2>1. /\ writing = None /\ writing' # None /\ leaving # None /\ leaving' = None
          /\ flows_exported' = flows_exported + 1 /\ UNCHANGED <<live, size, flows, write_errors, interrupts>>
      BY <1>3 DEF HandOver, OnePlace, input
    <2>2. One(leaving) = 1 /\ One(leaving') = 0 /\ One(writing) = 0 /\ One(writing') = 1
      BY <1>n, <2>1
    <2>3. Unexported' = Unexported /\ Unwritten' = Unwritten
      <3>1. Unexported' = Unexported
        BY <1>i, <2>1, <2>2 DEF Unexported
      <3>2. Unwritten' = Unwritten
        BY <1>i, <2>1, <2>2 DEF Unwritten
      <3>3. QED
        BY <3>1, <3>2
    <2>4. QED
      BY <1>same, <2>1, <2>3
  <1>4. CASE WriteFlow
    <2>1. /\ writing # None /\ writing' = None /\ UNCHANGED <<live, size, leaving, flows_exported, interrupts>>
      BY <1>4 DEF WriteFlow, input
    <2>2. \/ Len(flows') = Len(flows) + 1 /\ write_errors'["flows"] = write_errors["flows"]
          \/ Len(flows') \in {Len(flows), Len(flows) + 1} /\ write_errors'["flows"] = write_errors["flows"] + 1
      <3>1. \/ flows' = Append(flows, writing) /\ UNCHANGED write_errors
            \/ /\ flows' \in {flows, Append(flows, writing)}
               /\ write_errors' = [write_errors EXCEPT !["flows"] = @ + 1]
        BY <1>4 DEF WriteFlow, WriteFails
      <3>2. Len(Append(flows, writing)) = Len(flows) + 1
        BY <1>0
      <3>3. [write_errors EXCEPT !["flows"] = @ + 1]["flows"] = write_errors["flows"] + 1
        BY TypeParts DEF FilesTyped
      <3>4. QED
        BY <3>1, <3>2, <3>3
    <2>3. One(writing) = 1 /\ One(writing') = 0 /\ Unexported' = Unexported
      BY <1>n, <2>1 DEF Unexported
    <2>4. Unwritten = flows_exported - (Len(flows) + 1)
      BY <2>3 DEF Unwritten
    <2>5. Unwritten' = flows_exported - Len(flows')
      <3>1. Unwritten' = flows_exported - (Len(flows') + 0)
        BY <2>1, <2>3 DEF Unwritten
      <3>2. Len(flows') \in Int
        BY <1>i, <2>2
      <3>3. QED
        BY <3>1, <3>2
    <2> DEFINE d == write_errors["flows"]
    <2>6. interrupts' = interrupts /\ Unexported' = Unexported
      BY <2>1, <2>3
    <2>7. CASE Len(flows') = Len(flows) + 1
      <3>1. Unwritten' = Unwritten /\ write_errors'["flows"] \in {d, d + 1}
        BY <2>2, <2>4, <2>5, <2>7
      <3> HIDE DEF d
      <3>2. QED
        BY <1>i, <1>l, <2>6, <3>1 DEF FewLost, d
    <2>8. CASE Len(flows') = Len(flows) /\ write_errors'["flows"] = d + 1
      <3>1. Unwritten' = Unwritten + 1
        BY <1>i, <2>4, <2>5, <2>8
      <3>2. QED
        BY <1>i, <1>l, <2>6, <2>8, <3>1 DEF FewLost
    <2>9. QED
      BY <1>i, <2>2, <2>7, <2>8
  <1>5. CASE Attach
    <2>1. UNCHANGED <<leaving, writing, flows, write_errors, flows_exported, interrupts>>
      BY <1>5 DEF Attach, files, input
    <2>2. CASE Joins
      BY <1>same, <2>1, <2>2 DEF Joins, Unexported, Unwritten
    <2>3. CASE Opens
      <3>1. /\ event.ends \notin DOMAIN live /\ DOMAIN live' = DOMAIN live \cup {event.ends}
            /\ size' = Append(size, 0)
        BY <2>3 DEF Opens
      <3>2. Cardinality(DOMAIN live') = Cardinality(DOMAIN live) + 1
        BY <3>1, FS_AddElement DEF OnePlace
      <3>3. Len(size') = Len(size) + 1
        BY <1>0, <3>1
      <3>4. Unexported' = Unexported
        <4>1. One(leaving') = One(leaving) /\ flows_exported' = flows_exported
          BY <2>1
        <4>2. Unexported' = (Len(size) + 1) - (flows_exported + (Cardinality(DOMAIN live) + 1) + One(leaving))
          BY <3>2, <3>3, <4>1 DEF Unexported
        <4>3. Unexported = Len(size) - (flows_exported + Cardinality(DOMAIN live) + One(leaving))
          BY DEF Unexported
        <4>4. QED
          BY <1>i, <4>2, <4>3
      <3>5. QED
        BY <1>same, <2>1, <3>4 DEF Unwritten
    <2>4. QED
      BY <1>5, <2>2, <2>3, AttachStep
  <1>6. CASE Count
    <2>1. UNCHANGED <<live, leaving, writing, flows, write_errors, flows_exported, interrupts>>
      BY <1>6 DEF Count, files, input
    <2>2. Len(size') = Len(size)
      BY <1>0, <1>6 DEF Count
    <2>3. QED
      BY <1>same, <2>1, <2>2 DEF Unexported, Unwritten
  <1>7. CASE Interrupt
    <2>1. /\ leaving' = None /\ writing' = None /\ interrupts' = interrupts + 1
          /\ UNCHANGED <<live, size, flows, write_errors, flows_exported>>
      BY <1>7 DEF Interrupt, files
    <2>2. One(leaving') = 0 /\ One(writing') = 0
      BY <1>n, <2>1
    <2>3. /\ Unexported' = Unexported + One(leaving) /\ Unwritten' = Unwritten + One(writing)
      BY <1>i, <2>1, <2>2 DEF Unexported, Unwritten
    <2>4. QED
      BY <1>i, <1>l, <1>n, <2>1, <2>3 DEF FewLost
  <1>8. QED
    BY <1>1, <1>2, <1>3, <1>4, <1>5, <1>6, <1>7, TableSteps

-----------------------------------------------------------------------------
(* What the flows count *)

Tagged(f) == {e \in finished : e.flow = f}
Clean(f) == {e \in finished : e.flow = f /\ ~e.raised}

\* The event in hand may be counted already, and is when its update is over.
Possibly(f) == IF event # None /\ event.flow = f /\ stage # "count" THEN 1 ELSE 0
Surely(f) ==
  IF stage \in {"sweep", "engine", "detect"} /\ event.flow = f /\ ~event.raised THEN 1 ELSE 0

Counted ==
  \A f \in DOMAIN size :
    /\ size[f] <= Cardinality(Tagged(f)) + Possibly(f)
    /\ Cardinality(Clean(f)) + Surely(f) <= size[f]

LEMMA TaggedTypes ==
  ASSUME OneByOne, NEW f
  PROVE  /\ IsFiniteSet(Tagged(f)) /\ Cardinality(Tagged(f)) \in Nat
         /\ IsFiniteSet(Clean(f)) /\ Cardinality(Clean(f)) \in Nat
  <1>1. Tagged(f) \subseteq finished /\ Clean(f) \subseteq finished
    BY DEF Tagged, Clean
  <1>2. QED
    BY <1>1, FS_Subset, FS_CardinalityType DEF OneByOne

\* A step that counts nothing and finishes nothing may only loosen the bounds.
LEMMA CountedLoosened ==
  ASSUME TypeOK, OneByOne, Counted, UNCHANGED <<size, finished>>,
         \A f \in DOMAIN size : Possibly(f) <= Possibly(f)' /\ Surely(f)' <= Surely(f)
  PROVE  Counted'
  <1> SUFFICES ASSUME NEW f \in DOMAIN size
               PROVE  /\ size[f] <= Cardinality(Tagged(f)) + Possibly(f)'
                      /\ Cardinality(Clean(f)) + Surely(f)' <= size[f]
    BY DEF Counted, Tagged, Clean
  <1>1. size[f] \in Nat /\ Cardinality(Tagged(f)) \in Nat /\ Cardinality(Clean(f)) \in Nat
    BY TypeParts, TaggedTypes DEF TableTyped
  <1>2. Possibly(f) \in Nat /\ Possibly(f)' \in Nat /\ Surely(f) \in Nat /\ Surely(f)' \in Nat
    BY DEF Possibly, Surely
  <1>3. QED
    BY <1>1, <1>2 DEF Counted

LEMMA CountedKept ==
  ASSUME TypeOK, Control, OneByOne, Judged, FlowsEarned, Counted, Next
  PROVE  Counted'
  <1> USE RunAssumption
  <1>0. /\ size \in Seq(Nat) /\ Len(size) \in Nat /\ DOMAIN size = 1..Len(size) /\ None \notin DOMAIN size
        /\ \A e \in finished : e.flow \in 1..Len(size) \cup {None}
    BY TypeParts DEF TableTyped, EventTyped
  <1>l. ASSUME UNCHANGED <<size, finished>>,
               \A f \in DOMAIN size : Possibly(f) <= Possibly(f)' /\ Surely(f)' <= Surely(f)
        PROVE  Counted'
    BY <1>l, CountedLoosened
  <1>1. CASE Moves \/ Takes \/ HandOver \/ WriteFlow \/ Evaluate \/ WriteDetection \/ Interrupt
    <2>1. UNCHANGED <<size, event, finished>>
      BY <1>1 DEF Moves, PassBy, EndUpdate, CaptureEnds, Shutdown, FlushRaises, CountVerdict, Discard, Takes,
                  TakeOut, HandOver, WriteFlow, Evaluate,
                  WriteDetection, Interrupt, OnEvent, table
    <2>2. CASE UNCHANGED stage
      BY <1>l, <2>1, <2>2 DEF Possibly, Surely
    <2>3. CASE Interrupt
      BY <1>l, <2>1, <2>3 DEF Interrupt, Possibly, Surely
    <2>4. CASE Moves \/ Evaluate
      <3>1. CASE PassBy
        <4>1. event.flow \notin DOMAIN size /\ stage' = "engine"
          BY <1>0, <3>1 DEF PassBy, OnEvent, FlowsEarned
        <4>2. QED
          BY <1>l, <2>1, <4>1 DEF Possibly, Surely
      <3>2. CASE EndUpdate \/ CaptureEnds \/ Shutdown \/ FlushRaises \/ CountVerdict \/ Discard \/ Evaluate
        BY <1>l, <2>1, <3>2 DEF EndUpdate, CaptureEnds, Shutdown, FlushRaises, CountVerdict, Discard, Evaluate,
                                OnEvent, Possibly, Surely
      <3>3. QED
        BY <2>4, <3>1, <3>2 DEF Moves
    <2>5. QED
      BY <1>1, <2>2, <2>3, <2>4 DEF Takes, TakeOut, HandOver, WriteFlow, WriteDetection
  <1>2. CASE Receives
    BY <1>l, <1>2 DEF Receives, Receive, table, Control, Possibly, Surely
  <1>3. CASE (Parse \/ ParseRaises) /\ Same /\ FreshEvent(event')
    BY <1>l, <1>3 DEF Parse, ParseRaises, OnEvent, Same, table, Control, Possibly, Surely
  <1>4. CASE /\ Decode \/ DecodeRaises \/ Preprocess \/ PreprocessRaises
             /\ Same /\ Held
    <2>1. event.flow \notin DOMAIN size
      BY <1>0, <1>4 DEF Decode, DecodeRaises, Preprocess, PreprocessRaises, OnEvent, Judged, Unjudged
    <2>2. UNCHANGED <<size, finished>> /\ stage' \in {"preprocess", "judged"}
      BY <1>4 DEF Decode, DecodeRaises, Preprocess, PreprocessRaises, OnEvent, table
    <2>3. QED
      BY <1>l, <2>1, <2>2 DEF Possibly, Surely
  <1>5. CASE Raises /\ Same /\ Held /\ \E layer \in {"flow_tracker", "engine"} : Suffers(layer)
    <2>1. event' \in Events /\ event'.flow = event.flow
      BY <1>5 DEF Suffers
    <2>2. UNCHANGED <<size, finished>> /\ stage' \in {"engine", "detect", "leave"}
      BY <1>5 DEF Raises, UpdateRaises, EngineRaises, DiscardRaises, OnEvent, Same, table
    <2>3. ASSUME UpdateRaises PROVE event'.raised
      BY <1>5, <2>3, FailedTyped DEF UpdateRaises, Held, Layers, Events
    <2>4. ASSUME EngineRaises \/ DiscardRaises PROVE event'.raised = event.raised
      BY <1>5, <2>4, FailedTyped DEF EngineRaises, DiscardRaises, Held, Layers
    <2>5. EngineRaises => stage = "engine"
      BY DEF EngineRaises, OnEvent
    <2>6. DiscardRaises => stage' = "leave"
      BY DEF DiscardRaises, OnEvent
    <2>7. \A f \in DOMAIN size : Possibly(f) <= Possibly(f)'
      BY <1>5, <2>1, <2>2 DEF Possibly, Held, Suffers
    <2>8. \A f \in DOMAIN size : Surely(f)' <= Surely(f)
      <3>1. CASE UpdateRaises
        BY <2>3, <3>1 DEF Surely
      <3>2. CASE EngineRaises
        BY <2>1, <2>2, <2>4, <2>5, <3>2 DEF Surely
      <3>3. CASE DiscardRaises
        BY <2>6, <3>3 DEF Surely
      <3>4. QED
        BY <1>5, <3>1, <3>2, <3>3 DEF Raises
    <2>9. QED
      BY <1>l, <2>2, <2>7, <2>8
  <1>6. CASE Attach /\ Same /\ Held /\ \E f \in 1..Len(size') : event' = [event EXCEPT !.flow = f]
    <2>1. event.flow \notin DOMAIN size /\ stage = "track" /\ stage' = "count" /\ finished' = finished
      BY <1>0, <1>6 DEF Attach, FlowsEarned, Same
    <2>2. \A f \in DOMAIN size : Possibly(f) = 0
      BY <2>1 DEF Possibly
    <2>3. \A f : Surely(f)' = 0 /\ Possibly(f)' = 0 /\ Surely(f) = 0
      BY <2>1 DEF Surely, Possibly
    <2>4. CASE Joins
      BY <1>l, <2>1, <2>2, <2>3, <2>4 DEF Joins
    <2>5. CASE Opens
      <3>1. /\ DOMAIN size' = 1..(Len(size) + 1) /\ size'[Len(size) + 1] = 0
            /\ \A f \in 1..Len(size) : size'[f] = size[f]
        BY <1>0, <2>5 DEF Opens
      <3>2. ASSUME NEW f \in DOMAIN size
            PROVE  size[f] <= Cardinality(Tagged(f)) /\ Cardinality(Clean(f)) <= size[f]
        <4>1. Cardinality(Tagged(f)) \in Nat /\ Cardinality(Clean(f)) \in Nat
          BY TaggedTypes
        <4>2. QED
          BY <2>2, <2>3, <4>1 DEF Counted
      <3>3. Tagged(Len(size) + 1) = {} /\ Clean(Len(size) + 1) = {}
        BY <1>0 DEF Tagged, Clean
      <3>4. \A f : Tagged(f)' = Tagged(f) /\ Clean(f)' = Clean(f)
        BY <2>1 DEF Tagged, Clean
      <3>5. \A f \in DOMAIN size' : Cardinality(Tagged(f)) \in Nat /\ Cardinality(Clean(f)) \in Nat
        BY TaggedTypes
      <3>6. \A f \in DOMAIN size' : size'[f] <= Cardinality(Tagged(f)) /\ Cardinality(Clean(f)) <= size'[f]
        <4> TAKE f \in DOMAIN size'
        <4>1. CASE f \in 1..Len(size)
          BY <1>0, <3>1, <3>2, <4>1
        <4>2. CASE f = Len(size) + 1
          <5>1. Cardinality(Tagged(f)) = 0 /\ Cardinality(Clean(f)) = 0
            BY <3>3, <4>2, FS_EmptySet
          <5>2. QED
            BY <3>1, <4>2, <5>1
        <4>3. QED
          BY <1>0, <3>1, <4>1, <4>2
      <3>7. QED
        BY <2>3, <3>4, <3>5, <3>6 DEF Counted
    <2>6. QED
      BY <1>6, <2>4, <2>5, AttachStep
  <1>7. CASE Count
    <2>1. /\ stage = "count" /\ stage' = "sweep" /\ UNCHANGED <<event, finished>> /\ event # None
          /\ size' = [size EXCEPT ![event.flow] = @ + 1]
      BY <1>7 DEF Count, Control, InHand
    <2>2. DOMAIN size' = DOMAIN size
      BY <1>0, <2>1
    <2>3. ASSUME NEW f \in DOMAIN size'
          PROVE  /\ size'[f] <= Cardinality(Tagged(f)') + Possibly(f)'
                 /\ Cardinality(Clean(f)') + Surely(f)' <= size'[f]
      <3>1. Cardinality(Tagged(f)) \in Nat /\ Cardinality(Clean(f)) \in Nat /\ size[f] \in Nat
        BY <1>0, <2>2, TaggedTypes
      <3>2. Possibly(f) = 0 /\ Surely(f) = 0
        BY <2>1 DEF Possibly, Surely
      <3>3. size[f] <= Cardinality(Tagged(f)) /\ Cardinality(Clean(f)) <= size[f]
        BY <2>2, <3>1, <3>2 DEF Counted
      <3>4. Tagged(f)' = Tagged(f) /\ Clean(f)' = Clean(f)
        BY <2>1 DEF Tagged, Clean
      <3>5. CASE event.flow = f
        <4>1. size'[f] = size[f] + 1
          BY <1>0, <2>1, <2>2, <3>5
        <4>2. Possibly(f)' = 1 /\ Surely(f)' \in {0, 1}
          BY <2>1, <3>5 DEF Possibly, Surely
        <4>3. QED
          BY <3>1, <3>3, <3>4, <4>1, <4>2
      <3>6. CASE event.flow # f
        <4>1. size'[f] = size[f]
          BY <1>0, <2>1, <2>2, <3>6
        <4>2. Possibly(f)' = 0 /\ Surely(f)' = 0
          BY <2>1, <3>6 DEF Possibly, Surely
        <4>3. QED
          BY <3>1, <3>3, <3>4, <4>1, <4>2
      <3>7. QED
        BY <3>5, <3>6
    <2>4. QED
      BY <2>3 DEF Counted
  <1>8. CASE (Leave \/ Log) /\ Held /\ event' = None /\ finished' = finished \cup {event}
    <2>1. size' = size /\ stage' = "capture" /\ stage \in {"leave", "detect"} /\ (stage = "leave" => event.flow = None)
      BY <1>8 DEF Leave, Log, Return, table, FlowsEarned
    <2>2. ASSUME NEW f \in DOMAIN size
          PROVE  /\ size[f] <= Cardinality(Tagged(f)') + Possibly(f)'
                 /\ Cardinality(Clean(f)') + Surely(f)' <= size[f]
      <3>1. /\ Cardinality(Tagged(f)) \in Nat /\ Cardinality(Clean(f)) \in Nat /\ size[f] \in Nat
            /\ IsFiniteSet(Tagged(f)) /\ IsFiniteSet(Clean(f))
        BY <1>0, TaggedTypes
      <3>2. Possibly(f)' = 0 /\ Surely(f)' = 0
        BY <1>8, <2>1 DEF Possibly, Surely
      <3>3. CASE event.flow # f
        <4>1. Tagged(f)' = Tagged(f) /\ Clean(f)' = Clean(f)
          BY <1>8, <3>3 DEF Tagged, Clean
        <4>2. Possibly(f) = 0 /\ Surely(f) = 0
          BY <3>3 DEF Possibly, Surely
        <4>3. QED
          BY <3>1, <3>2, <4>1, <4>2 DEF Counted
      <3>4. CASE event.flow = f
        <4>1. event \notin finished /\ stage = "detect"
          BY <1>0, <1>8, <2>1, <3>4, Newest
        <4>2. Tagged(f)' = Tagged(f) \cup {event} /\ event \notin Tagged(f)
          BY <1>8, <3>4, <4>1 DEF Tagged
        <4>3. Cardinality(Tagged(f)') = Cardinality(Tagged(f)) + 1
          BY <3>1, <4>2, FS_AddElement
        <4>4. Possibly(f) = 1
          BY <1>8, <3>4, <4>1 DEF Possibly, Held
        <4>5. Cardinality(Clean(f)') = Cardinality(Clean(f)) + Surely(f) /\ Surely(f) \in Nat
          <5>1. CASE ~event.raised
            <6>1. Clean(f)' = Clean(f) \cup {event} /\ event \notin Clean(f)
              BY <1>8, <3>4, <4>1, <5>1 DEF Clean
            <6>2. Surely(f) = 1
              BY <3>4, <4>1, <5>1 DEF Surely
            <6>3. Cardinality(Clean(f) \cup {event}) = Cardinality(Clean(f)) + 1
              BY <3>1, <6>1, FS_AddElement
            <6>4. QED
              BY <6>1, <6>2, <6>3
          <5>2. CASE event.raised
            <6>1. Clean(f)' = Clean(f) /\ Surely(f) = 0
              BY <1>8, <5>2 DEF Clean, Surely
            <6>2. QED
              BY <3>1, <6>1
          <5>3. QED
            BY <5>1, <5>2
        <4>6. QED
          BY <3>1, <3>2, <4>3, <4>4, <4>5 DEF Counted
      <3>5. QED
        BY <3>3, <3>4
    <2>3. QED
      BY <2>1, <2>2 DEF Counted
  <1>9. QED
    BY <1>1, <1>2, <1>3, <1>4, <1>5, <1>6, <1>7, <1>8, EventShape DEF Others

-----------------------------------------------------------------------------
(* The whole invariant, and what follows from it *)

PipelineInv ==
  /\ TypeOK /\ Control /\ OneByOne /\ Judged
  /\ FlowsEarned /\ DetectionsEarned /\ Logged /\ Tallied
  /\ OnePlace /\ FewLost /\ Counted

LEMMA PipelineStarts ==
  ASSUME Init
  PROVE  PipelineInv
  <1> USE RunAssumption DEF Init
  <1>e. IsFiniteSet({}) /\ Cardinality({}) = 0
    BY FS_EmptySet
  <1>1. TypeOK /\ Control
    BY Started
  <1>2. OneByOne /\ Judged /\ FlowsEarned /\ DetectionsEarned
    BY <1>e DEF OneByOne, Judged, Accepted, FlowsEarned, DetectionsEarned, InHand
  <1>3. Logged
    <2>1. Due = {}
      BY DEF Due
    <2>2. QED
      BY <1>e, <2>1 DEF Logged
  <1>4. Tallied
    BY DEF Tallied, Total, Verdicts, Pending, Over
  <1>5. DOMAIN live = {}
    OBVIOUS
  <1>6. OnePlace
    BY <1>e, <1>5 DEF OnePlace
  <1>7. FewLost
    BY <1>e, <1>5 DEF FewLost, Unexported, Unwritten, One
  <1>8. Counted
    BY DEF Counted
  <1>9. QED
    BY <1>1, <1>2, <1>3, <1>4, <1>6, <1>7, <1>8 DEF PipelineInv

LEMMA PipelineKept ==
  ASSUME PipelineInv, [Next]_vars
  PROVE  PipelineInv'
  <1> USE DEF PipelineInv
  <1>1. CASE Next
    <2>1. TypeOK' /\ Control'
      BY TypeStep
    <2>2. OneByOne' /\ Judged' /\ FlowsEarned' /\ DetectionsEarned'
      BY <1>1, OneByOneKept, JudgedKept, FlowsEarnedKept, DetectionsEarnedKept
    <2>3. Logged' /\ Tallied' /\ OnePlace' /\ FewLost' /\ Counted'
      BY <1>1, LoggedKept, TalliedKept, OnePlaceKept, FewLostKept, CountedKept
    <2>4. QED
      BY <2>1, <2>2, <2>3
  <1>2. CASE UNCHANGED vars
    <2>1. TypeOK' /\ Control'
      BY TypeStep
    <2>2. OneByOne' /\ Judged' /\ FlowsEarned' /\ DetectionsEarned'
      BY <1>2 DEF vars, OneByOne, Judged, FlowsEarned, DetectionsEarned
    <2>3. Logged' /\ Tallied' /\ OnePlace'
      BY <1>2 DEF vars, Logged, Due, Tallied, Total, OnePlace
    <2>4. FewLost' /\ Counted'
      BY <1>2 DEF vars, FewLost, Unexported, Unwritten, Counted, Tagged, Clean, Possibly, Surely
    <2>5. QED
      BY <2>1, <2>2, <2>3, <2>4
  <1>3. QED
    BY <1>1, <1>2

\* The parts of the invariant together hold in every state of every run.
THEOREM PipelineInvariant == Spec => []PipelineInv
  BY PipelineStarts, PipelineKept, PTL DEF Spec

\* _export_flow, on_export and the flow log between them lose no flow and write
\* none twice: short of Ctrl+C, every flow opened is in one place.
THEOREM FlowsAddUp == Spec => []FlowsAccounted
  <1>1. ASSUME PipelineInv
        PROVE  FlowsAccounted
    <2> USE <1>1 DEF PipelineInv
    <2>1. /\ DOMAIN flows = 1..Len(flows)
          /\ ToSet(flows) = {flows[i] : i \in DOMAIN flows}
          /\ Range(live) = {live[k] : k \in DOMAIN live}
      BY FlowTypes DEF ToSet, Range
    <2>2. IsInjective(flows)
      BY DEF OnePlace, IsInjective
    <2>3. ToSet(flows) \cap (Range(live) \cup {leaving, writing}) = {}
      BY <2>1 DEF OnePlace
    <2>4. QED
      BY <2>2, <2>3 DEF FlowsAccounted, FewLost, Unexported, Unwritten, One
  <1>2. QED
    BY <1>1, PipelineInvariant, PTL

\* process() logs each event that is due exactly once and in the order of the
\* capture, but for those whose write failed and was counted.
THEOREM EventsAddUp == Spec => []EventsAccounted
  <1>1. ASSUME PipelineInv
        PROVE  EventsAccounted
    <2>1. ToSet(events) \subseteq {e.id : e \in Due}
      BY <1>1 DEF PipelineInv, Logged, ToSet
    <2>2. QED
      BY <1>1, <2>1 DEF PipelineInv, Logged, EventsAccounted, Due
  <1>2. QED
    BY <1>1, PipelineInvariant, PTL

\* Whatever fails in parse or preprocess, an event given up there, or discarded
\* by a policy, reaches neither the flow tracker's counts nor the rules.
THEOREM NoTraceOfUntrusted == Spec => []UntrustedLeavesNoTrace
  <1>1. ASSUME PipelineInv,
               NEW e \in finished,
               e.status \in {"MALFORMED", "UNKNOWN"} \/ e.error = "preprocessor" \/ Discarded(e)
        PROVE  e.flow = None /\ \A i \in DOMAIN detections : detections[i][1] # e.id
    <2>1. Sober(e)
      BY <1>1 DEF PipelineInv, Judged
    <2>2. ~Tracked(e) \/ Discarded(e)
      BY <1>1, <2>1 DEF Sober, Tracked
    <2>3. e.flow = None
      BY <1>1, <2>2 DEF PipelineInv, FlowsEarned
    <2>4. ~Eligible(e) \/ Discarded(e)
      BY <2>2 DEF Eligible, Tracked
    <2>5. \A i \in DOMAIN detections : detections[i][1] # e.id
      BY <1>1, <2>4 DEF PipelineInv, DetectionsEarned
    <2>6. QED
      BY <2>3, <2>5
  <1>2. PipelineInv => UntrustedLeavesNoTrace
    BY <1>1 DEF UntrustedLeavesNoTrace
  <1>3. QED
    BY <1>2, PipelineInvariant, PTL

\* The preprocessor's counters count every packet once, whether it raised or not.
THEOREM CountsAddUp == Spec => []CountsBalance
  <1>1. ASSUME PipelineInv
        PROVE  CountsBalance
    <2>1. packet_count \in Nat /\ interrupts \in Nat /\ Total \in Nat /\ Tallied
      <3>1. packet_count \in Nat /\ interrupts \in Nat /\ counts \in [Verdicts -> Nat]
        BY <1>1, TypeParts, RunAssumption DEF PipelineInv, StateTyped
      <3>2. QED
        BY <1>1, <3>1 DEF PipelineInv, Total, Verdicts
    <2>2. /\ packet_count - Total \in 0..1
          /\ IF stage \in Pending THEN packet_count - Total = 1 ELSE packet_count - Total <= interrupts
          /\ stage = "capture" => Total = packet_count
      BY <2>1 DEF Tallied, Pending, Over
    <2>3. stage = "capture" => packet_count = Cardinality(finished)
      BY <1>1, FS_CardinalityType DEF PipelineInv, OneByOne, Control
    <2>4. QED
      BY <2>2, <2>3 DEF CountsBalance, Total, Pending
  <1>2. QED
    BY <1>1, PipelineInvariant, PTL

\* The detections of a packet come in rule order and before its line in the
\* event log.
THEOREM DetectionsFirst == Spec => []DetectionsBeforeEvent
  <1>1. ASSUME PipelineInv
        PROVE  DetectionsBeforeEvent
    <2>1. ASSUME matched # {}
          PROVE  event # None /\ event.id \notin ToSet(events)
      <3>1. event # None /\ packet # None /\ event.id = packet_count
        BY <1>1, <2>1 DEF PipelineInv, DetectionsEarned, Control
      <3>2. packet_count \in Nat /\ events \in Seq(1..packet_count)
        BY <1>1, TypeParts, RunAssumption DEF PipelineInv, StateTyped, FilesTyped
      <3>3. \A i \in DOMAIN events : events[i] \in 1..packet_count /\ events[i] < packet_count
        BY <1>1, <3>1, <3>2 DEF PipelineInv, Logged
      <3>4. \A i \in DOMAIN events : events[i] # packet_count
        BY <3>2, <3>3
      <3>5. QED
        BY <3>1, <3>4 DEF ToSet
    <2>2. QED
      BY <1>1, <2>1 DEF DetectionsBeforeEvent, PipelineInv, DetectionsEarned
  <1>2. QED
    BY <1>1, PipelineInvariant, PTL

\* The lines of the event log are as many events that are due: of those that
\* are not in it, each is a failed write.
LEMMA FewUnlogged ==
  ASSUME PipelineInv
  PROVE  LET unlogged == {e \in Due : e.id \notin ToSet(events)}
         IN IsFiniteSet(unlogged) /\ Cardinality(unlogged) <= write_errors["events"]
  <1> DEFINE logged == {e \in Due : e.id \in ToSet(events)}
             unlogged == {e \in Due : e.id \notin ToSet(events)}
             n == Len(events)
             line == [i \in 1..n |-> CHOOSE e \in Due : e.id = events[i]]
  <1>1. IsFiniteSet(Due) /\ Cardinality(Due) \in Nat
    <2>1. Due \subseteq finished /\ IsFiniteSet(finished)
      BY DEF Due, PipelineInv, OneByOne
    <2>2. QED
      BY <2>1, FS_Subset, FS_CardinalityType
  <1>2. /\ events \in Seq(1..packet_count) /\ packet_count \in Nat /\ n \in Nat /\ DOMAIN events = 1..n
        /\ write_errors["events"] \in Nat
    <2>1. packet_count \in Nat /\ events \in Seq(1..packet_count) /\ write_errors["events"] \in Nat
      BY TypeParts, RunAssumption DEF PipelineInv, StateTyped, FilesTyped
    <2>2. QED
      BY <2>1
  <1>3. \A i \in 1..n : line[i] \in Due /\ line[i].id = events[i]
    BY <1>2 DEF PipelineInv, Logged
  <1>4. line \in Injection(1..n, logged)
    <2>1. \A i \in 1..n : line[i] \in logged
      BY <1>2, <1>3 DEF ToSet
    <2>2. \A i, j \in 1..n : i # j => events[i] # events[j]
      <3>1. \A i \in 1..n : events[i] \in Nat
        BY <1>2
      <3>2. \A i, j \in 1..n : i < j => events[i] < events[j]
        BY <1>2 DEF PipelineInv, Logged
      <3> HIDE DEF n
      <3>3. QED
        BY <1>2, <3>1, <3>2
    <2>3. \A i, j \in 1..n : line[i] = line[j] => i = j
      BY <1>3, <2>2
    <2>4. line \in [1..n -> logged]
      BY <2>1
    <2> HIDE DEF line, logged
    <2>5. QED
      BY <2>3, <2>4 DEF Injection, IsInjective
  <1>5. IsFiniteSet(logged) /\ Cardinality(logged) \in Nat /\ n <= Cardinality(logged)
    <2>1. logged \subseteq Due
      OBVIOUS
    <2>2. IsFiniteSet(logged)
      BY <1>1, <2>1, FS_Subset
    <2> HIDE DEF logged, line, n
    <2>3. IsFiniteSet(1..n) /\ Cardinality(1..n) = n
      <3>1. n \in Int /\ 1 \in Int /\ n >= 0
        BY <1>2
      <3>2. IsFiniteSet(1..n) /\ Cardinality(1..n) = IF 1 > n THEN 0 ELSE n - 1 + 1
        BY <3>1, FS_Interval
      <3>3. QED
        BY <3>1, <3>2
    <2>4. Cardinality(1..n) <= Cardinality(logged)
      <3> DEFINE places == 1..n
      <3>1. line \in Injection(places, logged)
        BY <1>4
      <3> HIDE DEF places
      <3>2. Cardinality(places) <= Cardinality(logged)
        BY <2>2, <3>1, FS_Injection
      <3>3. QED
        BY <3>2 DEF places
    <2>5. QED
      BY <2>2, <2>3, <2>4, FS_CardinalityType
  <1>6. unlogged = Due \ logged /\ logged = Due \cap logged
    OBVIOUS
  <1> HIDE DEF logged, unlogged, line, n
  <1>7. IsFiniteSet(unlogged) /\ Cardinality(unlogged) = Cardinality(Due) - Cardinality(logged)
    <2>1. IsFiniteSet(Due \ logged) /\ Cardinality(Due \ logged) = Cardinality(Due) - Cardinality(Due \cap logged)
      BY <1>1, FS_Difference
    <2>2. QED
      BY <1>6, <2>1
  <1>8. Cardinality(Due) <= n + write_errors["events"]
    BY DEF PipelineInv, Logged, n
  <1>9. IsFiniteSet(unlogged) /\ Cardinality(unlogged) <= write_errors["events"]
    BY <1>1, <1>2, <1>5, <1>7, <1>8
  <1>10. QED
    BY <1>9 DEF unlogged

LEMMA UnionBounded ==
  ASSUME NEW S, NEW T, IsFiniteSet(S), IsFiniteSet(T)
  PROVE  IsFiniteSet(S \cup T) /\ Cardinality(S \cup T) <= Cardinality(S) + Cardinality(T)
  <1>1. IsFiniteSet(S \cup T) /\ Cardinality(S \cup T) = Cardinality(S) + Cardinality(T) - Cardinality(S \cap T)
    BY FS_Union
  <1>2. IsFiniteSet(S \cap T)
    BY FS_Intersection
  <1>3. Cardinality(S) \in Nat /\ Cardinality(T) \in Nat /\ Cardinality(S \cap T) \in Nat
    BY <1>2, FS_CardinalityType
  <1>4. QED
    BY <1>1, <1>3

\* flow_id in events.jsonl and packet_count in flows.jsonl agree: update() tags
\* an event and counts it, and only an update that raises does one without the
\* other.
THEOREM FlowsCountTagged == Spec => []TaggedIsCounted
  <1>1. ASSUME PipelineInv, NEW f \in DOMAIN size
        PROVE  LET tagged == {e \in finished : e.flow = f}
                   lines == {e \in tagged : e.id \in ToSet(events)}
                   ignored == {e \in tagged : e.status = "IGNORED"}
                   inHand == IF event # None /\ event.flow = f THEN 1 ELSE 0
               IN /\ Cardinality({e \in lines \cup ignored : ~e.raised}) <= size[f]
                  /\ size[f] <= Cardinality(lines) + Cardinality(ignored) + write_errors["events"] + inHand
    <2> DEFINE lines == {e \in Tagged(f) : e.id \in ToSet(events)}
               ignored == {e \in Tagged(f) : e.status = "IGNORED"}
               unlogged == {e \in Due : e.id \notin ToSet(events)}
               sure == {e \in lines \cup ignored : ~e.raised}
               inHand == IF event # None /\ event.flow = f THEN 1 ELSE 0
    <2>1. /\ size[f] \in Nat /\ write_errors["events"] \in Nat
          /\ IsFiniteSet(Tagged(f)) /\ Cardinality(Tagged(f)) \in Nat
          /\ IsFiniteSet(Clean(f)) /\ Cardinality(Clean(f)) \in Nat
      BY <1>1, TypeParts, TaggedTypes DEF PipelineInv, TableTyped, FilesTyped
    <2>2. /\ size[f] <= Cardinality(Tagged(f)) + Possibly(f)
          /\ Cardinality(Clean(f)) + Surely(f) <= size[f]
      BY <1>1 DEF PipelineInv, Counted
    <2>3. Possibly(f) \in {0, 1} /\ Surely(f) \in {0, 1} /\ inHand \in {0, 1} /\ Possibly(f) <= inHand
      BY DEF Possibly, Surely
    <2>4. Cardinality(sure) \in Nat /\ Cardinality(sure) <= Cardinality(Clean(f))
      <3>1. sure \subseteq Clean(f)
        BY DEF Tagged, Clean
      <3>2. QED
        BY <2>1, <3>1, FS_Subset, FS_CardinalityType
    <2>5. IsFiniteSet(unlogged) /\ Cardinality(unlogged) \in Nat /\ Cardinality(unlogged) <= write_errors["events"]
      BY <1>1, FewUnlogged, FS_CardinalityType
    <2>6. /\ IsFiniteSet(lines) /\ Cardinality(lines) \in Nat
          /\ IsFiniteSet(ignored) /\ Cardinality(ignored) \in Nat
      <3>1. lines \subseteq Tagged(f) /\ ignored \subseteq Tagged(f)
        OBVIOUS
      <3>2. QED
        BY <2>1, <3>1, FS_Subset, FS_CardinalityType
    \* An event with a flow is not discarded: it is logged, ignored or unlogged.
    <2>7. Tagged(f) \subseteq lines \cup ignored \cup unlogged
      <3> SUFFICES ASSUME NEW e \in Tagged(f), e.id \notin ToSet(events), e.status # "IGNORED"
                   PROVE  e \in Due
        BY DEF Due
      <3>1. e \in finished /\ e.flow = f
        BY DEF Tagged
      <3>2. f # None
        BY <1>1, TypeParts, RunAssumption DEF PipelineInv, TableTyped
      <3>3. ~Discarded(e)
        BY <1>1, <3>1, <3>2 DEF PipelineInv, FlowsEarned
      <3>4. QED
        BY <3>1, <3>3 DEF Due
    <2> HIDE DEF lines, ignored, unlogged, sure, inHand
    <2>8. Cardinality(Tagged(f)) <= Cardinality(lines) + Cardinality(ignored) + Cardinality(unlogged)
      <3> DEFINE both == lines \cup ignored
      <3>1. IsFiniteSet(both) /\ Cardinality(both) \in Nat /\ Cardinality(both) <= Cardinality(lines) + Cardinality(ignored)
        BY <2>6, UnionBounded, FS_CardinalityType
      <3>2. Tagged(f) \subseteq both \cup unlogged
        BY <2>7
      <3> HIDE DEF both
      <3>3. /\ IsFiniteSet(both \cup unlogged) /\ Cardinality(both \cup unlogged) \in Nat
            /\ Cardinality(both \cup unlogged) <= Cardinality(both) + Cardinality(unlogged)
        BY <2>5, <3>1, UnionBounded, FS_CardinalityType
      <3>4. Cardinality(Tagged(f)) <= Cardinality(both \cup unlogged)
        BY <3>2, <3>3, FS_Subset
      <3>5. QED
        BY <2>1, <2>5, <2>6, <3>1, <3>3, <3>4
    <2>9. /\ Cardinality(sure) <= size[f]
          /\ size[f] <= Cardinality(lines) + Cardinality(ignored) + write_errors["events"] + inHand
      BY <2>1, <2>2, <2>3, <2>4, <2>5, <2>6, <2>8
    <2>10. QED
      BY <2>9 DEF lines, ignored, sure, inHand, Tagged
  <1>2. PipelineInv => TaggedIsCounted
    BY <1>1 DEF TaggedIsCounted
  <1>3. QED
    BY <1>2, PipelineInvariant, PTL

-----------------------------------------------------------------------------
(* The journal *)

\* A flow is on its way out only while an event is tracked or the table is
\* flushed.
OnItsWay ==
  leaving # None \/ writing # None => stage \in {"sweep", "flush"} \/ (stage = "track" /\ Tracked(event))

LEMMA OnItsWayKept ==
  ASSUME OnItsWay, Next
  PROVE  OnItsWay'
  <1>1. CASE Receives \/ Parse \/ ParseRaises \/ Decode \/ DecodeRaises
    BY <1>1 DEF OnItsWay, Receives, Receive, Parse, ParseRaises, Decode, DecodeRaises, OnEvent, table
  <1>2. CASE Preprocess \/ PreprocessRaises \/ Leave \/ Log
    BY <1>2 DEF OnItsWay, Preprocess, PreprocessRaises, OnEvent, Leave, Log, table
  <1>3. CASE Moves
    BY <1>3 DEF OnItsWay, Moves, PassBy, EndUpdate, CaptureEnds, Shutdown, FlushRaises, CountVerdict, Discard,
                OnEvent, Settled, table
  <1>4. CASE Raises
    BY <1>4 DEF OnItsWay, Raises, UpdateRaises, EngineRaises, DiscardRaises, OnEvent, Settled, table
  <1>5. CASE Takes
    <2>1. stage' = stage /\ event' = event
      BY <1>5 DEF Takes, TakeOut
    <2>2. stage' \in {"sweep", "flush"} \/ (stage' = "track" /\ Tracked(event)')
      BY <1>5, <2>1 DEF Takes, Tracked
    <2>3. QED
      BY <2>2 DEF OnItsWay
  <1>6. CASE HandOver
    <2>1. stage' = stage /\ event' = event /\ leaving # None
      BY <1>6 DEF HandOver
    <2>2. stage' \in {"sweep", "flush"} \/ (stage' = "track" /\ Tracked(event)')
      BY <2>1 DEF OnItsWay, Tracked
    <2>3. QED
      BY <2>2 DEF OnItsWay
  <1>7. CASE WriteFlow
    <2>1. stage' = stage /\ event' = event /\ writing # None
      BY <1>7 DEF WriteFlow
    <2>2. stage' \in {"sweep", "flush"} \/ (stage' = "track" /\ Tracked(event)')
      BY <2>1 DEF OnItsWay, Tracked
    <2>3. QED
      BY <2>2 DEF OnItsWay
  <1>8. CASE Attach \/ Count \/ Evaluate
    BY <1>8 DEF OnItsWay, Attach, Count, Evaluate, Settled, table
  <1>9. CASE WriteDetection \/ Interrupt
    BY <1>9 DEF OnItsWay, WriteDetection, Interrupt, table
  <1>10. QED
    BY <1>1, <1>2, <1>3, <1>4, <1>5, <1>6, <1>7, <1>8, <1>9, Steps

LEMMA OnItsWayStutters == OnItsWay /\ UNCHANGED vars => OnItsWay'
  BY DEF OnItsWay, Tracked, vars

\* Between two packets, while the rules are matched, and before and after a
\* flush, no flow is on its way.
LEMMA NoneOut ==
  ASSUME OnItsWay, stage \notin {"sweep", "flush"}, ~(stage = "track" /\ Tracked(event))
  PROVE  leaving = None /\ writing = None /\ Out = None
  BY DEF OnItsWay, Out

LEMMA JournalStarts ==
  ASSUME Init
  PROVE  Journal!JInit /\ OnItsWay
  <1>1. Range(live) = {} /\ Len(size) = 0
    BY DEF Init, Range
  <1>2. QED
    BY <1>1 DEF Init, Journal!JInit, Phase, Out, OnItsWay

\* What the journal shows of the run stays as it is.
Quiet == UNCHANGED <<Phase, packet_count, Len(size), Range(live), Out, flows, detections, events>>

LEMMA EventJournal ==
  ASSUME Parse \/ ParseRaises \/ Decode \/ DecodeRaises \/ Preprocess \/ PreprocessRaises
  PROVE  Quiet
  <1>1. UNCHANGED <<packet_count, live, size, leaving, writing, flows, detections, events>>
    BY DEF Parse, ParseRaises, Decode, DecodeRaises, Preprocess, PreprocessRaises, OnEvent, input, table, files
  <1>2. stage \in {"parse", "decode", "preprocess"} /\ stage' \in {"decode", "preprocess", "judged"}
    BY DEF Parse, ParseRaises, Decode, DecodeRaises, Preprocess, PreprocessRaises, OnEvent
  <1>3. Phase' = Phase
    BY <1>2 DEF Phase
  <1>4. Len(size)' = Len(size) /\ Range(live)' = Range(live) /\ Out' = Out
    BY <1>1 DEF Out
  <1>5. QED
    BY <1>1, <1>3, <1>4 DEF Quiet

LEMMA ReceiveJournal ==
  ASSUME OnItsWay, Receives
  PROVE  Journal!Take
  <1>1. /\ UNCHANGED <<live, size, leaving, writing, flows, detections, events>> /\ packet_count' = packet_count + 1
        /\ stage = "capture" /\ stage' = "parse"
    BY DEF Receives, Receive, table, files
  <1>2. Phase = "idle" /\ Phase' = "tracking"
    BY <1>1 DEF Phase
  <1>3. Len(size)' = Len(size) /\ Range(live)' = Range(live) /\ Out' = Out
    BY <1>1 DEF Out
  <1>4. QED
    BY <1>1, <1>2, <1>3 DEF Journal!Take

LEMMA FinishJournal ==
  ASSUME Control, OnItsWay, Leave \/ Log
  PROVE  Journal!Finish
  <1>1. /\ UNCHANGED <<packet_count, live, size, leaving, writing, flows, detections>> /\ stage' = "capture"
        /\ \/ stage = "leave" /\ events' = events
           \/ stage = "detect" /\ events' \in {events, Append(events, packet_count)}
    <2>1. CASE Leave
      BY <2>1 DEF Leave, Return, table, files
    <2>2. CASE Log
      <3>1. event.id = packet_count
        BY <2>2 DEF Log, Control, InHand
      <3>2. QED
        BY <2>2, <3>1 DEF Log, Return, Kept, Written, NotWritten, WriteFails, table
    <2>3. QED
      BY <2>1, <2>2
  <1>2. /\ stage = "leave" => Phase = "tracking"
        /\ stage = "detect" => Phase = "matching"
        /\ Phase' = "idle"
    BY <1>1 DEF Phase
  <1>3. Len(size)' = Len(size) /\ Range(live)' = Range(live) /\ Out' = Out
    BY <1>1 DEF Out
  <1>4. Out = None
    <2>1. stage \in {"leave", "detect"}
      BY <1>1
    <2>2. QED
      BY <2>1, NoneOut
  <1>5. QED
    BY <1>1, <1>2, <1>3, <1>4 DEF Journal!Finish

LEMMA MoveJournal ==
  ASSUME OnItsWay, Moves \/ Raises
  PROVE  Journal!Match \/ Journal!Stop \/ Quiet
  <1>1. UNCHANGED <<packet_count, live, size, leaving, writing, flows, detections, events>>
    BY DEF Moves, PassBy, EndUpdate, CaptureEnds, Shutdown, FlushRaises, CountVerdict, Discard, Raises,
           UpdateRaises, EngineRaises, DiscardRaises, OnEvent, input, table, files
  <1>2. \/ /\ stage \in {"track", "count", "sweep"} /\ stage' = "engine"
           /\ leaving = None /\ writing = None
        \/ stage = "engine" /\ stage' = "detect"
        \/ stage = "capture" /\ stage' = "flush"
        \/ stage = "flush" /\ stage' = "done"
        \/ stage = "judged" /\ stage' \in {"discard", "track"}
        \/ stage = "discard" /\ stage' = "leave"
    <2>1. CASE Moves
      BY <2>1, NoneOut DEF Moves, PassBy, EndUpdate, CaptureEnds, Shutdown, FlushRaises, CountVerdict, Discard,
                           OnEvent, Settled
    <2>2. CASE Raises
      BY <2>2 DEF Raises, UpdateRaises, EngineRaises, DiscardRaises, OnEvent, Settled
    <2>3. QED
      BY <2>1, <2>2
  <1>3. Len(size)' = Len(size) /\ Range(live)' = Range(live) /\ Out' = Out
    BY <1>1 DEF Out
  <1>4. CASE stage \in {"track", "count", "sweep"} /\ stage' = "engine" /\ leaving = None /\ writing = None
    <2>1. Phase = "tracking" /\ Phase' = "matching" /\ Out = None
      BY <1>4 DEF Phase, Out
    <2>2. QED
      BY <1>1, <1>3, <2>1 DEF Journal!Match
  <1>5. CASE stage = "capture" /\ stage' = "flush"
    <2>1. Phase = "idle" /\ Phase' = "over"
      BY <1>5 DEF Phase
    <2>2. Out = None
      BY <1>5, NoneOut
    <2>3. QED
      BY <1>1, <1>3, <2>1, <2>2 DEF Journal!Stop
  <1>6. CASE \/ stage = "engine" /\ stage' = "detect"
             \/ stage = "flush" /\ stage' = "done"
             \/ stage = "judged" /\ stage' \in {"discard", "track"}
             \/ stage = "discard" /\ stage' = "leave"
    <2>1. Phase' = Phase
      BY <1>6 DEF Phase
    <2>2. QED
      BY <1>1, <1>3, <2>1 DEF Quiet
  <1>7. QED
    BY <1>2, <1>4, <1>5, <1>6

\* A flow that leaves the table is under no other key.
LEMMA TakeJournal ==
  ASSUME OnePlace, TypeOK, Takes
  PROVE  \E flow \in Range(live) : Journal!End(flow)
  <1>1. PICK k \in DOMAIN live : TakeOut(k) /\ stage \in {"track", "sweep", "flush"}
    BY DEF Takes
  <1>2. /\ leaving = None /\ writing = None /\ leaving' = live[k] /\ writing' = None
        /\ UNCHANGED <<stage, packet_count, size, flows, detections, events>>
        /\ DOMAIN live' = DOMAIN live \ {k} /\ \A j \in DOMAIN live' : live'[j] = live[j]
    BY <1>1 DEF TakeOut, Settled, Restrict, files, input
  <1>3. live[k] # None
    BY FlowTypes
  <1>4. Range(live') = Range(live) \ {live[k]}
    BY <1>2 DEF Range, OnePlace
  <1>5. Out = None /\ Out' = live[k]
    BY <1>2, <1>3 DEF Out
  <1>6. Phase \in {"tracking", "over"} /\ Phase' = Phase
    BY <1>1, <1>2 DEF Phase
  <1>7. live[k] \in Range(live)
    BY DEF Range
  <1>8. QED
    BY <1>2, <1>4, <1>5, <1>6, <1>7 DEF Journal!End

LEMMA WriteJournal ==
  ASSUME OnePlace, HandOver \/ WriteFlow
  PROVE  Quiet \/ Journal!Deliver
  <1>1. UNCHANGED <<stage, packet_count, live, size, detections, events>>
    BY DEF HandOver, WriteFlow, input
  <1>2. Phase' = Phase /\ Len(size)' = Len(size) /\ Range(live)' = Range(live)
    BY <1>1 DEF Phase
  <1>3. CASE HandOver
    <2>1. Out' = Out /\ flows' = flows
      BY <1>3 DEF HandOver, Out
    <2>2. QED
      BY <1>1, <1>2, <2>1 DEF Quiet
  <1>4. CASE WriteFlow
    <2>1. leaving = None /\ leaving' = None /\ writing # None /\ writing' = None
      BY <1>4 DEF WriteFlow, OnePlace
    <2>2. Out # None /\ Out' = None /\ Out = writing
      BY <2>1 DEF Out
    <2>3. flows' \in {flows, Append(flows, Out)}
      BY <1>4, <2>2 DEF WriteFlow, WriteFails
    <2>4. QED
      BY <1>1, <1>2, <2>2, <2>3 DEF Journal!Deliver
  <1>5. QED
    BY <1>3, <1>4

LEMMA JournalCardinality == \A S : Journal!Cardinality(S) = Cardinality(S)
  BY DEF Journal!Cardinality, Cardinality, Journal!IsFiniteSet, IsFiniteSet

LEMMA AttachJournal ==
  ASSUME OnePlace, TypeOK, Attach
  PROVE  Quiet \/ Journal!Begin
  <1>1. /\ UNCHANGED <<packet_count, leaving, writing, flows, detections, events>>
        /\ leaving = None /\ writing = None
        /\ stage = "track" /\ stage' = "count"
    BY DEF Attach, Settled, files, input
  <1>2. Phase = "tracking" /\ Phase' = "tracking"
    BY <1>1 DEF Phase
  <1>3. Out = None /\ Out' = None
    BY <1>1 DEF Out
  <1>4. CASE Joins
    <2>1. Len(size)' = Len(size) /\ Range(live)' = Range(live)
      BY <1>4 DEF Joins
    <2>2. QED
      BY <1>1, <1>2, <1>3, <2>1 DEF Quiet
  <1>5. CASE Opens
    <2>1. Len(size') = Len(size) + 1
      <3>1. size \in Seq(Nat)
        BY FlowTypes
      <3>2. QED
        BY <1>5, <3>1 DEF Opens
    <2>2. Range(live') = Range(live) \cup {Len(size) + 1}
      BY <1>5 DEF Opens, Range
    <2>3. Cardinality(Range(live)) < MaxActiveFlows
      <3>1. Cardinality(DOMAIN live) < MaxActiveFlows
        BY <1>5 DEF Attach, Known, Opens
      <3>2. live \in Surjection(DOMAIN live, Range(live))
        <4>1. live \in [DOMAIN live -> Range(live)]
          BY TypeParts DEF TableTyped, Range
        <4>2. QED
          BY <4>1 DEF Surjection, Range
      <3>3. IsFiniteSet(Range(live)) /\ Cardinality(Range(live)) <= Cardinality(DOMAIN live)
        BY <3>2, FS_Surjection DEF OnePlace
      <3>4. Cardinality(Range(live)) \in Nat /\ Cardinality(DOMAIN live) \in Nat /\ MaxActiveFlows \in Nat
        BY <3>3, FS_CardinalityType, RunAssumption DEF OnePlace
      <3>5. QED
        BY <3>1, <3>3, <3>4
    <2>4. QED
      BY <1>1, <1>2, <1>3, <2>1, <2>2, <2>3, JournalCardinality DEF Journal!Begin
  <1>6. QED
    BY <1>4, <1>5, AttachStep

LEMMA CountJournal ==
  ASSUME Count \/ Evaluate
  PROVE  Quiet
  <1>1. UNCHANGED <<packet_count, live, leaving, writing, flows, detections, events>>
    BY DEF Count, Evaluate, input, table, files
  <1>2. \/ stage = "count" /\ stage' = "sweep"
        \/ stage = "engine" /\ stage' = "detect"
    BY DEF Count, Evaluate
  <1>3. Phase' = Phase
    BY <1>2 DEF Phase
  <1>4. Range(live)' = Range(live) /\ Out' = Out
    BY <1>1 DEF Out
  <1>5. Len(size)' = Len(size)
    BY DEF Count, Evaluate, table
  <1>6. QED
    BY <1>1, <1>3, <1>4, <1>5 DEF Quiet

\* The rules come in order: the least of those that are left is next.
LEMMA DetectJournal ==
  ASSUME Control, TypeOK, DetectionsEarned, WriteDetection
  PROVE  Quiet \/ \E rule \in Rules : Journal!Detect(rule)
  <1>1. /\ UNCHANGED <<stage, packet_count, live, size, leaving, writing, flows, events>>
        /\ stage = "detect" /\ matched # {}
        /\ detections' \in {detections, Append(detections, <<event.id, Min(matched)>>)}
    BY DEF WriteDetection, WriteFails, input, table
  <1>2. Phase = "matching" /\ Phase' = "matching"
    BY <1>1 DEF Phase
  <1>3. Len(size)' = Len(size) /\ Range(live)' = Range(live) /\ Out' = Out
    BY <1>1 DEF Out
  <1>4. CASE detections' = detections
    BY <1>1, <1>2, <1>3, <1>4 DEF Quiet
  <1>5. CASE detections' = Append(detections, <<event.id, Min(matched)>>)
    <2>1. event.id = packet_count
      BY <1>1 DEF Control, InHand
    <2>2. Min(matched) \in matched /\ matched \subseteq Rules
      <3>1. matched \subseteq Rules /\ Rules \subseteq Nat
        BY TypeParts, RunAssumption DEF StateTyped
      <3>2. QED
        BY <1>1, <3>1, MinIsLeast
    <2>3. \A i \in DOMAIN detections : detections[i][1] = packet_count => detections[i][2] < Min(matched)
      BY <1>1, <2>2 DEF DetectionsEarned
    <2>4. QED
      BY <1>1, <1>2, <1>3, <1>5, <2>1, <2>2, <2>3 DEF Journal!Detect
  <1>6. QED
    BY <1>1, <1>4, <1>5

LEMMA InterruptJournal ==
  ASSUME OnItsWay, Interrupt
  PROVE  Quiet \/ Journal!Deliver \/ Journal!Stop
  <1>1. /\ UNCHANGED <<packet_count, live, size, flows, detections, events>>
        /\ leaving' = None /\ writing' = None
        /\ stage \in {"flush", "done"} => stage = "flush" /\ stage' = "done"
        /\ stage \notin {"flush", "done"} => stage' = "flush"
    BY DEF Interrupt, files
  <1>2. Len(size)' = Len(size) /\ Range(live)' = Range(live) /\ Out' = None
    BY <1>1 DEF Out
  <1>3. CASE stage \in {"flush", "done"}
    <2>1. Phase' = Phase
      BY <1>1, <1>3 DEF Phase
    <2>2. CASE Out = None
      BY <1>1, <1>2, <2>1, <2>2 DEF Quiet
    <2>3. CASE Out # None
      BY <1>1, <1>2, <2>1, <2>3 DEF Journal!Deliver
    <2>4. QED
      BY <2>2, <2>3
  <1>4. CASE stage \notin {"flush", "done"}
    <2>1. Phase # "over" /\ Phase' = "over"
      BY <1>1, <1>4 DEF Phase
    <2>2. QED
      BY <1>1, <1>2, <2>1 DEF Journal!Stop
  <1>5. QED
    BY <1>3, <1>4

LEMMA NextJournal ==
  ASSUME PipelineInv, OnItsWay, [Next]_vars
  PROVE  [Journal!JNext]_(Journal!journal)
  <1> USE DEF PipelineInv
  <1>1. Quiet => UNCHANGED Journal!journal
    BY DEF Quiet, Journal!journal
  <1>2. CASE Receives \/ Leave \/ Log
    BY <1>2, ReceiveJournal, FinishJournal DEF Journal!JNext
  <1>3. CASE Moves \/ Raises
    BY <1>1, <1>3, MoveJournal DEF Journal!JNext
  <1>4. CASE Takes
    BY <1>4, TakeJournal DEF Journal!JNext
  <1>5. CASE HandOver \/ WriteFlow \/ Attach
    BY <1>1, <1>5, WriteJournal, AttachJournal DEF Journal!JNext
  <1>6. CASE WriteDetection \/ Interrupt
    BY <1>1, <1>6, DetectJournal, InterruptJournal DEF Journal!JNext
  <1>7. CASE Parse \/ ParseRaises \/ Decode \/ DecodeRaises \/ Preprocess \/ PreprocessRaises \/ Count \/ Evaluate
    BY <1>1, <1>7, EventJournal, CountJournal
  <1>8. CASE UNCHANGED vars
    BY <1>1, <1>8 DEF Quiet, Phase, Out, vars
  <1>9. QED
    BY <1>2, <1>3, <1>4, <1>5, <1>6, <1>7, <1>8, Steps

\* process(), _export_flow and finish() write the three files as the journal
\* says, whatever fails and wherever Ctrl+C falls.
THEOREM PipelineImplementsJournal == Spec => ImplementsJournal
  BY JournalStarts, NextJournal, OnItsWayKept, OnItsWayStutters, PipelineInvariant, PTL
     DEF Spec, ImplementsJournal, Journal!JSpec
=============================================================================
