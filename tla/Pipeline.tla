------------------------------ MODULE Pipeline ------------------------------
(***************************************************************************)
(* One run of the program: main() takes packets from the capture one at a  *)
(* time, Pipeline.process() leads each through its stages (parser, decoder,*)
(* preprocessor, policies, flow tracker, engine, event log), a failing     *)
(* stage never stops the run, and when the capture ends, or at Ctrl+C, the *)
(* flows that are left are flushed.                                        *)
(*                                                                         *)
(* A step is what one stage, or one write, does; Ctrl+C comes between two  *)
(* steps.  What a stage does to the bytes is abstracted to the verdicts    *)
(* the later stages read: a packet is how far each layer can be parsed and *)
(* how trustworthy its fields are.  The flow tracker is reduced to what    *)
(* may leave its table when (FlowTracker has the conditions), the engine   *)
(* to the set of rules that match (RuleEngine has the matching).  A flow   *)
(* is named by its number.  The files are the lines handed to them, in     *)
(* order, those still in a buffer included.  "finished", "failures" and    *)
(* the field "raised" of an event are history; no guard reads them but     *)
(* that of MaxFailures.                                                    *)
(***************************************************************************)
EXTENDS Integers, Sequences, FiniteSets, FiniteSetsExt, SequencesExt, Functions

CONSTANTS Packets,          \* the kinds of packets on the wire
          Rules,            \* the numbers of the loaded rules
          Policies,         \* the policy configurations
          MaxActiveFlows,
          MaxPackets,       \* bound on the packets captured
          MaxFailures,      \* bound on raising stages and failing writes
          MaxInterrupts,    \* bound on Ctrl+C
          None              \* Python's None

\* How far a packet can be parsed, who talks, and what validate() finds in
\* its fields: nothing; a port 0; a timestamp out of range.
PacketKinds ==
  [network : {"IPv4", "other", "malformed"},
   transport : {"tcp or udp", "empty", "other", "malformed"},
   app : {"empty", "known", "unknown", "malformed"},
   quality : {"good", "doubtful", "bad"},
   ends : Nat]

Layers == {"parser", "network", "transport", "application", "decoder", "preprocessor",
           "flow_tracker", "engine"}
Verdicts == {"valid", "partial", "invalid"}

\* What the stages read of an event, and write into it.
Events == [id : Nat, status : {"OK", "UNKNOWN", "MALFORMED", "IGNORED"},
           error : Layers \cup {None}, ends : Nat \cup {None}, supported : BOOLEAN,
           decode : {None, "PARTIAL"}, prep : Verdicts \cup {None},
           action : {None, "none", "flagged", "skipped", "dropped"},
           flow : Nat \cup {None},
           raised : BOOLEAN]        \* did its update raise?

ASSUME RunAssumption ==
  /\ Packets \subseteq PacketKinds
  /\ Rules \subseteq Nat /\ IsFiniteSet(Rules)
  /\ Policies \subseteq [unknown : {"log", "skip"}, unsupported : {"mark", "skip"},
                         invalid : {"flag", "drop"}]
  /\ MaxActiveFlows \in Nat \ {0}
  /\ MaxPackets \in Nat /\ MaxFailures \in Nat /\ MaxInterrupts \in Nat
  /\ None \notin Nat \cup Layers \cup Verdicts \cup Packets \cup Events

VARIABLES policy,          \* the policies of this run
          stage,           \* what main() does next
          packet_count,    \* of main()
          packet, event,   \* in process()
          counts,          \* preprocess_counts
          live,            \* the active flows, by the endpoints
          size,            \* packet_count of every flow opened
          leaving,         \* a flow taken from the table, not yet handed over
          writing,         \* a flow counted as exported, not yet written
          flows_exported,
          matched,         \* detections not yet handed to the logger
          events, flows, detections,   \* the JSONL files
          write_errors,    \* of the three loggers
          failures,        \* number of stages that raised and writes that failed
          interrupts,      \* number of Ctrl+C
          finished         \* the events that went all the way

vars == <<policy, stage, packet_count, packet, event, counts, live, size, leaving, writing,
          flows_exported, matched, events, flows, detections, write_errors, failures, interrupts, finished>>

table == <<live, size, leaving, writing>>
files == <<events, flows, detections, write_errors, flows_exported>>
Works == UNCHANGED failures
Fails == failures < MaxFailures /\ failures' = failures + 1

input == <<policy, packet_count, packet, interrupts>>

-----------------------------------------------------------------------------
(* The parser *)

NewEvent == [id |-> packet_count, status |-> "OK", error |-> None, ends |-> None, supported |-> TRUE,
             decode |-> None, prep |-> None, action |-> None, flow |-> None, raised |-> FALSE]

\* Mutant: a later error replaces the first.
FailedAgain(e, layer) == [e EXCEPT !.error = layer]

\* _record_error and safe_stage: the first error is kept.
Failed(e, layer) == [e EXCEPT !.error = IF @ = None THEN layer ELSE @]

Malformed(e, layer) == [e EXCEPT !.status = "MALFORMED", !.error = layer]

\* unknown_policy decides only whether the event is logged.
ParsedApplication(e, p) ==
  CASE p.app = "malformed" -> Malformed(e, "application")
    [] p.app = "unknown" /\ policy.unknown = "skip" -> [e EXCEPT !.status = "IGNORED"]
    [] OTHER -> e

ParsedTransport(e, p) ==
  CASE p.transport = "malformed" -> Malformed(e, "transport")
    [] p.transport = "empty" -> e
    [] p.transport = "other" -> [e EXCEPT !.supported = FALSE]
    [] OTHER -> ParsedApplication([e EXCEPT !.ends = p.ends], p)

\* An error at a layer ends the parsing there; what was parsed stays.
Parsed(p) ==
  CASE p.network = "malformed" -> Malformed(NewEvent, "network")
    [] p.network = "other" -> [NewEvent EXCEPT !.status = "UNKNOWN", !.supported = FALSE]
    [] OTHER -> ParsedTransport(NewEvent, p)

-----------------------------------------------------------------------------
(* The preprocessor *)

\* Mutant: a malformed packet whose addresses and ports were read is usable.
validateIgnoringStatus(e) ==
  IF packet.quality = "bad" THEN "invalid"
  ELSE IF e.ends = None \/ packet.quality = "doubtful" \/ e.decode = "PARTIAL"
         THEN "partial" ELSE "valid"

validate(e) ==
  CASE e.status = "MALFORMED" -> "invalid"
    [] e.status = "UNKNOWN" -> "partial"
    [] e.status \in {"OK", "IGNORED"} ->
         IF packet.quality = "bad" THEN "invalid"
         ELSE IF e.ends = None \/ packet.quality = "doubtful" \/ e.decode = "PARTIAL"
                THEN "partial" ELSE "valid"

\* The harmless actions "none", "normalized" and "defaults_filled" are one.
apply_policies(e, status) ==
  [e EXCEPT !.prep = IF status # "invalid" /\ ~e.supported THEN "partial" ELSE status,
            !.action = IF status = "invalid"
                         THEN IF policy.invalid = "drop" THEN "dropped" ELSE "flagged"
                       ELSE IF ~e.supported
                         THEN IF policy.unsupported = "skip" THEN "skipped" ELSE "flagged"
                       ELSE "none"]

Discarded(e) == e.action \in {"skipped", "dropped"}

-----------------------------------------------------------------------------
(* The stages *)

Init ==
  /\ policy \in Policies
  /\ stage = "capture"
  /\ packet_count = 0
  /\ packet = None /\ event = None
  /\ counts = [s \in Verdicts |-> 0]
  /\ live = [k \in {} |-> None] /\ size = <<>> /\ leaving = None /\ writing = None
  /\ flows_exported = 0
  /\ matched = {}
  /\ events = <<>> /\ flows = <<>> /\ detections = <<>>
  /\ write_errors = [f \in {"events", "flows", "detections"} |-> 0]
  /\ failures = 0 /\ interrupts = 0
  /\ finished = {}

Receive(p) ==
  /\ stage = "capture" /\ packet_count < MaxPackets
  /\ packet_count' = packet_count + 1
  /\ packet' = p
  /\ stage' = "parse"
  /\ Works
  /\ UNCHANGED <<policy, interrupts, event, counts, table, matched, files, finished>>

\* A stage that only works on the event.
OnEvent(from, to) ==
  /\ stage = from
  /\ stage' = to
  /\ UNCHANGED <<input, table, matched, files, finished>>

Parse ==
  /\ OnEvent("parse", "decode") /\ Works
  /\ event' = Parsed(packet)
  /\ UNCHANGED counts

\* The detector, or what is not guarded by safe_parse, raises.
ParseRaises ==
  /\ OnEvent("parse", "decode") /\ Fails
  /\ event' = Malformed(NewEvent, "parser")
  /\ UNCHANGED counts

\* Of the decode statuses validate() only tells PARTIAL and FAILED, which are one
\* here, from the others: fields of a known application were decoded in part.
Decode ==
  /\ OnEvent("decode", "preprocess") /\ Works
  /\ \/ event' = event
     \/ /\ event.status # "MALFORMED" /\ event.ends # None /\ packet.app = "known"
        /\ event' = [event EXCEPT !.decode = "PARTIAL"]
  /\ UNCHANGED counts

DecodeRaises ==
  /\ OnEvent("decode", "preprocess") /\ Fails
  /\ event.status # "MALFORMED"
  /\ event' = Failed(event, "decoder")
  /\ UNCHANGED counts

Preprocess ==
  /\ OnEvent("preprocess", "judged") /\ Works
  /\ event' = apply_policies(event, validate(event))
  /\ UNCHANGED counts

\* The conservative verdict of an event that could not be judged.
Fallback(e) == [Failed(e, "preprocessor") EXCEPT !.prep = "invalid", !.action = "flagged"]

\* Mutant: an event that could not be judged goes on without being counted.
PreprocessRaisesUncounted ==
  /\ OnEvent("preprocess", "track") /\ Fails
  /\ event' = Fallback(event)
  /\ UNCHANGED counts

PreprocessRaises ==
  /\ OnEvent("preprocess", "judged") /\ Fails
  /\ event' = Fallback(event)
  /\ UNCHANGED counts

CountVerdict ==
  /\ OnEvent("judged", IF Discarded(event) THEN "discard" ELSE "track") /\ Works
  /\ counts' = [counts EXCEPT ![event.prep] = @ + 1]
  /\ UNCHANGED event

\* process() returns and main() goes back to the capture.
Return ==
  /\ finished' = finished \cup {event}
  /\ event' = None /\ packet' = None
  /\ stage' = "capture"

\* A skipped or dropped event is neither tracked, nor matched, nor logged, but
\* the engine is told of it.
Discard ==
  /\ OnEvent("discard", "leave") /\ Works
  /\ UNCHANGED <<event, counts>>

DiscardRaises ==
  /\ OnEvent("discard", "leave") /\ Fails
  /\ event' = Failed(event, "engine")
  /\ UNCHANGED counts

Leave ==
  /\ stage = "leave"
  /\ Return /\ Works
  /\ UNCHANGED <<policy, packet_count, interrupts, counts, table, matched, files>>

-----------------------------------------------------------------------------
(* The flow tracker *)

Tracked(e) == e.prep # "invalid" /\ e.ends # None

Known == event.ends \in DOMAIN live

\* No flow is on its way out: _export_flow returns only then.
Settled == leaving = None /\ writing = None

\* Mutant: the flow that is exported stays in the table.
TakeOutKeeping(k) ==
  /\ Settled
  /\ leaving' = live[k]
  /\ Works
  /\ UNCHANGED <<stage, input, event, counts, live, size, writing, matched, files, finished>>

\* _export_flow: the flow is removed from the table first ...
TakeOut(k) ==
  /\ Settled
  /\ leaving' = live[k]
  /\ live' = Restrict(live, DOMAIN live \ {k})
  /\ Works
  /\ UNCHANGED <<stage, input, event, counts, size, writing, matched, files, finished>>

\* ... then handed to on_export, which counts it ...
HandOver ==
  /\ leaving # None
  /\ writing' = leaving /\ leaving' = None
  /\ flows_exported' = flows_exported + 1
  /\ Works
  /\ UNCHANGED <<stage, input, event, counts, live, size, matched, events, flows, detections, write_errors, finished>>

\* log() fails and counts it.  If it was the flush that failed, the line is in
\* the buffer all the same, to be written with the next one.
WriteFails(file) == Fails /\ write_errors' = [write_errors EXCEPT ![file] = @ + 1]

\* Mutant: a flow that cannot be written stays to be written again.
WriteFlowRetrying ==
  /\ writing # None
  /\ \/ /\ flows' = Append(flows, writing) /\ writing' = None
        /\ Works /\ UNCHANGED write_errors
     \/ /\ WriteFails("flows")
        /\ flows' \in {flows, Append(flows, writing)}
        /\ UNCHANGED writing
  /\ UNCHANGED <<stage, input, event, counts, live, size, leaving, matched, events, detections, flows_exported, finished>>

\* ... and logs it.
WriteFlow ==
  /\ writing # None /\ writing' = None
  /\ \/ /\ flows' = Append(flows, writing)
        /\ Works /\ UNCHANGED write_errors
     \/ /\ WriteFails("flows")
        /\ flows' \in {flows, Append(flows, writing)}
  /\ UNCHANGED <<stage, input, event, counts, live, size, leaving, matched, events, detections, flows_exported, finished>>

\* update() does not track the event.
PassBy ==
  /\ OnEvent("track", "engine") /\ Works
  /\ ~Tracked(event)
  /\ UNCHANGED <<event, counts>>

\* The flow of the packet itself has timed out, or its port is reused.
Expire ==
  /\ stage = "track" /\ Tracked(event) /\ Known
  /\ TakeOut(event.ends)

\* Mutant: the oldest flow is not found under the key made from it, and stays.
EvictNothing(k) ==
  /\ stage = "track" /\ Tracked(event) /\ ~Known
  /\ Cardinality(DOMAIN live) >= MaxActiveFlows
  /\ Settled
  /\ UNCHANGED vars

\* The table is full and the packet opens a flow.
Evict(k) ==
  /\ stage = "track" /\ Tracked(event) /\ ~Known
  /\ Cardinality(DOMAIN live) >= MaxActiveFlows
  /\ TakeOut(k)

\* Mutant: the flow created is not added to the table.
AttachNothing ==
  LET flow == IF Known THEN live[event.ends] ELSE Len(size) + 1
  IN /\ stage = "track" /\ Tracked(event) /\ Settled
     /\ Known \/ Cardinality(DOMAIN live) < MaxActiveFlows
     /\ event' = [event EXCEPT !.flow = flow]
     /\ stage' = "count" /\ Works
     /\ UNCHANGED <<input, counts, table, matched, files, finished>>

\* The flow is found or created, and the event tagged with it.
Attach ==
  LET flow == IF Known THEN live[event.ends] ELSE Len(size) + 1
  IN /\ stage = "track" /\ Tracked(event) /\ Settled
     /\ Known \/ Cardinality(DOMAIN live) < MaxActiveFlows
     /\ live' = [k \in DOMAIN live \cup {event.ends} |-> IF k = event.ends THEN flow ELSE live[k]]
     /\ size' = IF Known THEN size ELSE Append(size, 0)
     /\ event' = [event EXCEPT !.flow = flow]
     /\ stage' = "count" /\ Works
     /\ UNCHANGED <<input, counts, leaving, writing, matched, files, finished>>

\* Mutant: only a packet that passed every stage so far is counted.
CountClean ==
  /\ stage = "count"
  /\ size' = IF event.error = None THEN [size EXCEPT ![event.flow] = @ + 1] ELSE size
  /\ stage' = "sweep" /\ Works
  /\ UNCHANGED <<input, event, counts, live, leaving, writing, matched, files, finished>>

\* The state machine and the statistics of the flow.
Count ==
  /\ stage = "count"
  /\ size' = [size EXCEPT ![event.flow] = @ + 1]
  /\ stage' = "sweep" /\ Works
  /\ UNCHANGED <<input, event, counts, live, leaving, writing, matched, files, finished>>

\* The periodic sweep, if it is due, takes some other flows.
Sweep(k) ==
  /\ stage = "sweep" /\ k # event.ends
  /\ TakeOut(k)

EndUpdate ==
  /\ Settled
  /\ OnEvent("sweep", "engine") /\ Works
  /\ UNCHANGED <<event, counts>>

\* update() raises: what it did to the table and to the event stays done.
UpdateRaises ==
  /\ stage \in {"track", "count", "sweep"} /\ Tracked(event) /\ Settled
  /\ OnEvent(stage, "engine") /\ Fails
  /\ event' = [Failed(event, "flow_tracker") EXCEPT !.raised = TRUE]
  /\ UNCHANGED counts

-----------------------------------------------------------------------------
(* The engine and the event log *)

Eligible(e) == e.prep # "invalid" /\ e.ends # None

\* The engine returns the detections, in rule order.
Evaluate ==
  /\ stage = "engine"
  /\ matched' \in SUBSET (IF Eligible(event) THEN Rules ELSE {})
  /\ stage' = "detect" /\ Works
  /\ UNCHANGED <<input, event, counts, table, files, finished>>

EngineRaises ==
  /\ OnEvent("engine", "detect") /\ Fails
  /\ event' = Failed(event, "engine")
  /\ UNCHANGED counts

WriteDetection ==
  /\ stage = "detect" /\ matched # {}
  /\ matched' = matched \ {Min(matched)}
  /\ \/ /\ detections' = Append(detections, <<event.id, Min(matched)>>)
        /\ Works /\ UNCHANGED write_errors
     \/ /\ WriteFails("detections")
        /\ detections' \in {detections, Append(detections, <<event.id, Min(matched)>>)}
  /\ UNCHANGED <<stage, input, event, counts, table, events, flows, flows_exported, finished>>

Written == events' = Append(events, event.id) /\ Works /\ UNCHANGED write_errors

NotWritten == WriteFails("events") /\ events' \in {events, Append(events, event.id)}

Kept == event.status = "IGNORED" /\ Works /\ UNCHANGED <<events, write_errors>>

\* Mutant: the event is logged whether its detections are written or not.
LogEarly ==
  /\ stage = "detect"
  /\ Kept \/ (event.status # "IGNORED" /\ (Written \/ NotWritten))
  /\ Return
  /\ UNCHANGED <<policy, packet_count, interrupts, counts, table, matched, flows, detections, flows_exported>>

\* Mutant: the status is not asked.
LogIgnored ==
  /\ stage = "detect" /\ matched = {}
  /\ Written \/ NotWritten
  /\ Return
  /\ UNCHANGED <<policy, packet_count, interrupts, counts, table, matched, flows, detections, flows_exported>>

\* An ignored event is not logged; of the others a write may fail.
Log ==
  /\ stage = "detect" /\ matched = {}
  /\ Kept \/ (event.status # "IGNORED" /\ (Written \/ NotWritten))
  /\ Return
  /\ UNCHANGED <<policy, packet_count, interrupts, counts, table, matched, flows, detections, flows_exported>>

-----------------------------------------------------------------------------
(* The end of the run *)

\* The capture is exhausted, or raises.
CaptureEnds ==
  /\ OnEvent("capture", "flush") /\ Works
  /\ UNCHANGED <<event, counts>>

Flush(k) ==
  /\ stage = "flush"
  /\ TakeOut(k)

Shutdown ==
  /\ DOMAIN live = {} /\ Settled
  /\ OnEvent("flush", "done") /\ Works
  /\ UNCHANGED <<event, counts>>

\* flush() raises, and the flows that are left stay in the table.
FlushRaises ==
  /\ Settled
  /\ OnEvent("flush", "done") /\ Fails
  /\ UNCHANGED <<event, counts>>

\* Ctrl+C stops what is being done, the handing over of a flow included.  It
\* leads to the flush, or out of it.
Interrupt ==
  /\ stage # "done" /\ interrupts < MaxInterrupts
  /\ interrupts' = interrupts + 1
  /\ stage' = IF stage = "flush" THEN "done" ELSE "flush"
  /\ leaving' = None /\ writing' = None /\ Works
  /\ UNCHANGED <<policy, packet_count, packet, event, counts, live, size, matched, files, finished>>

Track ==
  \/ PassBy \/ Expire \/ Attach \/ Count \/ EndUpdate \/ UpdateRaises
  \/ \E k \in DOMAIN live : Evict(k) \/ Sweep(k)

Work ==
  \/ Parse \/ ParseRaises \/ Decode \/ DecodeRaises
  \/ Preprocess \/ PreprocessRaises \/ CountVerdict \/ Discard \/ DiscardRaises \/ Leave
  \/ Track \/ HandOver \/ WriteFlow
  \/ Evaluate \/ EngineRaises \/ WriteDetection \/ Log
  \/ Shutdown \/ FlushRaises \/ \E k \in DOMAIN live : Flush(k)

Next == Work \/ CaptureEnds \/ Interrupt \/ \E p \in Packets : Receive(p)

Spec == Init /\ [][Next]_vars

\* The one thread runs on; nothing is assumed of the traffic or of the user.
FairSpec == Spec /\ WF_vars(Work)

-----------------------------------------------------------------------------
(* Properties *)

TypeOK ==
  /\ policy \in Policies
  /\ stage \in {"capture", "parse", "decode", "preprocess", "judged", "discard", "leave", "track",
                "count", "sweep", "engine", "detect", "flush", "done"}
  /\ packet_count \in 0..MaxPackets
  /\ packet \in Packets \cup {None}
  /\ event \in Events \cup {None} /\ finished \subseteq Events
  /\ \A e \in finished \cup ({event} \ {None}) :
       e.id \in 1..packet_count /\ e.flow \in 1..Len(size) \cup {None}
  /\ counts \in [Verdicts -> Nat]
  /\ DOMAIN live \subseteq Nat /\ live \in [DOMAIN live -> 1..Len(size)]
  /\ size \in Seq(Nat) /\ {leaving, writing} \subseteq 1..Len(size) \cup {None}
  /\ matched \subseteq Rules
  /\ events \in Seq(1..packet_count) /\ flows \in Seq(1..Len(size))
  /\ detections \in Seq((1..packet_count) \X Rules)
  /\ write_errors \in [{"events", "flows", "detections"} -> Nat]
  /\ flows_exported \in Nat
  /\ failures \in 0..MaxFailures /\ interrupts \in 0..MaxInterrupts

\* No flow is written twice or while it is active, and every flow opened is
\* active, on its way out, written, or counted as a write error, which counts
\* no other; each Ctrl+C loses at most the flow that was on its way.
FlowsAccounted ==
  LET InHand(flow) == IF flow = None THEN 0 ELSE 1
      unexported == Len(size) - (flows_exported + Cardinality(DOMAIN live) + InHand(leaving))
      unwritten == flows_exported - (Len(flows) + InHand(writing))
  IN /\ IsInjective(flows)
     /\ ToSet(flows) \cap (Range(live) \cup {leaving, writing}) = {}
     /\ unexported >= 0 /\ unwritten >= 0
     /\ unexported + unwritten <= interrupts + write_errors["flows"]

\* Every event that went all the way is in events.jsonl exactly once and in
\* order, or a failed write of it was counted, or a policy kept it out; and
\* nothing else is.
EventsAccounted ==
  LET due == {e \in finished : ~Discarded(e) /\ e.status # "IGNORED"}
  IN /\ \A i, j \in DOMAIN events : i < j => events[i] < events[j]
     /\ ToSet(events) \subseteq {e.id : e \in due}
     /\ Cardinality(due) <= Len(events) + write_errors["events"]

\* An event that a stage before the tracker gave up, or that a policy discards,
\* leaves no trace: no flow counts it and no rule is matched against it.  That
\* a parser or the preprocessor raised can not make an event trusted.
UntrustedLeavesNoTrace ==
  \A e \in finished :
    e.status \in {"MALFORMED", "UNKNOWN"} \/ e.error = "preprocessor" \/ Discarded(e) =>
      e.flow = None /\ \A i \in DOMAIN detections : detections[i][1] # e.id

\* The preprocessor counters printed at the end add up to the packets: each
\* packet is counted once, whichever stages failed, before any later stage sees
\* it, short of one that Ctrl+C caught before it was counted.
CountsBalance ==
  LET total == counts["valid"] + counts["partial"] + counts["invalid"]
      uncounted == packet_count - total
  IN /\ uncounted \in 0..1
     /\ IF stage \in {"parse", "decode", "preprocess", "judged"}
          THEN uncounted = 1 ELSE uncounted <= interrupts
     /\ stage = "capture" => total = Cardinality(finished) /\ total = packet_count

\* "A packet's detections are written before its line in events.jsonl", each
\* once, packet by packet and in rule order.
DetectionsBeforeEvent ==
  /\ \A i, j \in DOMAIN detections : i < j =>
       \/ detections[i][1] < detections[j][1]
       \/ detections[i][1] = detections[j][1] /\ detections[i][2] < detections[j][2]
  /\ matched # {} => event # None /\ event.id \notin ToSet(events)

\* The first error of an event stays in its error_info, whatever fails later.
FirstErrorKept ==
  [][event # None /\ event' # None /\ event.error # None => event'.error = event.error]_vars

\* flows.jsonl agrees with events.jsonl: the packet_count of a flow is the number
\* of lines of events.jsonl tagged with it, short of the packets whose update
\* raised, those a policy kept out of events.jsonl, those whose write failed,
\* and the one in hand.
TaggedIsCounted ==
  \A f \in DOMAIN size :
    LET tagged == {e \in finished : e.flow = f}
        lines == {e \in tagged : e.id \in ToSet(events)}
        ignored == {e \in tagged : e.status = "IGNORED"}
        inHand == IF event # None /\ event.flow = f THEN 1 ELSE 0
    IN /\ Cardinality({e \in lines \cup ignored : ~e.raised}) <= size[f]
       /\ size[f] <= Cardinality(lines) + Cardinality(ignored) + write_errors["events"] + inHand

\* A packet taken from the capture is processed to the end, and a flush ends.
Progress == stage \notin {"capture", "done"} ~> stage \in {"capture", "done"}

\* "When it ends (end of the pcap, Ctrl+C or error), the program always flushes
\* the remaining flows to flows.jsonl" (README): every flow opened has been
\* handed to the flow log.  Not so when Ctrl+C falls on the flush itself, or
\* between a flow's removal from the table and its export.
EndFlushesAll == stage = "done" => flows_exported = Len(size)

-----------------------------------------------------------------------------
(* The run, seen from its files *)

Phase ==
  CASE stage = "capture" -> "idle"
    [] stage \in {"engine", "detect"} -> "matching"
    [] stage \in {"flush", "done"} -> "over"
    [] OTHER -> "tracking"

Out == IF leaving # None THEN leaving ELSE writing

Journal == INSTANCE RunJournal
             WITH MaxOpen <- MaxActiveFlows, NoFlow <- None, phase <- Phase, taken <- packet_count,
                  opened <- Len(size), open <- Range(live), out <- Out

\* Whatever fails, and wherever Ctrl+C falls, the files grow only as the
\* journal allows: the flows of a packet, then its detections, then its line,
\* and after the capture nothing but flows, each of them once.
ImplementsJournal == Journal!JSpec
=============================================================================
