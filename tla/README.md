# A specification of the IDS packet pipeline

The program in `src/` is a network intrusion detection system in Python. It
takes packets from a pcap file or an interface, parses, decodes and validates
them, groups them into flows, evaluates Snort-like rules on them, and writes
three JSONL logs: events, flows and detections. This directory holds TLA+
specifications of its parts, the TLC configurations that check them on small
instances, and proofs checked by TLAPS.

Paths below are relative to the repository: `src/flow/tracker.py` is the file
`src/src/flow/tracker.py` of the tree that `PROJECT.json` refers to.

Contents: [the system](#the-system), [the plan](#the-plan),
[modules and code](#modules-and-code), [runs](#runs), [fairness](#fairness),
[proofs](#proofs), [disagreements](#where-code-and-documentation-disagree),
[limits](#what-is-not-modelled).

## The system

`main.py` is one thread: it pulls packets from a generator and hands each to
`Pipeline.process()`, which calls the stages one after the other. The only
other thread is the sniffer of the live capture. There is no shared state but
the queue between the two; what makes the program hard is therefore order,
partial failure and interruption within one packet, and long histories of
packets in the flow table.

| component | state | operations | interacts with |
|---|---|---|---|
| live capture, `capture/live_capture.py` | bounded queue, stop event, a daemon thread | thread: handler, stop filter, end with a poison pill; generator: get, yield, close | the pipeline pulls from the generator, which is paused while the packet is processed |
| pcap reader, `capture/pcap_reader.py` | an open file | next packet, skip a corrupt one, end | `main.py` |
| parsers and detector, `parsers/` | none | bytes to the fields of an event | called by the pipeline |
| decoder, `decoder/` | none | decoded copies of host, URI, body, mail | called by the pipeline |
| preprocessor, `preprocessor/` | none | normalise, `validate`, `apply_policies` | its verdict decides what later stages do |
| flow tracker, `flow/` | table of active flows in least-recently-used order, event-time clock, time of the last sweep | `update`, `sweep`, `flush`, `snapshot` | tags the event, exports flows through the callback `on_export`, is read by the engine |
| TCP state machine, `flow/tcp_state.py` | none; the context of a connection is in the flow's entry | `next_state` | called by `update` |
| flow context, `engine/flow_context.py` | none | roles and `established` of a packet | reads the tracker, is read by the matcher |
| rule loader, `rules/loader.py`, `report.py` | load report, records, sids seen; the report file | `iter_rule_lines`, `load_rules`, `write_report` | called once by the constructor of `Engine`; fills the repository |
| rule parser and validator, `rules/parser.py`, `validator.py` | none | one logical line to a verdict, a reason and a rule | called by the loader for each rule line |
| repository and index, `rules/repository.py`, `indexer.py` | frozen list of rules; buckets by protocol and port | `candidates` | read by the evaluator |
| evaluator and matcher, `engine/` | statistics | header, flow, packet, content stage of every candidate; `detect` | returns detections to the pipeline |
| content matcher, `engine/content_matcher.py` | none between calls; stack and memory of failed states within one | `match_chain` | called by the matcher |
| pipeline, `pipeline/pipeline.py`, `utils/safe.py` | counters | `process`, `flush`, writes | everything |
| loggers, `logging/jsonl_logger.py` | open file, `write_errors` | `log` | called by the pipeline |
| program, `main.py` | packet count | packet loop, flush in `finally`, summary | everything |

What is hard, and what makes each part correct:

- *Flow tracker.* One `update` may expire a flow, notice the reuse of a port,
  evict another flow, create one and sweep others. Packets may come late.
  Correct: no flow or packet is lost or counted twice; the table stays within
  its bound; flows of one 5-tuple do not overlap; reasons agree with states;
  no flow outstays its timeout for ever; the packet's own flow is there when
  the engine asks for it.
- *TCP states.* Every flag combination in every order and from either side.
  Correct: `ESTABLISHED` and `CLOSED` are claimed only on the evidence of both
  sides; an ended connection stays as it ended.
- *Flow context.* Recomputed for each packet. Correct: the roles of a
  conversation never swap, and `established` is not lost by closing.
- *Live capture.* Two threads, a full queue, the pill, Ctrl+C at a get or at a
  yield. Correct: order, no repetition, losses only by a full queue, an end
  that is complete and is reached.
- *Rule loader.* Lines that continue, files that cannot be read or are named
  twice, a sid that comes again, a parser that raises, a report that cannot be
  written. Correct: every rule line is judged once, counted once and reported
  once; the first acceptable rule of a sid decides; the verdict of a line does
  not depend on the order in which a dozen checks are made; no rule reaches the
  engine that the matcher is not made for.
- *Engine.* An index that must not miss a rule; a rule that raises costs only
  itself; statistics whose equation must hold after a run.
- *Content matcher.* Backtracking with a memory of failed states. Correct: the
  first chain in the order of positions, exactly when there is one, and no
  state explored twice.
- *Pipeline.* Each stage may raise and the run goes on; a write may fail; Ctrl+C
  falls anywhere. Correct: every packet, flow and detection is accounted for,
  nothing is trusted more because a stage failed, and the flush ends.

`PROJECT.json` lists the hazards at their lines with the properties that look
after them, and all components including those that are not modelled.

## The plan

Order of the work, most important behaviour first:

1. (done) the flow tracker with its TCP states and the engine's view of flows,
   its abstract specification, and their theorems;
2. (done) the live capture, with proofs; the rule engine, with proofs; the
   content search, checked; the pipeline as a whole, checked;
3. (done) the rule loader with the parser and validator: files, continued
   lines, duplicate and disabled sids, files that fail, the two equations of the
   load report, the set-up of `Engine` up to the frozen repository, with proofs;
4. (done) theorems for the safety properties of Pipeline, and for
   `EvictsLeastRecent` and `FlowsOfKeyDisjoint` of the tracker;
5. (done) an abstract specification of the pipeline (a packet yields at most one
   event line, after its detections; a flow yields at most one flow line) and
   `Pipeline` shown to implement it;
6. (done) theorems for the safety of the content search, for the conservation of
   packets and flows, and for `EveryRuleLineReported`;
7. the capture composed with the pipeline, so that a pause at `yield` lasts as
   long as a packet's stages do; the merging of configurations.

## Modules and code

`PROJECT.json` maps every definition to its lines.

**TcpState** is `next_state()`: a pure operator on the context of a connection
(`state`, `midstream`, the direction of the SYN/ACK, the directions of FINs),
the flags, the direction and whether the packet opened the flow.

**FlowTracker** (extends TcpState) is `FlowTracker` with `FlowTable`,
`flow_key` and `timeout`. `table` is the dictionary by key; `touched` of a flow
stands for the order of the `OrderedDict`; `clock` and `lastSweep` are the
watermark and the time of the last sweep; `event` holds what `update` writes
into the event; `exported` is what `on_export` was called with. Actions:
`Update` (one packet, the whole of `update()`: lazy expiry or port reuse,
eviction, creation, counting, the state machine, the sweep), `Ignore` (an event
`update()` does not track), `ManualSweep`, `Flush`. `UpdateRaises` is an update
that `@safe_stage` cuts short: the clock has moved, and any part of what follows
is done, up to the sweep. `Spec` holds the runs in which no update raises, and
the properties are about those unless they say otherwise; `SpecWithFailures`
holds the others too. The constants are what the readers of the configuration
return, positive whatever the file holds.

**FlowLedger** is the tracker's promise to the reader of `flows.jsonl`, without
keys, times or states: a flow is live from its first packet until it is closed,
once and with all its packets; at most `MaxLive` are live. FlowTracker
implements it under the mapping `LiveOf`, `ClosedOf`, which name a flow by the
number of the packet that opened it.

**FlowContext** (extends FlowTracker) is `snapshot()` and
`build_flow_context()`: the server by known or by smaller port, the client by
the SYN, the role of the sender, `established`, and the check of
`Engine.process` that the flow found is the one the event was tagged with.

**LiveCapture** is `capture_live()`: the handler (`HandlePacket`, dropping when
the queue is full), the stop filter, a failing `sniff()`, the pill
(`Farewell`, not sent when the queue is full), and the generator's `Get`,
`Resume` after the yield, `Interrupt`, `Finish`. `sniff()` itself is external:
it calls the handler and then the stop filter for each packet.

**ContentMatch** is `match_chain()`: `Start`, `Complete`, `Refuse` (a state
known to have failed), `Enter` (a frame with its window), `Place` (the next
occurrence in the window), `GiveUp` and `Backtrack`. Bytes are the elements of
a set with a lower-case map, `find` is `bytes.find` between two bounds.

**RuleParser** is `tokenize_rule()`, the option parsers and `parse_rule()`, as
operators on a line of lexemes: words, parentheses, options with a key and a
value, and `broken` for a quote that is not closed. A word of the header stands
for the class of words that its parser tells apart; the value of an option is
what its text converts to (a number, a quoted string, a pattern of some length,
a set of flow words), or `Bad`. So the checks, their order and their reasons are
those of the code, and the characters are left out. `Judgement` is the verdict
stated without an order of checks.

**RuleLoader** (extends RuleParser) is the set-up of the engine: `Refuse` (a
missing `--rules` file) or `Skip` (a disabled engine), `ListFile`, `LeaveOut`
and `ListExtras` for each entry of the configuration and the command line;
`OpenAgain`, `OpenFails`, `Open` for each file; one action for each physical
line (`Blank`, `Comment`, `StartRule`, `Join`), then `Parse` or `ParseRaises`
with the whole of `_collect()`; `Add` and `Freeze` for the repository; and
`Replace`, `Write`, `CloseReport` with their failures for the report on disk.
What it leaves in `repository` is the constant `Rules` of RuleEngine, which
assumes of a rule what `UsableRule` says.

**RuleEngine** is the index, the stages of the matcher, the loop of the
evaluator and its statistics. A rule is its position in the frozen repository.
One action per outcome of a test (`Reject`, `Match`, `SearchRaises`,
`BuildRaises`); Ctrl+C falls between any two (`Interrupt`) or within a test,
after its search is counted and before its outcome is (`InterruptTest`). The
content search enters as the set of the rules whose contents occur.

**Pipeline** is one run of the program: `Receive`, then `Parse`, `Decode`,
`Preprocess`, `CountVerdict`, `Discard` and `Leave` for an event the policies
skip or drop, the tracker's steps, `HandOver` and `WriteFlow`, `Evaluate`,
`WriteDetection`, `Log`, each with the step it takes when it raises;
`CaptureEnds`, `Flush`, `Shutdown` or `FlushRaises`; and `Interrupt` between any
two. A write that fails is counted (`WriteFails`), and the line is missing, or
not: when the flush failed it is in the buffer and is written with the next.
The tracker's update is cut into the steps an exception or Ctrl+C can separate
(taking a flow out, counting it as exported, writing it, creating, tagging and
counting the packet); which flow expires is left open, FlowTracker has the
conditions. A packet is how far it can be parsed and how trustworthy its fields
are.

**RunJournal** is the promise of a run to the reader of its three files, without
stages, failures or table: packets are taken one at a time, the flows are dealt
with first, then the packet's detections are written in rule order, then its
line; a flow is opened while there is room, leaves once, and is written before
another leaves, or never; once the capture is over, nothing is written but
flows. Pipeline implements it under a mapping of its stages to four phases
(`Phase`), of the table to the flows in it, and of the two places of a flow on
its way out to one (`Out`).

**MCFlowTracker, MCContentMatch, MCRuleEngine, MCRuleLoader, MCPipeline** hold the instances
for TLC; LiveCapture needs none.

Operators whose comment starts with "Mutant" are not part of the specifications:
each is a definition with a plausible bug, and `PROJECT.json` names the property
that this bug violates. Every property has one.

**FlowTrackerProofs, FlowSafetyProofs, FlowRefinementProofs, ContentMatchProofs,
LiveCaptureProofs, RuleEngineProofs, RuleLoaderProofs, PipelineProofs** hold the
theorems: see [proofs](#proofs).

## Runs

All of them set `CHECK_DEADLOCK FALSE`: the program ends, and behaviours end
with it or at a bound.

| run | asks | bounds |
|---|---|---|
| `tracker_tcp` | what states claim, roles, established, what is stable while a flow is active | five packets of a TCP and a UDP 5-tuple, each from either side, six flag sets, two application protocols, a table for two, one instant, final ACK required |
| `tracker_table` | accounting, disjointness, staleness, reasons, eviction, refinement of the ledger (and with it the capacity) | four packets of a TCP and two UDP 5-tuples (one from an endpoint to itself), a table for two, times 0..4, packets up to 2 late |
| `capture` | order, completeness, end of the capture, end of the thread | five packets, a queue of two |
| `content` | soundness and completeness of the search, its memory, termination | payloads up to four bytes of three letters, up to three contents of all kinds |
| `engine` | exact detections, balanced statistics, isolation of failing rules | two events, five rules that differ in protocol, direction, ports, flow, flags, dsize, contents; any of them may raise, payloads may be missing, Ctrl+C at any point |
| `rules` | every rule line judged, counted and reported once; first of a sid; verdicts; well-formed records | about 3300 one-line files whose rule differs from a plain one in one or two groups of options or in its header, all 1000 three-line layouts of ten kinds of lines, libraries of six files with shared sids, one file under two paths, a missing and an unreadable one, entries and engines that are disabled; one failure; `MAX_OPTION_INT` = 3 |
| `pipeline` | accounting of flows, events and detections, errors, verdicts, progress, refinement of the journal | two packets of seven kinds, one failure of a stage, a write, the flush of a file or of the tracker, one Ctrl+C, a table for one, lenient and strict policies |
| `flow_ids`, `late_packets`, `capture_pill`, `engine_interrupt`, `pipeline_interrupt` | one documented statement each that the code does not keep | as small as shows it |

Why these bounds. A handshake with its close needs SYN, SYN/ACK, ACK and two
FINs: five packets reach every state by every flag order; the UDP 5-tuple adds
the answer that makes a UDP flow established. That an application protocol which
was `UNKNOWN` may become a specific one is left to the theorem `IdentityKept`:
a third protocol makes this run five times as long. For the table, what
an update does depends on its own key, on whether the table is full and on one
other flow: three 5-tuples in a table for two, with enough packets for a flow
to expire, return, be evicted and swept, and times that exceed every timeout
and the sweep interval. The theorems lift most of these properties to all
sizes. A queue of two is the smallest with a front, a rear and a full state
that one get does not empty; five packets fill it twice. Three contents are the
least for which backtracking goes over a content that was already placed
again. In the rules files, two groups of options are enough for any two problems
to meet in one line, and it is the order of two problems that decides a verdict;
three lines hold a rule, its continuation and what follows; the largest option
number is 3 so that a value above it, at it and below it are all there. In the
pipeline each stage sees one packet at a time; a second packet
meets what a failure or a discarded packet left behind, evicts in the table for
one, and flushes.

Every state a run explores is one the program can reach: `Init` is the
constructors' state, events are tracked with finite, non-negative timestamps
(`update` ignores one that is not finite, and one that is negative because
`validate` makes its event invalid: `Ignore`), and configuration values are
positive because the readers replace anything else by a default.

## Fairness

- `LiveCapture!FairSpec`: weak fairness of the steps that each thread takes by
  itself: the stop filter after the handler, the end of the thread, the
  generator's get, resume and finish. A thread that can run does run. Not
  assumed: that packets arrive, that `sniff()` fails, that the user interrupts.
  So on a silent interface the thread stays in `sniff()`, as it does in the
  program, and the generator stays in `get()`.
- `Pipeline!FairSpec`: weak fairness of `Work`, the single thread going on with
  what it has begun. Not assumed: packets, the end of the capture, Ctrl+C.
- `ContentMatch!FairSpec`: weak fairness of `Next`, a loop that runs.

## Proofs

Eight modules, all theorems checked by `tlapm` with Z3, Zenon and LS4. They hold
for every value of the constants under the named assumptions:
`EnvironmentAssumption` (the kinds of packets; timestamps are naturals),
`ConfigAssumption` (timeouts, interval and capacity positive),
`FinalAckAssumption`, `NoneAssumption`, `ContextAssumption`,
`CaptureAssumption`, `EngineAssumption`, `ParserAssumption`,
`NoReasonAssumption` and `LoaderAssumption` (numbers are bounded, patterns are
decoded or not, files are sequences of lines), `SearchAssumption` (contents and
payloads are of finite length), `RunAssumption` (the kinds of packets and
policies; `None` is none of the other values). TLC evaluates all of them.

*The tracker* (FlowTrackerProofs, FlowSafetyProofs). `TypeCorrect` is inductive
as it stands. `SweepFresh` is inductive given types: an update that makes the
sweep overdue performs it (no run checks it by itself; `BoundedStaleness` rests
on it). Its part `SweepInTime` implies that late packets set off no
sweep, hence `OwnFlowKept`. `CapacityBound` needs finiteness of the table
(`CapacityInv`). `BoundedStaleness` needs `SweptBound`: at the time of the last
sweep no flow was older than its slack, which is the timeout or the lateness if
that is larger, because a packet may shorten its flow's timeout. `StateWitnessed`
is not inductive: `WitnessInv` adds where the SYN/ACK and the FINs came from and
that UDP flows stay `ACTIVE`.

*Updates that raise* (FlowTrackerProofs, FlowSafetyProofs). No run has them;
three theorems are about all runs in which any number of updates raise anywhere
after the clock moved. `TypeCorrectWithFailures` and
`CapacityNeverExceededWithFailures`: the table stays well formed and within its
capacity, as a flow is only added after room was made. `OwnFlowLoss`
(`OwnFlowLostOnlyOverdue`): an update that raised may leave the sweep overdue;
the next one that completes performs it, and is the only one that may so lose
the flow it has just counted its packet in. It needs no invariant of the past
but the types: a completed update establishes `SweepInTime`, whatever was before.
The other properties of the tracker are about runs in which no update raises.

*The refinement* (FlowRefinementProofs). The mapping names flows by number, so
the invariant is `Numbered`: numbers are distinct in the table and the exports,
and at most the packets seen. `UpdateShape` describes one update in terms of the
flows that leave and the one that counts the packet; `UpdateLedger` turns it
into a step of the ledger, `TrackerImplementsLedger` concludes. `IdentityKept`
rests on the same lemma. `FlowsDisjoint` needs `Successive`: a flow's packets lie
between the one that opened it and its last, and it opens after the flows of its
5-tuple that have ended. `OldestEvicted` is read off the update: an eviction
happens only after the lazy expiry, with a full table.

*Conservation* (FlowRefinementProofs). `PacketsConserved` is about sums over a
set of any size. The operators that compute them are defined by recursion over
the subsets of the set, so the module first has a theory of finite sums
(`TotalRemove`: any element may be taken out; `TotalSplit`; `TotalRenamed`), each
lemma by induction on a *set* of numbers (`Induction`, from well-foundedness;
no schema is instantiated). Then, for any function of flows, `ExportMoves` says
that flows exported once each take their sum with them, and `TableMoves` what
the table's sum loses and gains. With the packet count as the function these
give the packets, with 1 the flows. The invariant is `Balanced`, these two
sums, with `ExportedOnce`: no number is exported twice, which needs that one
update never both displaces and sweeps a flow (`UpdateExportsOnce`).

*The context* (FlowRefinementProofs). `FlowsFiled`: each flow is under the key its
id was made from; with `OwnFlowKept` the lookup of `Engine.process` finds the
packet's flow (`ContextFound`). `RolesKept`: its client never changes.
`EstablishedKept`: what is established stays so.

*The capture* (LiveCaptureProofs). `InOrderOnce` needs `PillLast`: nothing enters
the queue after the pill.

*The search* (ContentMatchProofs). A chain is defined without a search, and the
search must find the first one or show there is none. The inductive invariant
`SearchInv` says what each frame of the stack has settled: every chain that goes
on from where the frame began has the frame's content at the position now on the
path or at one the frame has yet to try (`AllSettled`). So a frame that runs out
of positions proves its state hopeless (`FailedIsHopeless`, `DeadEnd`), and
refusing that state later is safe; when the last content is placed, the path is
the first chain, as all smaller positions of every frame are settled
(`FirstChainFound`). The argument is by cases on the search's steps, with no
induction over the contents: a chain from content i on that places i at p is a
chain from i + 1 on. `Counted` makes the states entered a set, which bounds the
work (`WorkStaysBounded`) by contents times positions, the polynomial bound
`match_chain` documents.

*The engine* (RuleEngineProofs). `IndexComplete` is about operators: a rule whose
header matches is a candidate. The inductive invariant `IInv` states what the
loop has done: the detections are, in order, the matching candidates among those
tested, short of those that raised, and the counters balance with the candidates
still to be tested.

*The rules* (RuleLoaderProofs). `ProblemVerdict` and `ParseVerdict` are about
operators: whatever the header and the options, the first problem the checks
meet in their order has the kind that `Flawed` and `Foreign`, which know no
order, demand. It needs that header problems are kept back while invalid
options are looked for, and that the checks which raise at once are on invalid
options only. The loader's invariant `LoaderInv` has three parts. `ReadingInv`
has the types of what is read. `RecordsInv` determines everything else by the
records: the counters are the numbers of records with each status, `seen` is the
set of the sids of the acceptable ones, the active rules are those of the
records with status valid, in order, with distinct sids. `EngineInv` makes the
repository a prefix of the active rules, which with the distinct sids shows that
`RuleRepository.add` never raises. `ReportAddsUp`, `VerdictsSound` and
`FirstOfSidActive` are parts of it; none of them is inductive alone, as
`FirstOfSidActive` speaks of the records and `_collect` decides by `seen`.

`RuleLinesReported` needs a second invariant, `CoverInv`, on top of these. What
should be reported is defined by recursion: `Enabled` over the entries of the
configuration, `Pull` over the lines of a file. The module proves, once, that
such a recursion over an interval of numbers has a solution (`Recursion`), so
that `EnabledSteps` and `PullSteps` may go from one index to the next; then it
needs no induction of its own, as the loader goes line by line as well.
`ListInv` and `TodoInv` say where in the list of files the loader is: what is
still to do is the end of the list, and `loaded` has the names of the files
before, so that a file is opened exactly at its first place (`NextFile`).
`OpenInv` is about the line: the backslashes left in the rule in hand are those
by which `Pull` draws the next line into it (`LineNext`, `JudgeNext`).
`RecordedInv` then says that the records are, in order, of the rule lines of the
files read to their end and those judged of the open one; `OutputInv` follows
the report as it is written.

*The pipeline* (PipelineProofs). `PipelineInv` has a part for each thing a run
accounts for, and each part is kept by a lemma of its own. `Control` says what
is in hand at each stage: the event in hand has the number of the last packet.
`OneByOne`: the finished events are numbered below it, so an event that finishes
is new. `Judged`, `FlowsEarned` and `DetectionsEarned` follow an event through
the stages: an event given up by the parser or the preprocessor has the verdict
invalid or no endpoints, only a tracked event gets a flow, only an eligible one
detections; `UntrustedLeavesNoTrace` and `DetectionsBeforeEvent` come from
them. `Logged` counts the log against the events that are due, `Tallied` the
verdicts against the packets: all but one between its arrival and its counting.
`OnePlace` and `FewLost` are about the flows: each is under one key, on its way
out, being written or written; what `FlowsAccounted` calls missing grows only
with a counted write error or Ctrl+C. `Counted` bounds the count of a flow from
both sides by its tagged events, from below by those whose update did not raise,
with the event in hand counted from the step that counts it; with `Logged` this
becomes `TaggedIsCounted`, which speaks of the lines of `events.jsonl`.
`FirstErrorKept` is an action property and needs only the types and `Control`.

*The journal* (PipelineProofs). `PipelineImplementsJournal` has one lemma for each
group of steps: it is a step of the journal, or leaves what the journal shows
as it is (`Quiet`). It rests on `OnePlace` (a flow taken out is under no other
key, and there is only one on its way), on `DetectionsEarned` (the rules left
come after those written) and on one more invariant, `OnItsWay`: a flow is on its
way out only while an event is tracked or the table is flushed. Without that the
run could go on to the rules, or to the next packet, with a flow still unwritten.

Only model-checked: all liveness (`PillEndsCapture`, `StopEndsSniffer`,
`Terminates`, `Progress`), which is beyond TLAPS with fairness. Of the manual
`sweep()` with any time only the types are proved, and no run checks more: the
program itself calls `sweep()` only at the end of `update()`. Of updates that
raise, the three theorems above are all that FlowTracker has; what they do to the
events and files is in Pipeline. What the
text of a joined rule is has no property: `joined` is the only account of it.

## Where code and documentation disagree

Each is a run that ends in a counterexample:

- `capture_pill`: the pill "ensures the generator can exit cleanly even if the
  sniffing thread terminates unexpectedly" (`capture/live_capture.py:74`). With a
  full queue it is dropped and the generator waits for ever.
- `flow_ids`: flow ids are "distinct on port reuse" (`flow/flow_key.py:58`). Two
  flows of a 5-tuple that start at the same timestamp share one.
- `late_packets`: late packets do not make a flow expire (`README.md:185`). A
  packet behind the clock still expires its own flow by the packet's time.
- `engine_interrupt`: after a run the candidates equal the sum of the outcomes
  (`engine/stats.py:35`). Not after Ctrl+C within an evaluation.
- `pipeline_interrupt`: the remaining flows are always flushed (`README.md:53`).
  Not when Ctrl+C falls into the flush, or between a flow's removal from the
  table and its export.

Noticed and not given a run, as each is the plain reading of a line:
`midstream` means "no SYN observed" (`models/flow.py:78`), but a flow that a RST
opens keeps it false; `detections_written` counts detections whose write failed,
since the logger does not raise (`pipeline/pipeline.py:254`). A backslash left
on the last line of a file makes "the Parser reject it as invalid"
(`rules/loader.py:29`), but the backslash is removed, and a rule that was
complete before it is loaded. "The ParseResult carries the sid whenever exactly
one well-formed sid option was found" (`rules/validator.py:80`), but a line
whose structure or header length is wrong is rejected before its options are
looked at, with no sid.

Two comments describe cases that do not occur as they say. The context of a
packet is said to be missing when "its flow was already exported, e.g. a late
packet made the sweep expire it" (`engine/flow_context.py:65`). While no update
raises this does not happen, for late packets or others: between updates no
sweep is overdue, so one that is due was set off by a packet in time, whose flow
it cannot take (`OwnFlowSurvives`, `OwnFlowKept`, `ContextFound`). It takes an
update that raised after the clock moved (`flow/tracker.py:173`) and before its
sweep was done (`:330`), or a `sweep()` by hand with an old time, and then only
the next update that completes can lose its flow (`OwnFlowLoss`). So the branch
is a safeguard, and the example in the comment is not a case of its own. The
counter of matches "always equals the number of Detections returned"
(`engine/evaluator.py:76`): it equals those returned and those in hand
(`StatisticsBalance`), and Ctrl+C loses the latter. Likewise `write_errors` is
the "number of records that could not be written" (`logging/jsonl_logger.py:29`),
but a record whose flush failed is counted and may still be written with the
next one, so `EventsAccounted` and `FlowsAccounted` read it as an upper bound of
what is missing.

## What is not modelled

- Text and bytes: the layouts the parsers read, the decoders, the normaliser, the
  characters of a rule. They are functions without state; the models take their
  verdicts, or lexemes.
- Byte, payload and flag counters of a flow: they move with its packet counters.
- Files: opening, `fsync`, JSON. A line is written whole or not at all; one that
  is in a buffer after a failed flush counts as written, though a program that is
  killed before the next flush loses it.
- Ctrl+C inside one call of a logger or one update of the counters: in Pipeline
  and RuleEngine it falls between steps, which are cut where the code changes
  different pieces of state. After `record_match()` (`engine/evaluator.py:98`) and
  before the detection is appended it leaves what `Match` and then `Interrupt`
  leave, as the list is lost with it.
  Ctrl+C during the set-up: no packet has been read then, and no flow is open.
- A run without an `engine` section in its configuration: no engine is made, and
  events go from the tracker to the log. It is the run of Pipeline with no rules.
- The merging and checking of `settings.yaml`, and the program's arguments, exit
  codes and summary. What the configuration guarantees are the assumptions on
  the constants.
- Floating point: timestamps and timeouts are naturals; rounding is not considered.
