----------------------------- MODULE RuleEngine -----------------------------
(***************************************************************************)
(* The rule engine at work on events (src/engine/evaluator.py, matcher.py, *)
(* stats.py, engine.py; src/rules/indexer.py): the index proposes rules,   *)
(* each is tested stage by stage, matches become detections, every rule's  *)
(* outcome is counted, and a rule that raises costs only itself.           *)
(*                                                                         *)
(* A rule is its position in Rules, the frozen repository.  An address     *)
(* specification is the set of the addresses it covers, a port             *)
(* specification an interval.  Whether a rule's contents occur in the      *)
(* payload (module ContentMatch) is given with the event as "hits", and    *)
(* the flow context as "ctx".  A field that is missing or corrupt is None, *)
(* and so is the size of a payload that is not bytes-like.                 *)
(* "returned", "erred", "spoiled" and "bare" are history.                  *)
(***************************************************************************)
EXTENDS Naturals, Sequences, FiniteSets, FiniteSetsExt, SequencesExt

CONSTANTS Rules,       \* the repository, in the order of the rule files
          Events,      \* what the pipeline hands over
          MaxEvents,   \* bound on their number
          Enabled,     \* engine.enabled
          None         \* Python's None

ASSUME EngineAssumption ==
  /\ Len(Rules) \in Nat /\ DOMAIN Rules = 1..Len(Rules)
  /\ Enabled \in BOOLEAN
  /\ None \notin Events /\ None \notin {"header", "flow", "packet", "content"}

Orders == DOMAIN Rules

VARIABLES event,       \* the event under evaluation, or None
          todo,        \* its candidates still to be tested
          detections,  \* what its evaluation has found so far
          stats,       \* EvaluationStats
          running,     \* until Ctrl+C
          returned,    \* number of detections returned so far
          erred,       \* the event's candidates that raised
          spoiled,     \* number of searches counted for rules that then raised
                       \* or, by Ctrl+C, got no outcome
          bare         \* number of matches of rules without contents

vars == <<event, todo, detections, stats, running, returned, erred, spoiled, bare>>

-----------------------------------------------------------------------------
(* The index *)

InPorts(spec, port) == port # None /\ spec[1] <= port /\ port <= spec[2]

\* Mutant: a '<>' rule is filed under its destination port only.
DestinationOnly(rule) == {rule.dst_port}

\* The port specifications a rule is filed under.
FiledUnder(rule) == {rule.dst_port} \cup (IF rule.direction = "<>" THEN {rule.src_port} ELSE {})

Buckets(protocol) == {protocol, "ip"}

\* Mutant: positions in the repository are taken to start at 0.
CandidatesFromZero(e) ==
  {o \in 0..(Len(Rules) - 1) : /\ Rules[o + 1].protocol \in Buckets(e.protocol)
                               /\ \E spec \in FiledUnder(Rules[o + 1]) : InPorts(spec, e.dst.port)}

\* The candidates for a packet; they are tested in repository order.
candidates(e) ==
  {o \in Orders : /\ Rules[o].protocol \in Buckets(e.protocol)
                  /\ \E spec \in FiledUnder(Rules[o]) : InPorts(spec, e.dst.port)}

-----------------------------------------------------------------------------
(* The stages of a test *)

Covers(ips, ports, end) == end.ip \in ips /\ InPorts(ports, end.port)

match_header(rule, e) ==
  /\ rule.protocol \in {"ip", e.protocol}
  /\ \/ /\ Covers(rule.src_ip, rule.src_port, e.src)
        /\ Covers(rule.dst_ip, rule.dst_port, e.dst)
     \/ /\ rule.direction = "<>"
        /\ Covers(rule.dst_ip, rule.dst_port, e.src)
        /\ Covers(rule.src_ip, rule.src_port, e.dst)

match_flow(rule, ctx) ==
  \/ rule.flow = None
  \/ /\ ctx # None
     /\ rule.flow.role \in {None, ctx.role}
     /\ rule.flow.state = "established" => ctx.established
     /\ rule.flow.state = "not_established" => ~ctx.established

match_flags(spec, e) ==
  \/ spec = None
  \/ /\ e.protocol = "tcp" /\ e.flags # None
     /\ CASE spec.mode = "exact" -> e.flags = spec.flags
          [] spec.mode = "all"   -> spec.flags \subseteq e.flags
          [] spec.mode = "any"   -> spec.flags \cap e.flags # {}
          [] spec.mode = "none"  -> spec.flags \cap e.flags = {}

match_dsize(spec, e) ==
  \/ spec = None
  \/ /\ e.size # None
     /\ CASE spec.op = "eq"    -> e.size = spec.a
          [] spec.op = "lt"    -> e.size < spec.a
          [] spec.op = "gt"    -> e.size > spec.a
          [] spec.op = "range" -> spec.a <= e.size /\ e.size <= spec.b

\* The first stage that fails ends the test; the contents are searched last.
FailedStage(o, e) ==
  LET rule == Rules[o]
  IN IF ~match_header(rule, e) THEN "header"
     ELSE IF ~match_flow(rule, e.ctx) THEN "flow"
     ELSE IF ~(match_flags(rule.flags, e) /\ match_dsize(rule.dsize, e)) THEN "packet"
     ELSE IF rule.contents /\ o \notin e.hits THEN "content"
     ELSE None

\* Whether the event is one the engine tests rules on.
Eligible(e) ==
  /\ Enabled /\ Rules # <<>>
  /\ e.action \notin {"skipped", "dropped"}
  /\ e.preprocess_status # "invalid"
  /\ e.protocol \in {"tcp", "udp"} /\ e.dst.port # None

-----------------------------------------------------------------------------
(* Operations *)

Counters == {"events_evaluated", "events_skipped", "candidate_rules", "rules_rejected_header",
             "rules_rejected_flow", "rules_rejected_packet", "rules_rejected_content",
             "content_evaluations", "matches", "rule_errors"}

rejected(stage) ==
  CASE stage = "header" -> "rules_rejected_header" [] stage = "flow" -> "rules_rejected_flow"
    [] stage = "packet" -> "rules_rejected_packet" [] stage = "content" -> "rules_rejected_content"

\* The counters named in C go up by one.
Counted(C) == [c \in Counters |-> IF c \in C THEN stats[c] + 1 ELSE stats[c]]

Seen == stats["events_evaluated"] + stats["events_skipped"]

Init ==
  /\ event = None
  /\ todo = {}
  /\ detections = <<>>
  /\ stats = [c \in Counters |-> 0]
  /\ running = TRUE
  /\ returned = 0
  /\ erred = {}
  /\ spoiled = 0
  /\ bare = 0

Skip(e) ==
  /\ running /\ event = None /\ Seen < MaxEvents
  /\ ~Eligible(e)
  /\ stats' = Counted({"events_skipped"})
  /\ UNCHANGED <<event, todo, detections, running, returned, erred, spoiled, bare>>

Begin(e) ==
  /\ running /\ event = None /\ Seen < MaxEvents
  /\ Eligible(e)
  /\ event' = e
  /\ todo' = candidates(e)
  /\ stats' = [Counted({"events_evaluated"}) EXCEPT !["candidate_rules"] = @ + Cardinality(todo')]
  /\ detections' = <<>>
  /\ erred' = {}
  /\ UNCHANGED <<running, returned, spoiled, bare>>

Rule == Min(todo)

\* Counted once the content stage of a test has run to its end.
Searched == IF Rules[Rule].contents THEN {"content_evaluations"} ELSE {}

Testing == running /\ todo # {} /\ todo' = todo \ {Rule}

Reject ==
  /\ Testing
  /\ LET stage == FailedStage(Rule, event)
     IN /\ stage # None
        /\ stats' = Counted({rejected(stage)} \cup IF stage = "content" THEN Searched ELSE {})
  /\ UNCHANGED <<event, detections, running, returned, erred, spoiled, bare>>

\* The detection is built, the match is counted, the detection is kept.  Ctrl+C
\* before the match is counted is Interrupt or InterruptTest; after it, the
\* detection is lost with the others in hand whether it was kept or not.
Match ==
  /\ Testing
  /\ FailedStage(Rule, event) = None
  /\ stats' = Counted({"matches"} \cup Searched)
  /\ detections' = Append(detections, Rule)
  /\ bare' = bare + (IF Rules[Rule].contents THEN 0 ELSE 1)
  /\ UNCHANGED <<event, running, returned, erred, spoiled>>

\* Mutant: the content stage is counted before it has run.
SearchRaisesCounted ==
  /\ Testing
  /\ Rules[Rule].contents /\ FailedStage(Rule, event) \in {None, "content"}
  /\ stats' = Counted({"rule_errors"} \cup Searched)
  /\ erred' = erred \cup {Rule}
  /\ UNCHANGED <<event, detections, running, returned, spoiled, bare>>

\* The content search raises: the rule is an error and nothing else.
SearchRaises ==
  /\ Testing
  /\ Rules[Rule].contents /\ FailedStage(Rule, event) \in {None, "content"}
  /\ stats' = Counted({"rule_errors"})
  /\ erred' = erred \cup {Rule}
  /\ UNCHANGED <<event, detections, running, returned, spoiled, bare>>

\* Mutant: the match is counted before its detection is built.
BuildRaisesMatched ==
  /\ Testing
  /\ FailedStage(Rule, event) = None
  /\ stats' = Counted({"rule_errors", "matches"} \cup Searched)
  /\ erred' = erred \cup {Rule}
  /\ spoiled' = spoiled + (IF Rules[Rule].contents THEN 1 ELSE 0)
  /\ UNCHANGED <<event, detections, running, returned, bare>>

\* The rule matches but its detection cannot be built.
BuildRaises ==
  /\ Testing
  /\ FailedStage(Rule, event) = None
  /\ stats' = Counted({"rule_errors"} \cup Searched)
  /\ erred' = erred \cup {Rule}
  /\ spoiled' = spoiled + (IF Rules[Rule].contents THEN 1 ELSE 0)
  /\ UNCHANGED <<event, detections, running, returned, bare>>

Finish ==
  /\ running /\ event # None /\ todo = {}
  /\ returned' = returned + Len(detections)
  /\ event' = None
  /\ detections' = <<>>
  /\ erred' = {}
  /\ UNCHANGED <<todo, stats, running, spoiled, bare>>

\* Ctrl+C: not an Exception, so it leaves the loop over the candidates, between
\* two tests or before anything of one is counted.
Interrupt ==
  /\ running
  /\ running' = FALSE
  /\ UNCHANGED <<event, todo, detections, stats, returned, erred, spoiled, bare>>

\* Ctrl+C within a test: its search is counted, its outcome is not.
InterruptTest ==
  /\ running /\ todo # {}
  /\ Rules[Rule].contents /\ FailedStage(Rule, event) \in {None, "content"}
  /\ running' = FALSE
  /\ stats' = Counted(Searched)
  /\ spoiled' = spoiled + 1
  /\ UNCHANGED <<event, todo, detections, returned, erred, bare>>

Next ==
  \/ \E e \in Events : Skip(e) \/ Begin(e)
  \/ Reject \/ Match \/ SearchRaises \/ BuildRaises
  \/ Finish \/ Interrupt \/ InterruptTest

Spec == Init /\ [][Next]_vars

-----------------------------------------------------------------------------
(* Properties *)

Outcomes == stats["rules_rejected_header"] + stats["rules_rejected_flow"]
            + stats["rules_rejected_packet"] + stats["rules_rejected_content"]
            + stats["matches"] + stats["rule_errors"]

is_consistent == stats["candidate_rules"] = Outcomes

TypeOK ==
  /\ event \in Events \cup {None}
  /\ todo \subseteq Orders /\ detections \in Seq(Orders)
  /\ stats \in [Counters -> Nat]
  /\ running \in BOOLEAN
  /\ returned \in Nat /\ spoiled \in Nat /\ bare \in Nat
  /\ erred \subseteq Orders

\* The detections of an event are all the rules of the repository that match
\* it, in repository order, short of those that raised: neither the index nor
\* a failing rule before them loses one, and '<>' and ip rules are no exception.
DetectionsExact ==
  event # None /\ todo = {} =>
    /\ \A i, j \in DOMAIN detections : i < j => detections[i] < detections[j]
    /\ ToSet(detections) = {o \in Orders : FailedStage(o, event) = None} \ erred

OutcomesBalance == stats["candidate_rules"] = Outcomes + Cardinality(todo)
ContentAccounting ==
  stats["content_evaluations"] + bare = stats["rules_rejected_content"] + stats["matches"] + spoiled
MatchesAreDetections == stats["matches"] = returned + Len(detections)

\* The statistics agree with what the evaluation did, also in the middle of it
\* and whatever raises: every candidate has exactly one outcome or is still to
\* be tested; the searches counted are those that ran to their end (the
\* rejected ones, those of the rules with contents that matched, those of the
\* rules that failed or were cut off afterwards); and the matches are the
\* detections returned and those in hand, which Ctrl+C loses.
StatisticsBalance == OutcomesBalance /\ ContentAccounting /\ MatchesAreDetections

\* "Every candidate ends in exactly one outcome, so after a run: candidate_rules
\* == ..." (EvaluationStats), which main() checks at the end of every run.  A
\* run that ends by Ctrl+C during an evaluation leaves candidates without one.
ConsistentAfterRun == ~running => is_consistent
=============================================================================
