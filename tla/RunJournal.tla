----------------------------- MODULE RunJournal -----------------------------
(***************************************************************************)
(* What a run promises to whoever reads its three JSONL files, without     *)
(* packets, stages or failures.  Packets are taken one at a time; the      *)
(* flows are dealt with first, then the detections of the packet are       *)
(* written in rule order, then its line, if it gets one.  A flow is opened *)
(* while there is room, leaves once, and is written before another leaves, *)
(* or never.  The files only grow.                                         *)
(***************************************************************************)
EXTENDS Integers, Sequences, FiniteSets

CONSTANTS MaxOpen, NoFlow, Rules

VARIABLES phase,    \* "idle", "tracking" or "matching" a packet, or "over"
          taken,    \* packets so far; the last one is in hand unless idle
          opened,   \* flows so far
          open,     \* those that are active
          out,      \* the one that has left and is not yet written, or NoFlow
          flows, detections, events   \* the lines of the files

journal == <<phase, taken, opened, open, out, flows, detections, events>>

JInit ==
  /\ phase = "idle" /\ taken = 0
  /\ opened = 0 /\ open = {} /\ out = NoFlow
  /\ flows = <<>> /\ detections = <<>> /\ events = <<>>

Take ==
  /\ phase = "idle" /\ phase' = "tracking"
  /\ taken' = taken + 1
  /\ UNCHANGED <<opened, open, out, flows, detections, events>>

Begin ==
  /\ phase = "tracking" /\ out = NoFlow
  /\ Cardinality(open) < MaxOpen
  /\ opened' = opened + 1
  /\ open' = open \cup {opened + 1}
  /\ UNCHANGED <<phase, taken, out, flows, detections, events>>

\* No flow ends between two packets, or while detections are written.
End(flow) ==
  /\ phase \in {"tracking", "over"} /\ out = NoFlow
  /\ open' = open \ {flow} /\ out' = flow
  /\ UNCHANGED <<phase, taken, opened, flows, detections, events>>

Deliver ==
  /\ out # NoFlow /\ out' = NoFlow
  /\ flows' \in {flows, Append(flows, out)}
  /\ UNCHANGED <<phase, taken, opened, open, detections, events>>

Match ==
  /\ phase = "tracking" /\ out = NoFlow /\ phase' = "matching"
  /\ UNCHANGED <<taken, opened, open, out, flows, detections, events>>

Detect(rule) ==
  /\ phase = "matching"
  /\ \A i \in DOMAIN detections : detections[i][1] = taken => detections[i][2] < rule
  /\ detections' = Append(detections, <<taken, rule>>)
  /\ UNCHANGED <<phase, taken, opened, open, out, flows, events>>

Finish ==
  /\ \/ phase = "matching" /\ events' \in {events, Append(events, taken)}
     \/ phase = "tracking" /\ out = NoFlow /\ UNCHANGED events
  /\ phase' = "idle"
  /\ UNCHANGED <<taken, opened, open, out, flows, detections>>

\* A packet in hand is given up, a flow on its way out is lost.
Stop ==
  /\ phase # "over" /\ phase' = "over"
  /\ out' = NoFlow
  /\ UNCHANGED <<taken, opened, open, flows, detections, events>>

JNext ==
  \/ Take \/ Begin \/ Deliver \/ Match \/ Finish \/ Stop
  \/ \E flow \in open : End(flow)
  \/ \E rule \in Rules : Detect(rule)

JSpec == JInit /\ [][JNext]_journal
=============================================================================
