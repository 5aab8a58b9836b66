----------------------------- MODULE FlowLedger -----------------------------
(***************************************************************************)
(* What the flow tracker promises to the writer of flows.jsonl, without    *)
(* times, keys, states or reasons: every packet belongs to one flow, a     *)
(* flow is live from its first packet until it is closed, it is closed     *)
(* once and with all its packets, and at most MaxLive flows are live.      *)
(* A flow is named by the number of the packet that opened it.             *)
(***************************************************************************)
EXTENDS Naturals, FiniteSets, Functions

CONSTANT MaxLive

VARIABLES live,     \* packets counted so far, by live flow
          closed,   \* the closed flows with their packets
          packets   \* packets seen so far

ledger == <<live, closed, packets>>

Entry(flow, n) == [flow |-> flow, packets |-> n]

LInit ==
  /\ live = [x \in {} |-> 0]
  /\ closed = {}
  /\ packets = 0

\* A packet may close flows other than its own, then is counted in its own
\* flow, live or new.
Count1(own, gone) ==
  /\ own \notin gone
  /\ packets' = packets + 1
  /\ live' = [x \in (DOMAIN live \ gone) \cup {own} |->
                IF x # own THEN live[x]
                ELSE IF own \in DOMAIN live THEN live[own] + 1 ELSE 1]
  /\ closed' = closed \cup {Entry(x, live[x]) : x \in gone}
  /\ Cardinality(DOMAIN live') <= MaxLive

Close(gone) ==
  /\ live' = Restrict(live, DOMAIN live \ gone)
  /\ closed' = closed \cup {Entry(x, live[x]) : x \in gone}
  /\ UNCHANGED packets

LNext ==
  \E gone \in SUBSET DOMAIN live :
    \/ \E own \in DOMAIN live \cup {packets + 1} : Count1(own, gone)
    \/ Close(gone)

LSpec == LInit /\ [][LNext]_ledger
=============================================================================
