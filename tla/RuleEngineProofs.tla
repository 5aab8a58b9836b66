-------------------------- MODULE RuleEngineProofs --------------------------
(***************************************************************************)
(* The index and the evaluation loop lose no detection, and the counters   *)
(* balance, for every rule set and every sequence of events.               *)
(*                                                                         *)
(* IndexComplete is about the operators alone: a rule whose header matches *)
(* a packet is one of the packet's candidates.  The inductive invariant    *)
(* adds to TypeOK what the loop has done so far (Progress: the detections  *)
(* are the matching candidates among those no longer to do) and the        *)
(* balance of the counters.                                                *)
(***************************************************************************)
EXTENDS RuleEngine, FiniteSetTheorems, WellFoundedInduction, SequenceTheorems, TLAPS

Ascending(s) == \A i, j \in 1..Len(s) : i < j => s[i] < s[j]

Matching(e) == {o \in candidates(e) : FailedStage(o, e) = None}

\* What the loop over the candidates of an event has done so far.
Progress ==
  /\ event = None => todo = {} /\ detections = <<>>
  /\ event # None =>
       /\ todo \subseteq candidates(event) /\ erred \cap todo = {}
       /\ Ascending(detections)
       /\ \A i \in 1..Len(detections) : \A t \in todo : detections[i] < t
       /\ {detections[i] : i \in 1..Len(detections)} = (Matching(event) \ todo) \ erred

IInv == TypeOK /\ Progress /\ StatisticsBalance

-----------------------------------------------------------------------------
(* The index *)

\* The index is complete: a rule whose header matches a packet is among the
\* candidates for the packet's protocol and destination port, '<>' rules and
\* ip rules included.
THEOREM IndexComplete ==
  ASSUME NEW e, NEW o \in Orders, match_header(Rules[o], e)
  PROVE  o \in candidates(e)
  <1>1. Rules[o].protocol \in Buckets(e.protocol)
    BY DEF match_header, Buckets
  <1>2. \E spec \in FiledUnder(Rules[o]) : InPorts(spec, e.dst.port)
    <2>1. CASE Covers(Rules[o].dst_ip, Rules[o].dst_port, e.dst)
      BY <2>1 DEF Covers, FiledUnder
    <2>2. CASE Rules[o].direction = "<>" /\ Covers(Rules[o].src_ip, Rules[o].src_port, e.dst)
      BY <2>2 DEF Covers, FiledUnder
    <2>3. QED
      BY <2>1, <2>2 DEF match_header
  <1>3. QED
    BY <1>1, <1>2 DEF candidates

LEMMA CandidatesFinite ==
  \A e : /\ candidates(e) \subseteq Orders
         /\ IsFiniteSet(candidates(e)) /\ Cardinality(candidates(e)) \in Nat
  <1> SUFFICES ASSUME NEW e
               PROVE  /\ candidates(e) \subseteq Orders
                      /\ IsFiniteSet(candidates(e)) /\ Cardinality(candidates(e)) \in Nat
    OBVIOUS
  <1>1. IsFiniteSet(Orders)
    BY EngineAssumption, FS_Interval DEF Orders
  <1>2. candidates(e) \subseteq Orders
    BY DEF candidates
  <1>3. QED
    BY <1>1, <1>2, FS_Subset, FS_CardinalityType

\* The matching candidates of a packet are the matching rules.
LEMMA MatchingIsAll ==
  \A e : Matching(e) = {o \in Orders : FailedStage(o, e) = None}
  <1>1. \A e : \A o \in Orders : FailedStage(o, e) = None => match_header(Rules[o], e)
    BY EngineAssumption DEF FailedStage
  <1>2. QED
    BY <1>1, IndexComplete, CandidatesFinite DEF Matching

LEMMA LeastExists ==
  ASSUME NEW S, S \subseteq Nat, S # {}
  PROVE  Min(S) \in S /\ \A x \in S : Min(S) <= x
  <1> DEFINE Below == {0..x : x \in S}
  <1>1. Below # {} /\ Below \subseteq FiniteSubsetsOf(Nat)
    <2>1. \A x \in S : 0..x \in SUBSET Nat
      OBVIOUS
    <2>2. \A x \in S : IsFiniteSet(0..x)
      BY FS_Interval
    <2>3. \A x \in S : 0..x \in FiniteSubsetsOf(Nat)
      BY <2>1, <2>2 DEF FiniteSubsetsOf
    <2>4. QED
      BY <2>3
  <1>2. PICK B \in Below : \A C \in Below : ~(<<C, B>> \in StrictSubsetOrdering(Nat))
    BY <1>1, FS_StrictSubsetOrderingWellFounded, WFMin
  <1>3. PICK m \in S : B = 0..m
    BY <1>2
  <1>4. ASSUME NEW x \in S, x < m PROVE FALSE
    <2>1. 0..x \subseteq 0..m /\ 0..x # 0..m /\ 0..x \subseteq Nat /\ 0..m \subseteq Nat
      <3>1. m \in 0..m /\ m \notin 0..x
        BY <1>4
      <3>2. QED
        BY <1>4, <3>1
    <2>2. <<0..x, B>> \in StrictSubsetOrdering(Nat)
      BY <1>3, <2>1 DEF StrictSubsetOrdering
    <2>3. QED
      BY <1>2, <2>2
  <1>5. \A x \in S : m <= x
    BY <1>4
  <1>6. QED
    BY <1>5 DEF Min

\* The rule under test is the first of those to be tested.
LEMMA RuleIsFirst ==
  TypeOK /\ todo # {} =>
    /\ Rule \in todo /\ Rule \in Orders /\ \A t \in todo \ {Rule} : Rule < t
    /\ IsFiniteSet(todo) /\ Cardinality(todo) \in Nat
    /\ Cardinality(todo \ {Rule}) + 1 = Cardinality(todo)
  <1> SUFFICES ASSUME TypeOK, todo # {}
               PROVE  /\ Rule \in todo /\ Rule \in Orders /\ \A t \in todo \ {Rule} : Rule < t
                      /\ IsFiniteSet(todo) /\ Cardinality(todo) \in Nat
                      /\ Cardinality(todo \ {Rule}) + 1 = Cardinality(todo)
    OBVIOUS
  <1>1. todo \subseteq Orders /\ Orders \subseteq Nat
    BY EngineAssumption DEF TypeOK, Orders
  <1>2. Rule \in todo /\ \A x \in todo : Rule <= x
    BY <1>1, LeastExists DEF Rule
  <1>3. IsFiniteSet(Orders)
    BY EngineAssumption, FS_Interval DEF Orders
  <1>4. IsFiniteSet(todo) /\ Cardinality(todo) \in Nat
    BY <1>1, <1>3, FS_Subset, FS_CardinalityType
  <1>5. Cardinality(todo \ {Rule}) = Cardinality(todo) - 1
    BY <1>2, <1>4, FS_RemoveElement
  <1>6. \A t \in todo \ {Rule} : Rule < t
    BY <1>1, <1>2
  <1> HIDE DEF Rule
  <1>7. QED
    BY <1>1, <1>2, <1>4, <1>5, <1>6
-----------------------------------------------------------------------------
(* Initialisation and the effect of a step on the counters *)

LEMMA InitInv == Init => IInv
  <1> SUFFICES ASSUME Init PROVE IInv
    OBVIOUS
  <1>1. TypeOK
    BY DEF Init, TypeOK
  <1>2. Progress
    BY DEF Init, Progress
  <1>3. Len(<<>>) = 0 /\ Cardinality({}) = 0
    BY FS_EmptySet
  <1>4. StatisticsBalance
    BY <1>3
       DEF Init, StatisticsBalance, OutcomesBalance, Outcomes, ContentAccounting, MatchesAreDetections, Counters
  <1>5. QED
    BY <1>1, <1>2, <1>4 DEF IInv

LEMMA CountedIs ==
  TypeOK => \A C : /\ Counted(C) \in [Counters -> Nat]
                   /\ \A c \in Counters : Counted(C)[c] = stats[c] + (IF c \in C THEN 1 ELSE 0)
  BY DEF TypeOK, Counted

LEMMA StageIs ==
  \A o, e : FailedStage(o, e) \in {"header", "flow", "packet", "content", None}
  BY DEF FailedStage

\* What the ways to test a rule have in common.
LEMMA TestedIs ==
  IInv /\ Testing =>
    /\ event \in Events /\ event # None
    /\ Rule \in todo /\ Rule \in Orders /\ Rule \in candidates(event) /\ Rule \notin erred
    /\ \A t \in todo' : Rule < t /\ t \in todo
    /\ todo' = todo \ {Rule}
    /\ Cardinality(todo) \in Nat /\ Cardinality(todo') \in Nat
    /\ Cardinality(todo') + 1 = Cardinality(todo)
  <1> SUFFICES ASSUME IInv, Testing
               PROVE  /\ event \in Events /\ event # None
                      /\ Rule \in todo /\ Rule \in Orders /\ Rule \in candidates(event)
                      /\ Rule \notin erred
                      /\ \A t \in todo' : Rule < t /\ t \in todo
                      /\ todo' = todo \ {Rule}
                      /\ Cardinality(todo) \in Nat /\ Cardinality(todo') \in Nat
                      /\ Cardinality(todo') + 1 = Cardinality(todo)
    OBVIOUS
  <1> HIDE DEF Rule
  <1>1. todo # {} /\ todo' = todo \ {Rule}
    BY DEF Testing
  <1>2. event # None /\ event \in Events
    BY <1>1 DEF IInv, Progress, TypeOK
  <1>3. /\ Rule \in todo /\ Rule \in Orders /\ \A t \in todo \ {Rule} : Rule < t
        /\ IsFiniteSet(todo) /\ Cardinality(todo) \in Nat
        /\ Cardinality(todo \ {Rule}) + 1 = Cardinality(todo)
    BY <1>1, RuleIsFirst DEF IInv
  <1>4. Cardinality(todo') \in Nat
    BY <1>1, <1>3, FS_Subset, FS_CardinalityType
  <1>5. Rule \in candidates(event) /\ Rule \notin erred
    BY <1>2, <1>3 DEF IInv, Progress
  <1>6. QED
    BY <1>1, <1>2, <1>3, <1>4, <1>5

-----------------------------------------------------------------------------
(* Every step keeps the invariant *)

LEMMA NextTypeOK == IInv /\ [Next]_vars => TypeOK'
  <1> SUFFICES ASSUME IInv, [Next]_vars PROVE TypeOK'
    OBVIOUS
  <1> HIDE DEF Rule
  <1>0. TypeOK /\ stats \in [Counters -> Nat] /\ detections \in Seq(Orders)
    BY DEF IInv, TypeOK
  <1>1. ASSUME NEW e \in Events, Skip(e) PROVE TypeOK'
    <2>1. stats' \in [Counters -> Nat]
      BY <1>0, <1>1, CountedIs DEF Skip
    <2>2. QED
      BY <1>0, <1>1, <2>1 DEF Skip, TypeOK
  <1>2. ASSUME NEW e \in Events, Begin(e) PROVE TypeOK'
    <2>1. todo' \subseteq Orders /\ Cardinality(todo') \in Nat
      BY <1>2, CandidatesFinite DEF Begin
    <2>2. stats' = [Counted({"events_evaluated"}) EXCEPT !["candidate_rules"] = @ + Cardinality(todo')]
      BY <1>2 DEF Begin
    <2>3. stats' \in [Counters -> Nat]
      <3>1. "candidate_rules" \in Counters
        BY DEF Counters
      <3>2. /\ Counted({"events_evaluated"}) \in [Counters -> Nat]
            /\ Counted({"events_evaluated"})["candidate_rules"] \in Nat
        BY <1>0, <3>1, CountedIs
      <3>3. QED
        BY <2>1, <2>2, <3>1, <3>2
    <2>4. QED
      BY <1>0, <1>2, <2>1, <2>3 DEF Begin, TypeOK
  <1>3. CASE Reject
    <2>1. Testing /\ \E C : stats' = Counted(C)
      BY <1>3 DEF Reject
    <2>2. stats' \in [Counters -> Nat]
      BY <1>0, <2>1, CountedIs
    <2>3. QED
      BY <1>0, <1>3, <2>1, <2>2 DEF Reject, Testing, TypeOK
  <1>4. CASE Match
    <2>1. stats' \in [Counters -> Nat]
      BY <1>0, <1>4, CountedIs DEF Match
    <2>2. Rule \in Orders
      BY <1>4, TestedIs DEF Match
    <2>3. detections' \in Seq(Orders)
      BY <1>0, <1>4, <2>2, AppendProperties DEF Match
    <2>4. QED
      <3>1. bare' \in Nat
        BY <1>0, <1>4 DEF Match, TypeOK
      <3>2. QED
        BY <1>0, <1>4, <2>1, <2>3, <3>1 DEF Match, Testing, TypeOK
  <1>5. CASE SearchRaises
    <2>1. stats' \in [Counters -> Nat] /\ Rule \in Orders
      BY <1>0, <1>5, CountedIs, TestedIs DEF SearchRaises
    <2>2. QED
      BY <1>0, <1>5, <2>1 DEF SearchRaises, Testing, TypeOK
  <1>6. CASE BuildRaises
    <2>1. stats' \in [Counters -> Nat] /\ Rule \in Orders
      BY <1>0, <1>6, CountedIs, TestedIs DEF BuildRaises
    <2>2. QED
      <3>1. spoiled' \in Nat
        BY <1>0, <1>6 DEF BuildRaises, TypeOK
      <3>2. QED
        BY <1>0, <1>6, <2>1, <3>1 DEF BuildRaises, Testing, TypeOK
  <1>7. CASE Finish
    BY <1>0, <1>7, EmptySeq, LenProperties DEF Finish, TypeOK
  <1>8. CASE Interrupt \/ UNCHANGED vars
    BY <1>0, <1>8 DEF Interrupt, vars, TypeOK
  <1>9. CASE InterruptTest
    <2>1. stats' \in [Counters -> Nat]
      BY <1>0, <1>9, CountedIs DEF InterruptTest
    <2>2. spoiled' \in Nat
      BY <1>0, <1>9 DEF InterruptTest, TypeOK
    <2>3. QED
      BY <1>0, <1>9, <2>1, <2>2 DEF InterruptTest, TypeOK
  <1>10. QED
    BY <1>1, <1>2, <1>3, <1>4, <1>5, <1>6, <1>7, <1>8, <1>9 DEF Next

LEMMA NextProgress == IInv /\ [Next]_vars => Progress'
  <1> SUFFICES ASSUME IInv, [Next]_vars PROVE Progress'
    OBVIOUS
  <1> HIDE DEF Rule
  <1>0. Progress /\ None \notin Events /\ detections \in Seq(Orders) /\ Len(detections) \in Nat
    BY EngineAssumption, LenProperties DEF IInv, TypeOK
  <1>1. ASSUME NEW e \in Events, Skip(e) PROVE Progress'
    BY <1>0, <1>1 DEF Skip, Progress
  <1>2. ASSUME NEW e \in Events, Begin(e) PROVE Progress'
    BY <1>0, <1>2 DEF Begin, Progress, Matching, Ascending
  <1>3. CASE Reject
    <2>1. Testing /\ UNCHANGED <<event, detections, erred>> /\ FailedStage(Rule, event) # None
      BY <1>3 DEF Reject
    <2>2. Rule \notin Matching(event)
      BY <2>1 DEF Matching
    <2>3. Matching(event) \ todo' = Matching(event) \ todo /\ todo' \subseteq todo /\ event # None
      BY <2>1, <2>2, TestedIs
    <2>4. QED
      BY <1>0, <2>1, <2>3 DEF Progress
  <1>4. CASE Match
    <2>1. /\ Testing /\ UNCHANGED <<event, erred>> /\ FailedStage(Rule, event) = None
          /\ detections' = Append(detections, Rule)
      BY <1>4 DEF Match
    <2>2. /\ event # None /\ Rule \in todo /\ Rule \in Orders /\ Rule \in Matching(event)
          /\ Rule \notin erred /\ todo' = todo \ {Rule}
          /\ \A t \in todo' : Rule < t /\ t \in todo
      BY <2>1, TestedIs DEF Matching
    <2>3. /\ Len(detections') = Len(detections) + 1
          /\ \A i \in 1..Len(detections) : detections'[i] = detections[i]
          /\ detections'[Len(detections) + 1] = Rule
      BY <1>0, <2>1, <2>2, AppendProperties
    <2>4. \A i \in 1..Len(detections') : i \in 1..Len(detections) \/ i = Len(detections) + 1
      BY <1>0, <2>3
    <2>5. Ascending(detections')
      <3>1. \A i \in 1..Len(detections) : detections[i] < Rule
        BY <1>0, <2>2 DEF Progress
      <3>2. ASSUME NEW i \in 1..Len(detections'), NEW j \in 1..Len(detections'), i < j
            PROVE  detections'[i] < detections'[j]
        <4>1. i \in 1..Len(detections)
          BY <1>0, <2>3, <3>2
        <4>2. CASE j \in 1..Len(detections)
          BY <1>0, <2>2, <2>3, <3>2, <4>1, <4>2 DEF Progress, Ascending
        <4>3. CASE j = Len(detections) + 1
          BY <2>3, <3>1, <4>1, <4>3
        <4>4. QED
          BY <2>4, <4>2, <4>3
      <3>3. QED
        BY <3>2 DEF Ascending
    <2>6. \A i \in 1..Len(detections') : \A t \in todo' : detections'[i] < t
      BY <1>0, <2>2, <2>3, <2>4 DEF Progress
    <2>7. {detections'[i] : i \in 1..Len(detections')}
            = {detections[i] : i \in 1..Len(detections)} \cup {Rule}
      <3>1. Len(detections) + 1 \in 1..Len(detections')
            /\ \A i \in 1..Len(detections) : i \in 1..Len(detections')
        BY <1>0, <2>3
      <3>2. QED
        BY <2>3, <2>4, <3>1
    <2>8. Matching(event) \ todo' = (Matching(event) \ todo) \cup {Rule}
      BY <2>2
    <2>9. {detections'[i] : i \in 1..Len(detections')} = (Matching(event) \ todo') \ erred
      BY <1>0, <2>2, <2>7, <2>8 DEF Progress
    <2>10. todo' \subseteq candidates(event) /\ erred \cap todo' = {}
      BY <1>0, <2>2 DEF Progress
    <2>11. QED
      BY <2>1, <2>2, <2>5, <2>6, <2>9, <2>10 DEF Progress
  <1>5. CASE SearchRaises \/ BuildRaises
    <2>1. /\ Testing /\ UNCHANGED <<event, detections>> /\ erred' = erred \cup {Rule}
      BY <1>5 DEF SearchRaises, BuildRaises
    <2>2. event # None /\ Rule \in todo /\ todo' = todo \ {Rule}
      BY <2>1, TestedIs
    <2>3. (Matching(event) \ todo') \ erred' = (Matching(event) \ todo) \ erred
      BY <2>1, <2>2
    <2>4. todo' \subseteq candidates(event) /\ erred' \cap todo' = {} /\ todo' \subseteq todo
      BY <1>0, <2>1, <2>2 DEF Progress
    <2>5. QED
      BY <1>0, <2>1, <2>2, <2>3, <2>4 DEF Progress
  <1>6. CASE Finish
    BY <1>0, <1>6 DEF Finish, Progress
  <1>7. CASE Interrupt \/ UNCHANGED vars
    BY <1>0, <1>7 DEF Interrupt, vars, Progress
  <1>8. CASE InterruptTest
    BY <1>0, <1>8 DEF InterruptTest, Progress
  <1>9. QED
    BY <1>1, <1>2, <1>3, <1>4, <1>5, <1>6, <1>7, <1>8 DEF Next

One(c, C) == IF c \in C THEN 1 ELSE 0

\* The counters the equations are about, in a step that counts C.
Moved(C) ==
  /\ stats'["candidate_rules"] = stats["candidate_rules"] + One("candidate_rules", C)
  /\ Outcomes' = Outcomes + One("rules_rejected_header", C) + One("rules_rejected_flow", C)
                   + One("rules_rejected_packet", C) + One("rules_rejected_content", C)
                   + One("matches", C) + One("rule_errors", C)
  /\ stats'["content_evaluations"] = stats["content_evaluations"] + One("content_evaluations", C)
  /\ stats'["rules_rejected_content"] = stats["rules_rejected_content"] + One("rules_rejected_content", C)
  /\ stats'["matches"] = stats["matches"] + One("matches", C)

LEMMA CountersAre ==
  TypeOK =>
    /\ stats["candidate_rules"] \in Nat /\ Outcomes \in Nat /\ stats["content_evaluations"] \in Nat
    /\ stats["rules_rejected_content"] \in Nat /\ stats["matches"] \in Nat
    /\ \A C : stats' = Counted(C) => Moved(C)
  <1> SUFFICES ASSUME TypeOK
      PROVE
        /\ stats["candidate_rules"] \in Nat /\ Outcomes \in Nat /\ stats["content_evaluations"] \in Nat
        /\ stats["rules_rejected_content"] \in Nat /\ stats["matches"] \in Nat
        /\ \A C : stats' = Counted(C) => Moved(C)
    OBVIOUS
  <1>1. \A c \in Counters : stats[c] \in Nat
    BY DEF TypeOK
  <1>2. \A C : \A c \in Counters : Counted(C)[c] = stats[c] + One(c, C) /\ One(c, C) \in Nat
    BY CountedIs DEF One
  <1> HIDE DEF One
  <1>3. QED
    BY <1>1, <1>2 DEF Counters, Outcomes, Moved

LEMMA NextBalance == IInv /\ [Next]_vars => StatisticsBalance'
  <1> SUFFICES ASSUME IInv, [Next]_vars PROVE StatisticsBalance'
    OBVIOUS
  <1> HIDE DEF Rule
  <1>0. /\ stats["candidate_rules"] \in Nat /\ Outcomes \in Nat /\ stats["content_evaluations"] \in Nat
        /\ stats["rules_rejected_content"] \in Nat /\ stats["matches"] \in Nat
        /\ OutcomesBalance /\ ContentAccounting /\ MatchesAreDetections
        /\ spoiled \in Nat /\ bare \in Nat /\ returned \in Nat
        /\ detections \in Seq(Orders) /\ Len(detections) \in Nat
    BY CountersAre, LenProperties DEF IInv, TypeOK, StatisticsBalance
  <1>eq. /\ stats["content_evaluations"] \in Nat /\ bare \in Nat /\ spoiled \in Nat
         /\ stats["rules_rejected_content"] \in Nat /\ stats["matches"] \in Nat
         /\ stats["content_evaluations"] + bare
              = stats["rules_rejected_content"] + stats["matches"] + spoiled
    BY <1>0 DEF ContentAccounting
  <1>1. ASSUME NEW e \in Events, Skip(e) PROVE StatisticsBalance'
    <2>1. stats' = Counted({"events_skipped"})
      BY <1>1 DEF Skip
    <2>2. /\ stats'["candidate_rules"] = stats["candidate_rules"]
         /\ Outcomes' = Outcomes
         /\ stats'["content_evaluations"] = stats["content_evaluations"]
         /\ stats'["rules_rejected_content"] = stats["rules_rejected_content"]
         /\ stats'["matches"] = stats["matches"]
      <3>1. Moved({"events_skipped"})
        BY <2>1, CountersAre DEF IInv
      <3>2. QED
        BY <1>0, <3>1 DEF Moved, One
    <2>3. UNCHANGED <<todo, detections, returned, spoiled, bare>>
      BY <1>1 DEF Skip
    <2>4. OutcomesBalance'
      BY <1>0, <2>2, <2>3 DEF OutcomesBalance
    <2>5. ContentAccounting'
      BY <1>0, <2>2, <2>3 DEF ContentAccounting
    <2>6. MatchesAreDetections'
      BY <1>0, <2>2, <2>3 DEF MatchesAreDetections
    <2>7. QED
      BY <2>4, <2>5, <2>6 DEF StatisticsBalance
  <1>2. ASSUME NEW e \in Events, Begin(e) PROVE StatisticsBalance'
    <2>1. /\ Cardinality(todo') \in Nat
          /\ stats' = [Counted({"events_evaluated"}) EXCEPT !["candidate_rules"] = @ + Cardinality(todo')]
          /\ UNCHANGED <<returned, spoiled, bare>> /\ detections' = <<>>
          /\ todo = {} /\ detections = <<>>
      BY <1>2, CandidatesFinite DEF Begin, IInv, Progress
    <2>2. /\ Counted({"events_evaluated"}) \in [Counters -> Nat]
          /\ \A c \in Counters \ {"events_evaluated"} : Counted({"events_evaluated"})[c] = stats[c]
      BY <1>0, CountedIs DEF IInv, TypeOK
    <2>3. /\ stats'["candidate_rules"] = stats["candidate_rules"] + Cardinality(todo')
          /\ \A c \in Counters \ {"events_evaluated", "candidate_rules"} : stats'[c] = stats[c]
      <3>1. "candidate_rules" \in Counters \ {"events_evaluated"}
        BY DEF Counters
      <3>2. QED
        BY <2>1, <2>2, <3>1
    <2>4. /\ Outcomes' = Outcomes
          /\ stats'["content_evaluations"] = stats["content_evaluations"]
          /\ stats'["rules_rejected_content"] = stats["rules_rejected_content"]
          /\ stats'["matches"] = stats["matches"]
      BY <2>3 DEF Counters, Outcomes
    <2>5. Cardinality(todo) = 0 /\ Len(detections') = Len(detections)
      BY <2>1, FS_EmptySet
    <2>6. OutcomesBalance'
      BY <1>0, <2>1, <2>3, <2>4, <2>5 DEF OutcomesBalance
    <2>7. ContentAccounting'
      BY <1>0, <2>1, <2>3, <2>4, <2>5 DEF ContentAccounting
    <2>8. MatchesAreDetections'
      BY <1>0, <2>1, <2>3, <2>4, <2>5 DEF MatchesAreDetections
    <2>9. QED
      BY <2>6, <2>7, <2>8 DEF StatisticsBalance
  <1>3. CASE Reject
    <2>1. PICK stage : /\ stage = FailedStage(Rule, event) /\ stage # None
                       /\ stats' = Counted({rejected(stage)} \cup IF stage = "content" THEN Searched ELSE {})
      BY <1>3 DEF Reject
    <2>2. stage \in {"header", "flow", "packet", "content"}
      BY <2>1, StageIs
    <2>3. /\ Testing /\ UNCHANGED <<detections, returned, spoiled, bare>>
          /\ Cardinality(todo) \in Nat /\ Cardinality(todo') \in Nat
          /\ Cardinality(todo') + 1 = Cardinality(todo)
      BY <1>3, TestedIs DEF Reject
    <2>4. CASE stage = "content"
      <3>1. Searched = {"content_evaluations"}
        BY <2>1, <2>4 DEF FailedStage, Searched
      <3>2. rejected(stage) = "rules_rejected_content"
        BY <2>4 DEF rejected
      <3>3. stats' = Counted({"rules_rejected_content", "content_evaluations"})
        <4>1. {rejected(stage)} \cup (IF stage = "content" THEN Searched ELSE {})
                = {"rules_rejected_content", "content_evaluations"}
          BY <2>4, <3>1, <3>2
        <4>2. QED
          BY <2>1, <4>1
      <3>4. /\ stats'["candidate_rules"] = stats["candidate_rules"]
           /\ Outcomes' = Outcomes + 1
           /\ stats'["content_evaluations"] = stats["content_evaluations"] + 1
           /\ stats'["rules_rejected_content"] = stats["rules_rejected_content"] + 1
           /\ stats'["matches"] = stats["matches"]
        <4>1. Moved({"rules_rejected_content", "content_evaluations"})
          BY <3>3, CountersAre DEF IInv
        <4>2. QED
          BY <1>0, <4>1 DEF Moved, One
      <3>5. OutcomesBalance'
        BY <1>0, <2>3, <3>4 DEF OutcomesBalance
      <3>6. ContentAccounting'
        <4>1. (stats["content_evaluations"] + 1) + bare
               = (stats["rules_rejected_content"] + 1) + stats["matches"] + spoiled
          BY <1>eq
        <4>2. QED
          BY <2>3, <3>4, <4>1 DEF ContentAccounting
      <3>7. MatchesAreDetections'
        BY <1>0, <2>3, <3>4 DEF MatchesAreDetections
      <3>8. QED
        BY <3>5, <3>6, <3>7 DEF StatisticsBalance
    <2>5. CASE stage # "content"
      <3>1. PICK r \in {"rules_rejected_header", "rules_rejected_flow", "rules_rejected_packet"} :
              stats' = Counted({r})
        <4>1. rejected(stage) \in {"rules_rejected_header", "rules_rejected_flow", "rules_rejected_packet"}
          BY <2>2, <2>5 DEF rejected
        <4>2. {rejected(stage)} \cup (IF stage = "content" THEN Searched ELSE {}) = {rejected(stage)}
          BY <2>5
        <4>3. QED
          BY <2>1, <4>1, <4>2
      <3>2. /\ stats'["candidate_rules"] = stats["candidate_rules"]
           /\ Outcomes' = Outcomes + 1
           /\ stats'["content_evaluations"] = stats["content_evaluations"]
           /\ stats'["rules_rejected_content"] = stats["rules_rejected_content"]
           /\ stats'["matches"] = stats["matches"]
        <4>1. Moved({r})
          BY <3>1, CountersAre DEF IInv
        <4>2. QED
          BY <1>0, <4>1 DEF Moved, One
      <3>3. OutcomesBalance'
        BY <1>0, <2>3, <3>2 DEF OutcomesBalance
      <3>4. ContentAccounting'
        BY <1>0, <2>3, <3>2 DEF ContentAccounting
      <3>5. MatchesAreDetections'
        BY <1>0, <2>3, <3>2 DEF MatchesAreDetections
      <3>6. QED
        BY <3>3, <3>4, <3>5 DEF StatisticsBalance
    <2>6. QED
      BY <2>4, <2>5
  <1>4. CASE Match
    <2>1. /\ Testing /\ UNCHANGED <<returned, spoiled>>
          /\ detections' = Append(detections, Rule)
          /\ bare' = bare + (IF Rules[Rule].contents THEN 0 ELSE 1)
          /\ stats' = Counted({"matches"} \cup Searched)
      BY <1>4 DEF Match
    <2>2. /\ Cardinality(todo) \in Nat /\ Cardinality(todo') \in Nat
          /\ Cardinality(todo') + 1 = Cardinality(todo) /\ Rule \in Orders
      BY <2>1, TestedIs
    <2>3. Len(detections') = Len(detections) + 1
      BY <1>0, <2>1, <2>2, AppendProperties
    <2>4. CASE Rules[Rule].contents
      <3>1. Searched = {"content_evaluations"} /\ bare' = bare
        BY <1>0, <2>1, <2>4 DEF Searched
      <3>2. stats' = Counted({"matches", "content_evaluations"})
        <4>1. {"matches"} \cup Searched = {"matches", "content_evaluations"}
          BY <3>1
        <4>2. QED
          BY <2>1, <4>1
      <3>3. /\ stats'["candidate_rules"] = stats["candidate_rules"]
           /\ Outcomes' = Outcomes + 1
           /\ stats'["content_evaluations"] = stats["content_evaluations"] + 1
           /\ stats'["rules_rejected_content"] = stats["rules_rejected_content"]
           /\ stats'["matches"] = stats["matches"] + 1
        <4>1. Moved({"matches", "content_evaluations"})
          BY <3>2, CountersAre DEF IInv
        <4>2. QED
          BY <1>0, <4>1 DEF Moved, One
      <3>4. OutcomesBalance'
        BY <1>0, <2>1, <2>2, <2>3, <3>1, <3>3 DEF OutcomesBalance
      <3>5. ContentAccounting'
        <4>1. (stats["content_evaluations"] + 1) + bare
               = stats["rules_rejected_content"] + (stats["matches"] + 1) + spoiled
          BY <1>eq
        <4>2. QED
          BY <2>1, <2>2, <2>3, <3>1, <3>3, <4>1 DEF ContentAccounting
      <3>6. MatchesAreDetections'
        BY <1>0, <2>1, <2>2, <2>3, <3>1, <3>3 DEF MatchesAreDetections
      <3>7. QED
        BY <3>4, <3>5, <3>6 DEF StatisticsBalance
    <2>5. CASE ~Rules[Rule].contents
      <3>1. Searched = {} /\ bare' = bare + 1
        BY <1>0, <2>1, <2>5 DEF Searched
      <3>2. stats' = Counted({"matches"})
        <4>1. {"matches"} \cup Searched = {"matches"}
          BY <3>1
        <4>2. QED
          BY <2>1, <4>1
      <3>3. /\ stats'["candidate_rules"] = stats["candidate_rules"]
           /\ Outcomes' = Outcomes + 1
           /\ stats'["content_evaluations"] = stats["content_evaluations"]
           /\ stats'["rules_rejected_content"] = stats["rules_rejected_content"]
           /\ stats'["matches"] = stats["matches"] + 1
        <4>1. Moved({"matches"})
          BY <3>2, CountersAre DEF IInv
        <4>2. QED
          BY <1>0, <4>1 DEF Moved, One
      <3>4. OutcomesBalance'
        BY <1>0, <2>1, <2>2, <2>3, <3>1, <3>3 DEF OutcomesBalance
      <3>5. ContentAccounting'
        <4>1. stats["content_evaluations"] + (bare + 1)
               = stats["rules_rejected_content"] + (stats["matches"] + 1) + spoiled
          BY <1>eq
        <4>2. QED
          BY <2>1, <2>2, <2>3, <3>1, <3>3, <4>1 DEF ContentAccounting
      <3>6. MatchesAreDetections'
        BY <1>0, <2>1, <2>2, <2>3, <3>1, <3>3 DEF MatchesAreDetections
      <3>7. QED
        BY <3>4, <3>5, <3>6 DEF StatisticsBalance
    <2>6. QED
      BY <2>4, <2>5
  <1>5. CASE SearchRaises
    <2>1. /\ Testing /\ UNCHANGED <<detections, returned, spoiled, bare>>
          /\ stats' = Counted({"rule_errors"})
      BY <1>5 DEF SearchRaises
    <2>2. /\ Cardinality(todo) \in Nat /\ Cardinality(todo') \in Nat
          /\ Cardinality(todo') + 1 = Cardinality(todo)
      BY <2>1, TestedIs
    <2>3. /\ stats'["candidate_rules"] = stats["candidate_rules"]
         /\ Outcomes' = Outcomes + 1
         /\ stats'["content_evaluations"] = stats["content_evaluations"]
         /\ stats'["rules_rejected_content"] = stats["rules_rejected_content"]
         /\ stats'["matches"] = stats["matches"]
      <3>1. Moved({"rule_errors"})
        BY <2>1, CountersAre DEF IInv
      <3>2. QED
        BY <1>0, <3>1 DEF Moved, One
    <2>4. OutcomesBalance'
      BY <1>0, <2>1, <2>2, <2>3 DEF OutcomesBalance
    <2>5. ContentAccounting'
      BY <1>0, <2>1, <2>2, <2>3 DEF ContentAccounting
    <2>6. MatchesAreDetections'
      BY <1>0, <2>1, <2>2, <2>3 DEF MatchesAreDetections
    <2>7. QED
      BY <2>4, <2>5, <2>6 DEF StatisticsBalance
  <1>6. CASE BuildRaises
    <2>1. /\ Testing /\ UNCHANGED <<detections, returned, bare>>
          /\ spoiled' = spoiled + (IF Rules[Rule].contents THEN 1 ELSE 0)
          /\ stats' = Counted({"rule_errors"} \cup Searched)
      BY <1>6 DEF BuildRaises
    <2>2. /\ Cardinality(todo) \in Nat /\ Cardinality(todo') \in Nat
          /\ Cardinality(todo') + 1 = Cardinality(todo) /\ Rule \in Orders
      BY <2>1, TestedIs
    <2>3. CASE Rules[Rule].contents
      <3>1. Searched = {"content_evaluations"} /\ spoiled' = spoiled + 1
        BY <1>0, <2>1, <2>3 DEF Searched
      <3>2. stats' = Counted({"rule_errors", "content_evaluations"})
        <4>1. {"rule_errors"} \cup Searched = {"rule_errors", "content_evaluations"}
          BY <3>1
        <4>2. QED
          BY <2>1, <4>1
      <3>3. /\ stats'["candidate_rules"] = stats["candidate_rules"]
           /\ Outcomes' = Outcomes + 1
           /\ stats'["content_evaluations"] = stats["content_evaluations"] + 1
           /\ stats'["rules_rejected_content"] = stats["rules_rejected_content"]
           /\ stats'["matches"] = stats["matches"]
        <4>1. Moved({"rule_errors", "content_evaluations"})
          BY <3>2, CountersAre DEF IInv
        <4>2. QED
          BY <1>0, <4>1 DEF Moved, One
      <3>4. OutcomesBalance'
        BY <1>0, <2>1, <2>2, <3>1, <3>3 DEF OutcomesBalance
      <3>5. ContentAccounting'
        <4>1. (stats["content_evaluations"] + 1) + bare
               = stats["rules_rejected_content"] + stats["matches"] + (spoiled + 1)
          BY <1>eq
        <4>2. QED
          BY <2>1, <2>2, <3>1, <3>3, <4>1 DEF ContentAccounting
      <3>6. MatchesAreDetections'
        BY <1>0, <2>1, <2>2, <3>1, <3>3 DEF MatchesAreDetections
      <3>7. QED
        BY <3>4, <3>5, <3>6 DEF StatisticsBalance
    <2>4. CASE ~Rules[Rule].contents
      <3>1. Searched = {} /\ spoiled' = spoiled
        BY <1>0, <2>1, <2>4 DEF Searched
      <3>2. stats' = Counted({"rule_errors"})
        <4>1. {"rule_errors"} \cup Searched = {"rule_errors"}
          BY <3>1
        <4>2. QED
          BY <2>1, <4>1
      <3>3. /\ stats'["candidate_rules"] = stats["candidate_rules"]
           /\ Outcomes' = Outcomes + 1
           /\ stats'["content_evaluations"] = stats["content_evaluations"]
           /\ stats'["rules_rejected_content"] = stats["rules_rejected_content"]
           /\ stats'["matches"] = stats["matches"]
        <4>1. Moved({"rule_errors"})
          BY <3>2, CountersAre DEF IInv
        <4>2. QED
          BY <1>0, <4>1 DEF Moved, One
      <3>4. OutcomesBalance'
        BY <1>0, <2>1, <2>2, <3>1, <3>3 DEF OutcomesBalance
      <3>5. ContentAccounting'
        BY <1>0, <2>1, <2>2, <3>1, <3>3 DEF ContentAccounting
      <3>6. MatchesAreDetections'
        BY <1>0, <2>1, <2>2, <3>1, <3>3 DEF MatchesAreDetections
      <3>7. QED
        BY <3>4, <3>5, <3>6 DEF StatisticsBalance
    <2>5. QED
      BY <2>3, <2>4
  <1>7. CASE Finish
    <2>1. /\ returned' = returned + Len(detections) /\ Len(detections') = 0
          /\ UNCHANGED <<todo, stats, spoiled, bare>>
      BY <1>7, EmptySeq DEF Finish
    <2>2. Outcomes' = Outcomes
      BY <2>1 DEF Outcomes
    <2>3. OutcomesBalance'
      BY <1>0, <2>1, <2>2 DEF OutcomesBalance
    <2>4. ContentAccounting'
      BY <1>0, <2>1, <2>2 DEF ContentAccounting
    <2>5. MatchesAreDetections'
      BY <1>0, <2>1, <2>2 DEF MatchesAreDetections
    <2>6. QED
      BY <2>3, <2>4, <2>5 DEF StatisticsBalance
  <1>8. CASE Interrupt \/ UNCHANGED vars
    BY <1>0, <1>8 DEF Interrupt, vars, StatisticsBalance, OutcomesBalance, Outcomes, ContentAccounting,
                      MatchesAreDetections
  <1>9. CASE InterruptTest
    <2>1. /\ UNCHANGED <<todo, detections, returned, bare>> /\ spoiled' = spoiled + 1
          /\ stats' = Counted({"content_evaluations"})
      BY <1>9 DEF InterruptTest, Searched
    <2>2. /\ stats'["candidate_rules"] = stats["candidate_rules"]
          /\ Outcomes' = Outcomes
          /\ stats'["content_evaluations"] = stats["content_evaluations"] + 1
          /\ stats'["rules_rejected_content"] = stats["rules_rejected_content"]
          /\ stats'["matches"] = stats["matches"]
      <3>1. Moved({"content_evaluations"})
        BY <2>1, CountersAre DEF IInv
      <3>2. QED
        BY <1>0, <3>1 DEF Moved, One
    <2>3. OutcomesBalance'
      BY <1>0, <2>1, <2>2 DEF OutcomesBalance
    <2>4. ContentAccounting'
      <3>1. (stats["content_evaluations"] + 1) + bare
             = stats["rules_rejected_content"] + stats["matches"] + (spoiled + 1)
        BY <1>eq
      <3>2. QED
        BY <2>1, <2>2, <3>1 DEF ContentAccounting
    <2>5. MatchesAreDetections'
      BY <1>0, <2>1, <2>2 DEF MatchesAreDetections
    <2>6. QED
      BY <2>3, <2>4, <2>5 DEF StatisticsBalance
  <1>10. QED
    BY <1>1, <1>2, <1>3, <1>4, <1>5, <1>6, <1>7, <1>8, <1>9 DEF Next

-----------------------------------------------------------------------------
(* Theorems *)

\* The inductive invariant.
THEOREM EngineInvariant == Spec => []IInv
  <1>1. IInv /\ [Next]_vars => IInv'
    BY NextTypeOK, NextProgress, NextBalance DEF IInv
  <1>2. QED
    BY InitInv, <1>1, PTL DEF Spec

\* Every variable of the engine has its type.
THEOREM EngineTypeCorrect == Spec => []TypeOK
  <1>1. IInv => TypeOK
    BY DEF IInv
  <1>2. QED
    BY EngineInvariant, <1>1, PTL

\* The detections of an event are exactly the rules of the repository that
\* match it and did not raise, in repository order (src/engine/evaluator.py).
THEOREM DetectionsAreExact == Spec => []DetectionsExact
  <1>1. IInv => DetectionsExact
    <2> SUFFICES ASSUME IInv, event # None, todo = {}
                 PROVE  /\ \A i, j \in DOMAIN detections : i < j => detections[i] < detections[j]
                        /\ ToSet(detections) = {o \in Orders : FailedStage(o, event) = None} \ erred
      BY DEF DetectionsExact
    <2>1. DOMAIN detections = 1..Len(detections)
      BY LenProperties DEF IInv, TypeOK
    <2>2. /\ Ascending(detections)
          /\ {detections[i] : i \in 1..Len(detections)} = Matching(event) \ erred
      BY DEF IInv, Progress
    <2>3. ToSet(detections) = {detections[i] : i \in 1..Len(detections)}
      BY <2>1 DEF ToSet
    <2>4. QED
      BY <2>1, <2>2, <2>3, MatchingIsAll DEF Ascending
  <1>2. QED
    BY EngineInvariant, <1>1, PTL

\* The equations of EvaluationStats (src/engine/stats.py) hold between events,
\* and during an evaluation up to exactly the candidates still to be tested;
\* stats.matches equals the number of detections returned, and those in hand.
THEOREM StatisticsAlwaysBalance == Spec => []StatisticsBalance
  <1>1. IInv => StatisticsBalance
    BY DEF IInv
  <1>2. QED
    BY EngineInvariant, <1>1, PTL
=============================================================================
