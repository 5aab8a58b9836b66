------------------------- MODULE ContentMatchProofs -------------------------
(***************************************************************************)
(* The content search is right on every payload and every list of          *)
(* contents: it finds the first way to place them, or there is none.       *)
(*                                                                         *)
(* The inductive invariant says what a frame of the stack has settled:     *)
(* every chain that goes on from where the frame began places the frame's  *)
(* content at the position on the path or at a later one.  A frame that    *)
(* runs out of positions therefore proves that its state is hopeless.      *)
(***************************************************************************)
EXTENDS ContentMatch, FiniteSetTheorems, WellFoundedInduction, SequenceTheorems, TLAPS

-----------------------------------------------------------------------------
(* The inductive invariant *)

\* The window Enter opens.
Window(i, prev) ==
  IF is_relative(contents[i]) THEN relative_window(contents[i], prev) ELSE absolute_window(contents[i])

\* Where the content before the i-th one ended, on the current path.
EndBefore(i) == IF i = 1 THEN 0 ELSE MatchEnd(contents[i - 1], path[i - 1])

\* The path and the stack fit together, and the call's argument is the end of
\* the path.
Shape ==
  /\ pc \in {"call", "search", "backtrack"} => contents # <<>>
  /\ pc = "start" => stack = <<>> /\ path = <<>> /\ failed = {} /\ pushes = 0 /\ prev_end = 0
  /\ pc = "call" => /\ Len(path) = Len(stack)
                    /\ prev_end = EndBefore(Len(stack) + 1)
                    /\ stack = <<>> => failed = {}
  /\ pc = "search" => Len(stack) = Len(path) + 1
  /\ pc = "backtrack" => stack # <<>> /\ Len(path) = Len(stack)

\* A frame belongs to its place on the path.
Placed(i) ==
  LET prev == EndBefore(i)
  IN /\ stack[i].state = State(i, prev)
     /\ stack[i].start >= Window(i, prev).start
     /\ stack[i].end = Window(i, prev).end
     /\ i \in DOMAIN path => /\ Fits(contents[i], path[i], prev)
                             /\ stack[i].start = path[i] + 1

\* The positions a frame has left behind lead nowhere.
Settled(i) ==
  \A c \in ChainsFrom(i, EndBefore(i)) :
    c[i] >= stack[i].start \/ (i \in DOMAIN path /\ c[i] = path[i])

AllPlaced == \A i \in DOMAIN stack : Placed(i)

AllSettled == \A i \in DOMAIN stack : Settled(i)

\* A search that returned False had no chain.
DeadEnd ==
  pc = "backtrack" => ChainsFrom(Len(stack) + 1, EndBefore(Len(stack) + 1)) = {}

\* The states entered so far.
Explored == failed \cup {stack[i].state : i \in DOMAIN stack}

\* Each was entered once, and there are only so many.
Counted ==
  /\ IsFiniteSet(failed)
  /\ Explored \subseteq (1..Len(contents)) \X (0..Len(payload))
  /\ \A i \in DOMAIN stack : stack[i].state \notin failed
  /\ pushes = Cardinality(Explored)
  /\ pushes = Cardinality(failed) + Len(stack)

Outcome == FirstChainFound /\ (pc # "done" => result = None)

Inputs == payload \in Payloads /\ contents \in ContentLists

SearchInv ==
  /\ Inputs /\ TypeOK /\ Shape
  /\ AllPlaced /\ AllSettled /\ DeadEnd
  /\ FailedIsHopeless /\ Counted /\ Outcome

\* The work is bounded by the number of states, whatever the payload.
WorkBounded == pushes <= Len(contents) * (Len(payload) + 1)

-----------------------------------------------------------------------------
(* Contents, windows and find *)

LEMMA MinIsLeast ==
  ASSUME NEW S \in SUBSET Nat, S # {}
  PROVE  Min(S) \in S /\ \A y \in S : Min(S) <= y
  <1> DEFINE R == OpToRel(<, Nat)
  <1>1. \E x \in S : \A y \in S : ~ (<<y, x>> \in R)
    <2>1. IsWellFoundedOn(R, Nat)
      BY NatLessThanWellFounded
    <2> HIDE DEF R
    <2>2. QED
      BY <2>1, WFMin
  <1>2. \A m, n \in Nat : <<m, n>> \in R <=> m < n
    BY DEF OpToRel
  <1>3. PICK x \in S : \A y \in S : ~ (<<y, x>> \in R)
    BY <1>1
  <1> HIDE DEF R
  <1>4. ASSUME NEW y \in S PROVE x <= y
    <2>1. x \in Nat /\ y \in Nat
      OBVIOUS
    <2>2. ~ (y < x)
      BY <1>2, <1>3, <2>1
    <2>3. QED
      BY <2>1, <2>2
  <1>5. QED
    BY <1>3, <1>4 DEF Min

LEMMA InputTypes ==
  ASSUME Inputs
  PROVE  /\ payload \in Seq(Bytes) /\ Len(payload) \in Nat
         /\ contents \in Seq(Contents) /\ Len(contents) \in Nat
         /\ \A i \in 1..Len(contents) : contents[i] \in Contents
  BY SearchAssumption DEF Inputs

LEMMA ContentTypes ==
  ASSUME NEW s \in Contents
  PROVE  /\ s.pattern \in Seq(Bytes) /\ Len(s.pattern) \in Nat /\ Len(s.pattern) > 0
         /\ OrZero(s.offset) \in Nat /\ OrZero(s.distance) \in Int
         /\ s.depth \in Nat \cup {None} /\ s.within \in Nat \cup {None}
         /\ is_relative(s) \in BOOLEAN
  <1>1. s.pattern \in Seq(Bytes) /\ s.pattern # <<>>
    BY DEF Contents
  <1>2. Len(s.pattern) \in Nat /\ Len(s.pattern) > 0
    BY <1>1
  <1>3. s.offset \in Nat \cup {None} /\ s.distance \in Int \cup {None}
    BY DEF Contents
  <1>4. s.depth \in Nat \cup {None} /\ s.within \in Nat \cup {None}
    BY DEF Contents
  <1>5. QED
    BY <1>1, <1>2, <1>3, <1>4 DEF OrZero, is_relative

\* The window of a content is where it fits.
LEMMA WindowFits ==
  ASSUME Inputs, NEW i \in 1..Len(contents), NEW prev \in Nat
  PROVE  /\ Window(i, prev).start \in Nat
         /\ Window(i, prev).end \in Nat \cup {None}
         /\ \A pos \in Nat :
              Fits(contents[i], pos, prev) <=>
                /\ pos >= Window(i, prev).start
                /\ Window(i, prev).end # None => pos + Len(contents[i].pattern) <= Window(i, prev).end
                /\ OccursAt(contents[i], pos)
  <1> DEFINE s == contents[i]
             w == Window(i, prev)
  <1>1. /\ s \in Contents /\ Len(s.pattern) \in Nat
        /\ OrZero(s.offset) \in Nat /\ OrZero(s.distance) \in Int
        /\ s.depth \in Nat \cup {None} /\ s.within \in Nat \cup {None}
    BY InputTypes, ContentTypes
  <1>2. None \notin Int
    BY SearchAssumption
  <1>3. ASSUME is_relative(s), NEW from \in Nat, from = Larger(0, prev + OrZero(s.distance))
        PROVE  /\ w.start = from /\ w.end = (IF s.within = None THEN None ELSE from + s.within)
               /\ \A pos \in Nat : Fits(s, pos, prev) <=>
                    /\ pos >= from
                    /\ s.within # None => pos + Len(s.pattern) <= from + s.within
                    /\ OccursAt(s, pos)
    BY <1>3 DEF Window, relative_window, WindowFrom, Fits
  <1>4. ASSUME ~is_relative(s), NEW from \in Nat, from = OrZero(s.offset)
        PROVE  /\ w.start = from /\ w.end = (IF s.depth = None THEN None ELSE from + s.depth)
               /\ \A pos \in Nat : Fits(s, pos, prev) <=>
                    /\ pos >= from
                    /\ s.depth # None => pos + Len(s.pattern) <= from + s.depth
                    /\ OccursAt(s, pos)
    BY <1>4 DEF Window, absolute_window, WindowFrom, Fits
  <1>5. Larger(0, prev + OrZero(s.distance)) \in Nat
    BY <1>1 DEF Larger
  <1> HIDE DEF s, w
  <1>6. CASE is_relative(s)
    <2>1. PICK from \in Nat : from = Larger(0, prev + OrZero(s.distance))
      BY <1>5
    <2>2. w.start \in Nat /\ w.end \in Nat \cup {None} /\ (w.end # None <=> s.within # None)
      BY <1>1, <1>2, <1>3, <1>6, <2>1
    <2>3. \A pos \in Nat : Fits(s, pos, prev) <=>
            /\ pos >= w.start /\ (w.end # None => pos + Len(s.pattern) <= w.end) /\ OccursAt(s, pos)
      BY <1>2, <1>3, <1>6, <2>1, <2>2
    <2>4. QED
      BY <2>2, <2>3 DEF s, w
  <1>7. CASE ~is_relative(s)
    <2>1. PICK from \in Nat : from = OrZero(s.offset)
      BY <1>1
    <2>2. w.start \in Nat /\ w.end \in Nat \cup {None} /\ (w.end # None <=> s.depth # None)
      BY <1>1, <1>2, <1>4, <1>7, <2>1
    <2>3. \A pos \in Nat : Fits(s, pos, prev) <=>
            /\ pos >= w.start /\ (w.end # None => pos + Len(s.pattern) <= w.end) /\ OccursAt(s, pos)
      BY <1>2, <1>4, <1>7, <2>1, <2>2
    <2>4. QED
      BY <2>2, <2>3 DEF s, w
  <1>8. QED
    BY <1>6, <1>7

\* What find() looks for.
InWindow(s, start, end, p) == p >= start /\ (end # None => p + Len(s.pattern) <= end) /\ OccursAt(s, p)

\* find() returns the first occurrence in the window, or -1 when there is none.
LEMMA FindFirst ==
  ASSUME Inputs, NEW s \in Contents, NEW start \in Nat, NEW end \in Nat \cup {None}
  PROVE  LET h == find(s, start, end)
         IN /\ h \in Int
            /\ h < 0 => \A p \in Nat : ~InWindow(s, start, end, p)
            /\ h >= 0 => InWindow(s, start, end, h) /\ \A p \in Nat : InWindow(s, start, end, p) => h <= p
  <1> DEFINE h       == find(s, start, end)
             size    == Len(s.pattern)
             stop    == IF end = None THEN Len(payload) ELSE Smaller(end, Len(payload))
             hits    == {pos \in Larger(0, start)..(stop - size) : OccursAt(s, pos)}
             Hits(p) == InWindow(s, start, end, p)
  <1>1. size \in Nat /\ Len(payload) \in Nat /\ None \notin Int
    BY InputTypes, ContentTypes, SearchAssumption
  <1>2. stop \in Nat /\ Larger(0, start) = start
    BY <1>1 DEF Smaller, Larger
  <1>3. \A p \in Nat : OccursAt(s, p) => p + size <= Len(payload)
    BY DEF OccursAt
  <1>4. ASSUME NEW p \in Nat, p + size <= Len(payload)
        PROVE  p <= stop - size <=> (end # None => p + size <= end)
    BY <1>1, <1>4 DEF Smaller
  <1>5. h = IF hits = {} THEN -1 ELSE Min(hits)
    BY DEF find
  <1> HIDE DEF h, size, stop
  <1>6. hits \in SUBSET Nat
    BY <1>1, <1>2
  <1>7. \A p \in Nat : p \in hits <=> Hits(p)
    BY <1>1, <1>2, <1>3, <1>4 DEF InWindow, size
  <1> HIDE DEF hits, Hits
  <1>8. CASE hits = {}
    <2>1. h = -1
      BY <1>5, <1>8
    <2>2. QED
      BY <1>7, <1>8, <2>1 DEF h, Hits
  <1>9. CASE hits # {}
    <2>1. h \in hits /\ \A y \in hits : h <= y
      BY <1>5, <1>6, <1>9, MinIsLeast
    <2>2. h \in Nat /\ Hits(h) /\ \A p \in Nat : Hits(p) => h <= p
      BY <1>6, <1>7, <2>1
    <2>3. QED
      BY <2>2 DEF h, Hits
  <1>10. QED
    BY <1>8, <1>9

-----------------------------------------------------------------------------
(* Chains *)

\* What a search returns depends on its state only.
LEMMA StateChains ==
  ASSUME NEW i \in 1..Len(contents), NEW prev
  PROVE  /\ State(i, prev)[1] = i
         /\ ChainsFrom(State(i, prev)[1], State(i, prev)[2]) = ChainsFrom(i, prev)
  <1>1. CASE is_relative(contents[i])
    BY <1>1 DEF State
  <1>2. CASE ~is_relative(contents[i])
    <2>1. State(i, prev)[1] = i /\ State(i, prev)[2] = 0
      BY <1>2 DEF State
    <2>2. \A pos : Fits(contents[i], pos, prev) <=> Fits(contents[i], pos, 0)
      BY <1>2 DEF Fits
    <2>3. ChainsFrom(i, 0) = ChainsFrom(i, prev)
      BY <2>2 DEF ChainsFrom
    <2>4. QED
      BY <2>1, <2>3
  <1>3. QED
    BY <1>1, <1>2

\* The first position of a chain is a place for its first content, and the
\* other positions are a chain of the next one.
LEMMA ChainSplit ==
  ASSUME Inputs, NEW i \in 1..Len(contents), NEW prev, NEW c \in ChainsFrom(i, prev)
  PROVE  /\ c[i] \in 0..Len(payload)
         /\ Fits(contents[i], c[i], prev)
         /\ [j \in (i + 1)..Len(contents) |-> c[j]]
              \in ChainsFrom(i + 1, MatchEnd(contents[i], c[i]))
  <1> DEFINE n == Len(contents)
             d == [j \in (i + 1)..n |-> c[j]]
             next == MatchEnd(contents[i], c[i])
  <1>1. /\ c \in [i..n -> 0..Len(payload)]
        /\ \A j \in i..n : Fits(contents[j], c[j], IF j = i THEN prev ELSE c[j - 1] + Len(contents[j - 1].pattern))
    BY DEF ChainsFrom
  <1>2. n \in Nat /\ i \in Nat /\ i \in i..n
    BY InputTypes
  <1>3. c[i] \in 0..Len(payload) /\ Fits(contents[i], c[i], prev)
    BY <1>1, <1>2
  <1>4. d \in [(i + 1)..n -> 0..Len(payload)]
    BY <1>1, <1>2
  <1>5. next = c[i] + Len(contents[i].pattern)
    BY DEF MatchEnd
  <1>6. ASSUME NEW j \in (i + 1)..n
        PROVE  Fits(contents[j], d[j], IF j = i + 1 THEN next ELSE d[j - 1] + Len(contents[j - 1].pattern))
    <2>1. j \in i..n /\ j # i
      BY <1>2
    <2>2. Fits(contents[j], c[j], c[j - 1] + Len(contents[j - 1].pattern)) /\ d[j] = c[j]
      BY <1>1, <2>1
    <2>3. CASE j = i + 1
      BY <1>2, <1>5, <2>2, <2>3
    <2>4. CASE j # i + 1
      <3>1. j - 1 \in (i + 1)..n
        BY <1>2, <2>4
      <3>2. d[j - 1] = c[j - 1]
        BY <3>1
      <3>3. QED
        BY <2>2, <2>4, <3>2
    <2>5. QED
      BY <2>3, <2>4
  <1> HIDE DEF d, next
  <1>7. d \in ChainsFrom(i + 1, next)
    BY <1>4, <1>6 DEF ChainsFrom
  <1>8. QED
    BY <1>3, <1>7 DEF d, next

\* From any place on, the rest of a chain is a chain.
LEMMA ChainRest ==
  ASSUME Inputs, NEW c \in ChainsFrom(1, 0), NEW i \in 1..Len(contents)
  PROVE  [j \in i..Len(contents) |-> c[j]]
           \in ChainsFrom(i, IF i = 1 THEN 0 ELSE MatchEnd(contents[i - 1], c[i - 1]))
  <1> DEFINE n == Len(contents)
             d == [j \in i..n |-> c[j]]
             prev == IF i = 1 THEN 0 ELSE MatchEnd(contents[i - 1], c[i - 1])
  <1>1. /\ c \in [1..n -> 0..Len(payload)]
        /\ \A j \in 1..n : Fits(contents[j], c[j], IF j = 1 THEN 0 ELSE c[j - 1] + Len(contents[j - 1].pattern))
    BY DEF ChainsFrom
  <1>2. n \in Nat /\ i \in Nat
    BY InputTypes
  <1>3. d \in [i..n -> 0..Len(payload)]
    BY <1>1, <1>2
  <1>4. prev = IF i = 1 THEN 0 ELSE c[i - 1] + Len(contents[i - 1].pattern)
    BY DEF MatchEnd
  <1>5. ASSUME NEW j \in i..n
        PROVE  Fits(contents[j], d[j], IF j = i THEN prev ELSE d[j - 1] + Len(contents[j - 1].pattern))
    <2>1. j \in 1..n /\ d[j] = c[j]
      BY <1>2
    <2>2. CASE j = i
      BY <1>1, <1>4, <2>1, <2>2
    <2>3. CASE j # i
      <3>1. j - 1 \in i..n /\ j # 1
        BY <1>2, <2>3
      <3>2. d[j - 1] = c[j - 1]
        BY <3>1
      <3>3. QED
        BY <1>1, <2>1, <2>3, <3>1, <3>2
    <2>4. QED
      BY <2>2, <2>3
  <1> HIDE DEF d, prev
  <1>6. d \in ChainsFrom(i, prev)
    BY <1>3, <1>5 DEF ChainsFrom
  <1>7. QED
    BY <1>6 DEF d, prev

\* None of this changes while the search runs.
LEMMA InputKept ==
  ASSUME UNCHANGED input, NEW i, NEW prev
  PROVE  /\ Inputs => Inputs'
         /\ payload' = payload /\ contents' = contents
         /\ ChainsFrom(i, prev)' = ChainsFrom(i, prev)
         /\ Window(i, prev)' = Window(i, prev)
         /\ State(i, prev)' = State(i, prev)
         /\ \A pos : Fits(contents[i], pos, prev)' <=> Fits(contents[i], pos, prev)
  <1>1. payload' = payload /\ contents' = contents
    BY DEF input
  <1>2. \A spec, pos, e : Fits(spec, pos, e)' <=> Fits(spec, pos, e)
    BY <1>1 DEF Fits, OccursAt
  <1>3. ChainsFrom(i, prev)' = ChainsFrom(i, prev)
    BY <1>1, <1>2 DEF ChainsFrom
  <1>4. QED
    BY <1>1, <1>2, <1>3 DEF Inputs, Window, State

-----------------------------------------------------------------------------
(* The stack and the path *)

Running == pc \in {"call", "search", "backtrack"}

LEMMA StackTypes ==
  ASSUME SearchInv
  PROVE  /\ Len(stack) \in Nat /\ DOMAIN stack = 1..Len(stack) /\ Len(stack) <= Len(contents)
         /\ Len(path) \in Nat /\ DOMAIN path = 1..Len(path)
         /\ \A i \in DOMAIN path : path[i] \in Nat
         /\ \A i \in DOMAIN stack :
              /\ stack[i] = [state |-> stack[i].state, start |-> stack[i].start, end |-> stack[i].end]
              /\ stack[i].state \in (1..Len(contents)) \X Nat /\ stack[i].state[1] = i
              /\ stack[i].start \in Nat /\ stack[i].end \in Nat \cup {None}
              /\ i \in 1..Len(contents)
         /\ prev_end \in Nat
         /\ Running => Len(path) = Len(stack) - 1 \/ Len(path) = Len(stack)
  <1> DEFINE F == [state : (1..Len(contents)) \X Nat, start : Nat, end : Nat \cup {None}]
  <1>1. stack \in Seq(F) /\ path \in Seq(Nat) /\ prev_end \in Nat
        /\ \A i \in DOMAIN stack : stack[i].state[1] = i
    BY DEF SearchInv, TypeOK
  <1> HIDE DEF F
  <1>2. Len(stack) \in Nat /\ DOMAIN stack = 1..Len(stack) /\ \A i \in DOMAIN stack : stack[i] \in F
    BY <1>1
  <1>3. ASSUME NEW i \in DOMAIN stack
        PROVE  /\ stack[i] = [state |-> stack[i].state, start |-> stack[i].start, end |-> stack[i].end]
               /\ stack[i].state \in (1..Len(contents)) \X Nat /\ stack[i].state[1] = i
               /\ stack[i].start \in Nat /\ stack[i].end \in Nat \cup {None}
               /\ i \in 1..Len(contents)
    <2>1. stack[i] \in F
      BY <1>2
    <2> USE DEF F
    <2>2. stack[i].state \in (1..Len(contents)) \X Nat /\ stack[i].state[1] = i
      BY <1>1, <2>1
    <2>3. QED
      BY <2>1, <2>2
  <1>4. Len(stack) <= Len(contents)
    <2>1. Len(contents) \in Nat
      BY InputTypes DEF SearchInv
    <2>2. CASE Len(stack) = 0
      BY <2>1, <2>2
    <2>3. CASE Len(stack) # 0
      <3>1. Len(stack) \in DOMAIN stack
        BY <1>2, <2>3
      <3>2. QED
        BY <1>3, <2>1, <3>1
    <2>4. QED
      BY <2>2, <2>3
  <1>5. Len(path) \in Nat /\ DOMAIN path = 1..Len(path) /\ \A i \in DOMAIN path : path[i] \in Nat
    BY <1>1
  <1>6. Running => Len(path) = Len(stack) - 1 \/ Len(path) = Len(stack)
    <2>1. Shape
      BY DEF SearchInv
    <2>2. Len(stack) \in Nat /\ Len(path) \in Nat
      BY <1>2, <1>5
    <2>3. CASE pc = "search"
      <3>1. Len(stack) = Len(path) + 1
        BY <2>1, <2>3 DEF Shape
      <3>2. QED
        BY <2>2, <3>1
    <2>4. CASE pc = "call" \/ pc = "backtrack"
      BY <2>1, <2>4 DEF Shape
    <2>5. QED
      BY <2>3, <2>4 DEF Running
  <1>7. QED
    BY <1>1, <1>2, <1>3, <1>4, <1>5, <1>6

\* The contents on the path end inside the payload.
LEMMA EndTypes ==
  ASSUME SearchInv, Running, NEW i \in 1..(Len(path) + 1)
  PROVE  EndBefore(i) \in 0..Len(payload)
  <1>1. Len(payload) \in Nat
    BY InputTypes DEF SearchInv
  <1>2. CASE i = 1
    BY <1>1, <1>2 DEF EndBefore
  <1>3. CASE i # 1
    <2> DEFINE k == i - 1
    <2>0. /\ Len(path) \in Nat /\ DOMAIN path = 1..Len(path)
          /\ Len(stack) \in Nat /\ DOMAIN stack = 1..Len(stack) /\ Len(path) <= Len(stack)
      <3>1. Len(path) = Len(stack) - 1 \/ Len(path) = Len(stack)
        BY StackTypes
      <3>2. Len(path) \in Nat /\ DOMAIN path = 1..Len(path) /\ Len(stack) \in Nat /\ DOMAIN stack = 1..Len(stack)
        BY StackTypes
      <3>3. Len(path) \in Nat /\ Len(stack) \in Nat
        BY StackTypes
      <3>4. Len(path) <= Len(stack)
        BY <3>1, <3>3
      <3>5. QED
        BY <3>2, <3>4
    <2>1. k \in DOMAIN path /\ k \in DOMAIN stack /\ k \in 1..Len(contents) /\ path[k] \in Nat
      <3>1. k \in 1..Len(path)
        BY <1>3, <2>0
      <3>2. k \in DOMAIN path /\ k \in DOMAIN stack
        BY <2>0, <3>1
      <3> HIDE DEF k
      <3>3. QED
        BY <3>2, StackTypes
    <2>2. Fits(contents[k], path[k], EndBefore(k))
      BY <2>1 DEF SearchInv, AllPlaced, Placed
    <2>3. path[k] + Len(contents[k].pattern) <= Len(payload)
      BY <2>2 DEF Fits, OccursAt
    <2>4. Len(contents[k].pattern) \in Nat
      BY <2>1, InputTypes, ContentTypes DEF SearchInv
    <2>5. EndBefore(i) = path[k] + Len(contents[k].pattern)
      BY <1>3 DEF EndBefore, MatchEnd
    <2> HIDE DEF k
    <2>6. QED
      BY <1>1, <2>1, <2>3, <2>4, <2>5
  <1>4. QED
    BY <1>2, <1>3

LEMMA EndKept ==
  ASSUME UNCHANGED input, NEW i, i = 1 \/ path'[i - 1] = path[i - 1]
  PROVE  EndBefore(i)' = EndBefore(i)
  BY DEF EndBefore, input, MatchEnd

\* A frame that a step leaves alone keeps its place and what it settled.
LEMMA FrameKept ==
  ASSUME UNCHANGED input, NEW i, Placed(i), Settled(i),
         i = 1 \/ path'[i - 1] = path[i - 1],
         stack'[i] = stack[i],
         i \in DOMAIN path' <=> i \in DOMAIN path,
         i \in DOMAIN path => path'[i] = path[i]
  PROVE  Placed(i)' /\ Settled(i)'
  <1>1. EndBefore(i)' = EndBefore(i)
    BY EndKept
  <1>2. Placed(i)'
    <2>1. stack'[i].state = State(i, EndBefore(i))' /\ stack'[i].start >= Window(i, EndBefore(i))'.start
          /\ stack'[i].end = Window(i, EndBefore(i))'.end
      BY <1>1, InputKept DEF Placed
    <2>2. i \in DOMAIN path' =>
            Fits(contents[i], path[i], EndBefore(i))' /\ stack'[i].start = path'[i] + 1
      BY <1>1, InputKept DEF Placed
    <2>3. QED
      BY <2>1, <2>2 DEF Placed
  <1>3. Settled(i)'
    BY <1>1, InputKept DEF Settled
  <1>4. QED
    BY <1>2, <1>3

LEMMA HopelessKept ==
  ASSUME UNCHANGED input, FailedIsHopeless, failed' = failed
  PROVE  FailedIsHopeless'
  BY InputKept DEF FailedIsHopeless

LEMMA CountKept ==
  ASSUME UNCHANGED input, Counted, failed' = failed, pushes' = pushes,
         Len(stack') = Len(stack), DOMAIN stack' = DOMAIN stack,
         \A i \in DOMAIN stack : stack'[i].state = stack[i].state
  PROVE  Counted'
  <1>1. Explored' = Explored
    BY DEF Explored
  <1>2. QED
    BY <1>1 DEF Counted, input

LEMMA FrontShape ==
  ASSUME NEW S, NEW s \in Seq(S), s # <<>>
  PROVE  /\ Front(s) \in Seq(S) /\ Len(Front(s)) = Len(s) - 1
         /\ \A i \in 1..(Len(s) - 1) : Front(s)[i] = s[i]
  <1> DEFINE m == Len(s) - 1
             f == SubSeq(s, 1, m)
  <1>1. m \in Nat /\ 1 \in 1..(Len(s) + 1) /\ m \in 0..Len(s)
    OBVIOUS
  <1> HIDE DEF m
  <1>2. f \in Seq(S) /\ Len(f) = m /\ \A i \in 1..m : f[i] = s[i]
    BY <1>1
  <1>3. QED
    BY <1>2 DEF Front, m

-----------------------------------------------------------------------------
(* The steps *)

\* A step that moves nothing on the stack or the path.
LEMMA Idle ==
  ASSUME SearchInv, UNCHANGED <<input, stack, failed, path, pushes>>
  PROVE  Inputs' /\ AllPlaced' /\ AllSettled' /\ FailedIsHopeless' /\ Counted'
  <1>1. UNCHANGED input
    OBVIOUS
  <1>2. Inputs'
    BY <1>1, InputKept DEF SearchInv
  <1>3. ASSUME NEW i \in DOMAIN stack
        PROVE  Placed(i)' /\ Settled(i)'
    BY <1>1, <1>3, FrameKept DEF SearchInv, AllPlaced, AllSettled
  <1>4. AllPlaced' /\ AllSettled'
    BY <1>3 DEF AllPlaced, AllSettled
  <1>5. FailedIsHopeless' /\ Counted'
    BY <1>1, HopelessKept, CountKept DEF SearchInv
  <1>6. QED
    BY <1>2, <1>4, <1>5

LEMMA StartStep ==
  ASSUME SearchInv, Start
  PROVE  SearchInv'
  <1>1. UNCHANGED input /\ UNCHANGED <<stack, failed, path, pushes>> /\ prev_end' = prev_end /\ pc = "start"
    BY DEF Start
  <1>2. Inputs' /\ AllPlaced' /\ AllSettled' /\ FailedIsHopeless' /\ Counted'
    BY <1>1, Idle
  <1>3. stack = <<>> /\ path = <<>> /\ failed = {} /\ pushes = 0 /\ result = None
    BY <1>1 DEF SearchInv, Shape, Outcome
  <1>4. \/ contents = <<>> /\ pc' = "done" /\ result' = <<>>
        \/ contents # <<>> /\ payload = <<>> /\ pc' = "done" /\ result' = None
        \/ contents # <<>> /\ pc' = "call" /\ result' = None
    BY <1>3 DEF Start
  <1>5. TypeOK'
    <2>0. <<>> \in Seq(Nat)
      OBVIOUS
    <2>1. result' = None \/ result' \in Seq(Nat)
      BY <1>4, <2>0
    <2>2. pc' \in {"done", "call"}
      BY <1>4
    <2>3. QED
      BY <1>1, <2>1, <2>2 DEF SearchInv, TypeOK, input
  <1>6. prev_end = 0
    BY <1>1 DEF SearchInv, Shape
  <1>7. Shape'
    <2>1. EndBefore(Len(stack) + 1)' = 0
      BY <1>1, <1>3 DEF EndBefore
    <2>2. QED
      BY <1>1, <1>3, <1>4, <1>6, <2>1 DEF Shape, input
  <1>8. Outcome'
    <2>1. ChainsFrom(1, 0)' = ChainsFrom(1, 0)
      BY <1>1, InputKept
    <2>2. CASE contents = <<>>
      <3>1. <<>> \in ChainsFrom(1, 0) /\ \A c \in ChainsFrom(1, 0) : ~Precedes(c, <<>>)
        <4>1. 1..Len(contents) = {}
          BY <2>2
        <4>2. <<>> \in [1..Len(contents) -> 0..Len(payload)]
          BY <4>1
        <4>3. QED
          BY <4>1, <4>2 DEF ChainsFrom, Precedes
      <3>2. pc' = "done" /\ result' = <<>>
        BY <1>4, <2>2
      <3>3. QED
        BY <2>1, <3>1, <3>2 DEF Outcome, FirstChainFound
    <2>3. CASE contents # <<>> /\ payload = <<>>
      <3>1. ASSUME NEW c \in ChainsFrom(1, 0)
            PROVE  FALSE
        <4>1. 1 \in 1..Len(contents) /\ Len(payload) = 0 /\ contents[1] \in Contents
          BY <2>3, InputTypes DEF SearchInv
        <4>2. c[1] \in 0..Len(payload) /\ Fits(contents[1], c[1], 0)
          BY <3>1, <4>1, ChainSplit DEF SearchInv
        <4>3. c[1] + Len(contents[1].pattern) <= Len(payload)
          BY <4>2 DEF Fits, OccursAt
        <4>4. QED
          BY <4>1, <4>2, <4>3, ContentTypes
      <3>2. result' = None
        BY <1>4, <2>3
      <3>3. QED
        BY <2>1, <3>1, <3>2 DEF Outcome, FirstChainFound
    <2>4. CASE pc' = "call" /\ result' = None
      BY <2>4 DEF Outcome, FirstChainFound
    <2>5. QED
      BY <1>4, <2>2, <2>3, <2>4
  <1>9. DeadEnd'
    BY <1>4 DEF DeadEnd
  <1>10. QED
    BY <1>2, <1>5, <1>7, <1>8, <1>9 DEF SearchInv

\* All contents are placed: the path is a chain, and no chain precedes it.
LEMMA PathIsFirst ==
  ASSUME SearchInv, pc = "call", Len(stack) = Len(contents)
  PROVE  path \in ChainsFrom(1, 0) /\ \A c \in ChainsFrom(1, 0) : ~Precedes(c, path)
  <1> DEFINE n == Len(contents)
  <1>1. n \in Nat /\ Len(path) = n /\ Len(payload) \in Nat
    BY InputTypes DEF SearchInv, Shape
  <1>2. /\ DOMAIN path = 1..n /\ DOMAIN stack = 1..n /\ path \in [1..n -> Nat]
    <2>1. path \in Seq(Nat)
      BY DEF SearchInv, TypeOK
    <2>2. DOMAIN path = 1..n /\ path \in [1..n -> Nat]
      BY <1>1, <2>1
    <2>3. DOMAIN stack = 1..n
      BY StackTypes
    <2>4. QED
      BY <2>2, <2>3
  <1>3. ASSUME NEW j \in 1..n
        PROVE  /\ Fits(contents[j], path[j], EndBefore(j)) /\ stack[j].start = path[j] + 1
               /\ path[j] \in 0..Len(payload)
    <2>1. Fits(contents[j], path[j], EndBefore(j)) /\ stack[j].start = path[j] + 1
      BY <1>2, <1>3 DEF SearchInv, AllPlaced, Placed
    <2>2. path[j] + Len(contents[j].pattern) <= Len(payload)
      BY <2>1 DEF Fits, OccursAt
    <2>3. path[j] \in Nat /\ Len(contents[j].pattern) \in Nat
      BY <1>2, InputTypes, ContentTypes DEF SearchInv
    <2>4. QED
      BY <1>1, <2>1, <2>2, <2>3
  <1>4. path \in ChainsFrom(1, 0)
    <2>1. path \in [1..n -> 0..Len(payload)]
      BY <1>2, <1>3
    <2>2. \A j \in 1..n : EndBefore(j) = IF j = 1 THEN 0 ELSE path[j - 1] + Len(contents[j - 1].pattern)
      BY DEF EndBefore, MatchEnd
    <2>3. QED
      BY <1>3, <2>1, <2>2 DEF ChainsFrom
  <1>5. ASSUME NEW c \in ChainsFrom(1, 0), Precedes(c, path)
        PROVE  FALSE
    <2>1. DOMAIN c = 1..n /\ c \in [1..n -> 0..Len(payload)]
      BY DEF ChainsFrom
    <2>2. PICK j \in 1..n : c[j] < path[j] /\ \A k \in 1..n : k < j => c[k] = path[k]
      BY <1>5, <2>1 DEF Precedes
    <2>3. (IF j = 1 THEN 0 ELSE MatchEnd(contents[j - 1], c[j - 1])) = EndBefore(j)
      <3>1. CASE j = 1
        BY <3>1 DEF EndBefore
      <3>2. CASE j # 1
        <4>1. j - 1 \in 1..n /\ j - 1 < j
          BY <1>1, <3>2
        <4>2. c[j - 1] = path[j - 1]
          BY <2>2, <4>1
        <4>3. QED
          BY <3>2, <4>2 DEF EndBefore
      <3>3. QED
        BY <3>1, <3>2
    <2>4. [k \in j..n |-> c[k]] \in ChainsFrom(j, EndBefore(j))
      BY <2>3, ChainRest DEF SearchInv
    <2>5. j \in j..n
      BY <1>1
    <2>6. c[j] >= stack[j].start \/ c[j] = path[j]
      BY <1>2, <2>4, <2>5 DEF SearchInv, AllSettled, Settled
    <2>7. c[j] \in Nat /\ path[j] \in Nat /\ stack[j].start = path[j] + 1
      BY <1>1, <1>2, <1>3, <2>1
    <2>8. QED
      BY <2>2, <2>6, <2>7
  <1>6. QED
    BY <1>4, <1>5

LEMMA CompleteStep ==
  ASSUME SearchInv, Complete
  PROVE  SearchInv'
  <1>1. /\ UNCHANGED input /\ UNCHANGED <<stack, failed, path, pushes>> /\ prev_end' = prev_end
        /\ pc = "call" /\ Len(stack) = Len(contents) /\ result' = path /\ pc' = "done"
    BY DEF Complete
  <1>2. Inputs' /\ AllPlaced' /\ AllSettled' /\ FailedIsHopeless' /\ Counted'
    BY <1>1, Idle
  <1>3. TypeOK'
    BY <1>1 DEF SearchInv, TypeOK, input
  <1>4. Shape' /\ DeadEnd'
    BY <1>1 DEF Shape, DeadEnd
  <1>5. Outcome'
    <2>1. path \in ChainsFrom(1, 0) /\ \A c \in ChainsFrom(1, 0) : ~Precedes(c, path)
      BY <1>1, PathIsFirst
    <2>2. ChainsFrom(1, 0)' = ChainsFrom(1, 0)
      BY <1>1, InputKept
    <2>3. QED
      BY <1>1, <2>1, <2>2 DEF Outcome, FirstChainFound
  <1>6. QED
    BY <1>2, <1>3, <1>4, <1>5 DEF SearchInv

LEMMA RefuseStep ==
  ASSUME SearchInv, Refuse
  PROVE  SearchInv'
  <1> DEFINE i == Len(stack) + 1
  <1>1. /\ UNCHANGED input /\ UNCHANGED <<stack, failed, path, pushes>>
        /\ prev_end' = prev_end /\ result' = result
        /\ pc = "call" /\ Len(stack) < Len(contents) /\ pc' = "backtrack"
        /\ State(i, prev_end) \in failed
    BY DEF Refuse
  <1>2. Inputs' /\ AllPlaced' /\ AllSettled' /\ FailedIsHopeless' /\ Counted'
    BY <1>1, Idle
  <1>3. TypeOK'
    BY <1>1 DEF SearchInv, TypeOK, input
  <1>4. stack # <<>> /\ Len(path) = Len(stack) /\ prev_end = EndBefore(i) /\ contents # <<>>
    BY <1>1 DEF SearchInv, Shape
  <1>5. Shape'
    BY <1>1, <1>4 DEF Shape, input
  <1>6. ChainsFrom(i, EndBefore(i)) = {}
    <2>1. i \in 1..Len(contents)
      <3>1. Len(stack) \in Nat /\ Len(contents) \in Nat
        BY StackTypes, InputTypes DEF SearchInv
      <3>2. QED
        BY <1>1, <3>1
    <2> HIDE DEF i
    <2>2. ChainsFrom(State(i, prev_end)[1], State(i, prev_end)[2]) = {}
      BY <1>1 DEF SearchInv, FailedIsHopeless
    <2>3. QED
      BY <1>4, <2>1, <2>2, StateChains
  <1>7. DeadEnd'
    <2>1. (Len(stack) + 1)' = i
      BY <1>1
    <2>2. EndBefore(i)' = EndBefore(i)
      BY <1>1, EndKept
    <2>3. ChainsFrom(i, EndBefore(i))' = {}
      BY <1>1, <1>6, <2>2, InputKept
    <2>4. QED
      BY <1>1, <2>1, <2>3 DEF DeadEnd
  <1>8. Outcome'
    BY <1>1 DEF SearchInv, Outcome, FirstChainFound
  <1>9. QED
    BY <1>2, <1>3, <1>5, <1>7, <1>8 DEF SearchInv

LEMMA StatesFinite ==
  ASSUME SearchInv
  PROVE  /\ IsFiniteSet((1..Len(contents)) \X (0..Len(payload)))
         /\ Cardinality((1..Len(contents)) \X (0..Len(payload))) = Len(contents) * (Len(payload) + 1)
         /\ IsFiniteSet(Explored)
  <1> DEFINE A == 1..Len(contents)
             B == 0..Len(payload)
  <1>1. Len(contents) \in Nat /\ Len(payload) \in Nat
    BY InputTypes DEF SearchInv
  <1>2. IsFiniteSet(A) /\ Cardinality(A) = Len(contents)
    <2>1. PICK m \in Int : m = Len(contents)
      BY <1>1
    <2>2. IsFiniteSet(1..m) /\ Cardinality(1..m) = IF 1 > m THEN 0 ELSE m - 1 + 1
      BY FS_Interval
    <2>3. QED
      BY <1>1, <2>1, <2>2
  <1>3. IsFiniteSet(B) /\ Cardinality(B) = Len(payload) + 1
    BY <1>1, FS_Interval
  <1> HIDE DEF A, B
  <1>4. IsFiniteSet(A \X B) /\ Cardinality(A \X B) = Cardinality(A) * Cardinality(B)
    BY <1>2, <1>3, FS_Product
  <1>5. Explored \subseteq A \X B
    BY DEF SearchInv, Counted, A, B
  <1>6. IsFiniteSet(Explored)
    BY <1>4, <1>5, FS_Subset
  <1>7. QED
    BY <1>2, <1>3, <1>4, <1>6 DEF A, B

LEMMA EnterStep ==
  ASSUME SearchInv, Enter
  PROVE  SearchInv'
  <1>0. PICK i, prev, w, s : i = Len(stack) + 1 /\ prev = prev_end /\ w = Window(i, prev) /\ s = State(i, prev)
    OBVIOUS
  <1> DEFINE n == Len(contents)
             f == [state |-> s, start |-> w.start, end |-> w.end]
             F == [state : (1..n) \X Nat, start : Nat, end : Nat \cup {None}]
  <1>1. /\ UNCHANGED input /\ UNCHANGED <<failed, path>>
        /\ prev_end' = prev_end /\ result' = result
        /\ pc = "call" /\ i <= n /\ pc' = "search"
        /\ s \notin failed
        /\ stack' = Append(stack, f) /\ pushes' = pushes + 1
    BY <1>0 DEF Enter, Window
  <1>2. /\ Len(stack) \in Nat /\ DOMAIN stack = 1..Len(stack) /\ Len(path) = Len(stack) /\ n \in Nat
        /\ DOMAIN path = 1..Len(path)
        /\ prev = EndBefore(i) /\ contents # <<>> /\ Len(payload) \in Nat
    BY <1>0, <1>1, StackTypes, InputTypes DEF SearchInv, Shape
  <1>3. i \in 1..n /\ i \in Nat
    BY <1>0, <1>1, <1>2
  <1>4. prev \in 0..Len(payload) /\ prev \in Nat
    <2>1. i \in 1..(Len(path) + 1)
      BY <1>0, <1>2
    <2>2. Running
      BY <1>1 DEF Running
    <2>3. EndBefore(i) \in 0..Len(payload)
      BY <2>1, <2>2, EndTypes
    <2>4. QED
      BY <1>2, <2>3
  <1>5. w.start \in Nat /\ w.end \in Nat \cup {None}
    BY <1>0, <1>3, <1>4, WindowFits DEF SearchInv
  <1>6. s \in (1..n) \X (0..Len(payload)) /\ s[1] = i
    BY <1>0, <1>2, <1>3, <1>4 DEF State
  <1> HIDE DEF n
  <1>7. f \in F
    BY <1>2, <1>5, <1>6
  <1>8. stack \in Seq(F)
    BY DEF SearchInv, TypeOK, n
  <1> HIDE DEF f, F
  <1>9. /\ stack' \in Seq(F) /\ Len(stack') = i /\ DOMAIN stack' = 1..i
        /\ stack'[i] = f /\ \A j \in DOMAIN stack : j # i /\ stack'[j] = stack[j]
    BY <1>0, <1>1, <1>2, <1>7, <1>8
  <1>10. \A j \in DOMAIN stack' : j = i \/ j \in DOMAIN stack
    BY <1>0, <1>2, <1>9
  <1>11. f.state = s /\ f.start = w.start /\ f.end = w.end
    BY DEF f
  <1>12. Inputs' /\ FailedIsHopeless'
    BY <1>1, InputKept, HopelessKept DEF SearchInv
  <1>13. TypeOK'
    <2>1. \A j \in DOMAIN stack' : stack'[j].state[1] = j
      BY <1>6, <1>9, <1>10, <1>11 DEF SearchInv, TypeOK
    <2>2. contents' = contents /\ pushes' \in Nat
      BY <1>1 DEF SearchInv, TypeOK, input
    <2>3. stack' \in Seq([state : (1..Len(contents')) \X Nat, start : Nat, end : Nat \cup {None}])
      BY <1>9, <2>2 DEF F, n
    <2>4. /\ failed' \subseteq (1..Len(contents')) \X Nat /\ path' \in Seq(Nat) /\ prev_end' \in Nat
          /\ result' = None \/ result' \in Seq(Nat)
      BY <1>1, <2>2 DEF SearchInv, TypeOK
    <2>5. pc' \in {"start", "call", "search", "backtrack", "done"}
      BY <1>1
    <2>6. QED
      BY <2>1, <2>2, <2>3, <2>4, <2>5 DEF TypeOK
  <1>14. Shape'
    <2>1. Len(stack') = Len(path') + 1
      BY <1>0, <1>1, <1>2, <1>9
    <2>2. contents' # <<>> /\ pc' = "search"
      BY <1>1, <1>2 DEF input
    <2>3. QED
      BY <2>1, <2>2 DEF Shape
  <1>15. Placed(i)' /\ Settled(i)'
    <2>1. EndBefore(i)' = prev
      BY <1>1, <1>2, EndKept
    <2>2. i \notin DOMAIN path'
      BY <1>0, <1>1, <1>2
    <2>3. Placed(i)'
      <3>1. State(i, prev)' = s /\ Window(i, prev)' = w
        BY <1>0, <1>1, InputKept
      <3>2. State(i, EndBefore(i))' = s /\ Window(i, EndBefore(i))' = w
        BY <2>1, <3>1
      <3>3. stack'[i].state = s /\ stack'[i].start = w.start /\ stack'[i].end = w.end /\ w.start >= w.start
        BY <1>5, <1>9, <1>11
      <3>4. QED
        BY <2>2, <3>2, <3>3 DEF Placed
    <2>4. Settled(i)'
      <3>1. ASSUME NEW c \in ChainsFrom(i, prev)
            PROVE  c[i] >= w.start
        <4>1. c[i] \in Nat /\ Fits(contents[i], c[i], prev)
          <5>1. i \in 1..Len(contents)
            BY <1>3 DEF n
          <5>2. c[i] \in 0..Len(payload) /\ Fits(contents[i], c[i], prev)
            BY <5>1, ChainSplit DEF SearchInv
          <5>3. QED
            BY <1>2, <5>2
        <4>2. QED
          BY <1>0, <1>3, <1>4, <4>1, WindowFits DEF SearchInv, n
      <3>0. ChainsFrom(i, prev)' = ChainsFrom(i, prev)
        BY <1>1, InputKept
      <3>2. ChainsFrom(i, EndBefore(i))' = ChainsFrom(i, prev)
        BY <2>1, <3>0
      <3>3. QED
        BY <1>9, <1>11, <3>1, <3>2 DEF Settled
    <2>5. QED
      BY <2>3, <2>4
  <1>16. ASSUME NEW j \in DOMAIN stack
         PROVE  Placed(j)' /\ Settled(j)'
    BY <1>1, <1>2, <1>9, <1>16, FrameKept DEF SearchInv, AllPlaced, AllSettled
  <1>17. AllPlaced' /\ AllSettled'
    BY <1>10, <1>15, <1>16 DEF AllPlaced, AllSettled
  <1>18. Counted'
    <2>1. Explored' = Explored \cup {s}
      <3>1. {stack'[j].state : j \in DOMAIN stack'} = {stack[j].state : j \in DOMAIN stack} \cup {s}
        <4>1. DOMAIN stack' = DOMAIN stack \cup {i}
          BY <1>0, <1>2, <1>3, <1>9, <1>10
        <4>2. ASSUME NEW j \in DOMAIN stack'
              PROVE  stack'[j].state \in {stack[k].state : k \in DOMAIN stack} \cup {s}
          BY <1>9, <1>10, <1>11
        <4>3. s = stack'[i].state /\ i \in DOMAIN stack'
          BY <1>9, <1>11, <4>1
        <4>4. ASSUME NEW j \in DOMAIN stack
              PROVE  j \in DOMAIN stack' /\ stack[j].state = stack'[j].state
          BY <1>9, <4>1
        <4>5. QED
          BY <4>2, <4>3, <4>4
      <3>2. QED
        BY <1>1, <3>1 DEF Explored
    <2>2. s \notin Explored
      <3>1. \A j \in DOMAIN stack : j # i /\ stack[j].state[1] = j
        BY <1>9 DEF SearchInv, TypeOK
      <3>2. s \notin {stack[j].state : j \in DOMAIN stack}
        BY <1>6, <3>1
      <3>3. QED
        BY <1>1, <3>2 DEF Explored
    <2>3. IsFiniteSet(Explored) /\ IsFiniteSet(failed)
      BY StatesFinite DEF SearchInv, Counted
    <2>4. Cardinality(Explored \cup {s}) = Cardinality(Explored) + 1
      BY <2>2, <2>3, FS_AddElement
    <2>5. /\ pushes = Cardinality(Explored) /\ pushes = Cardinality(failed) + Len(stack)
          /\ Explored \subseteq (1..n) \X (0..Len(payload))
          /\ \A j \in DOMAIN stack : stack[j].state \notin failed
      BY DEF SearchInv, Counted, n
    <2>6. \A j \in DOMAIN stack' : stack'[j].state \notin failed'
      BY <1>1, <1>9, <1>10, <1>11, <2>5
    <2>7. Cardinality(failed) \in Nat
      BY <2>3, FS_CardinalityType
    <2>8. pushes' = Cardinality(failed') + Len(stack')
      <3>1. pushes = Cardinality(failed) + Len(stack) /\ failed' = failed
        BY <1>1, <2>5
      <3>2. pushes' = pushes + 1 /\ Len(stack') = Len(stack) + 1 /\ Len(stack) \in Nat
        BY <1>0, <1>1, <1>2, <1>9
      <3>3. QED
        BY <2>7, <3>1, <3>2
    <2>9. pushes' = Cardinality(Explored')
      BY <1>1, <2>1, <2>4, <2>5
    <2>10. Explored' \subseteq ((1..Len(contents)) \X (0..Len(payload)))'
      BY <1>1, <1>6, <2>1, <2>5 DEF n, input
    <2>11. QED
      BY <1>1, <2>3, <2>6, <2>8, <2>9, <2>10 DEF Counted
  <1>19. DeadEnd' /\ Outcome'
    BY <1>1 DEF SearchInv, DeadEnd, Outcome, FirstChainFound
  <1>20. QED
    BY <1>12, <1>13, <1>14, <1>17, <1>18, <1>19 DEF SearchInv

\* What the top frame finds: when find() returns -1 no chain is left, otherwise
\* every chain that is left places the content there or later.
LEMMA Searching ==
  ASSUME SearchInv, pc = "search", NEW i, i = Len(stack), NEW h, h = Hit
  PROVE  /\ i \in 1..Len(contents) /\ i \in Nat /\ DOMAIN stack = 1..i /\ Content = contents[i] /\ Frame = stack[i]
         /\ Len(path) = i - 1 /\ DOMAIN path = 1..(i - 1) /\ EndBefore(i) \in 0..Len(payload)
         /\ h \in Int
         /\ h < 0 => ChainsFrom(i, EndBefore(i)) = {}
         /\ h >= 0 => /\ Fits(contents[i], h, EndBefore(i))
                      /\ \A c \in ChainsFrom(i, EndBefore(i)) : c[i] \in Nat /\ h <= c[i]
  <1> DEFINE s == contents[i]
             start == stack[i].start
             end == stack[i].end
             Hits(p) == InWindow(s, start, end, p)
  <1>1. Len(stack) = Len(path) + 1 /\ Len(path) \in Nat /\ DOMAIN path = 1..Len(path) /\ DOMAIN stack = 1..Len(stack)
    BY StackTypes DEF SearchInv, Shape
  <1>2. /\ Len(path) = i - 1 /\ DOMAIN path = 1..(i - 1)
        /\ i \in DOMAIN stack /\ i \notin DOMAIN path /\ i \in Nat /\ DOMAIN stack = 1..i
    BY <1>1
  <1>3. i \in 1..Len(contents) /\ start \in Nat /\ end \in Nat \cup {None}
    BY <1>2, StackTypes
  <1>4. s \in Contents /\ Len(payload) \in Nat
    BY <1>3, InputTypes DEF SearchInv
  <1>5. EndBefore(i) \in 0..Len(payload) /\ EndBefore(i) \in Nat
    <2>1. i \in 1..(Len(path) + 1) /\ Running
      BY <1>1, <1>2 DEF Running
    <2>2. EndBefore(i) \in 0..Len(payload)
      BY <2>1, EndTypes
    <2>3. QED
      BY <1>4, <2>2
  <1>6. start >= Window(i, EndBefore(i)).start /\ end = Window(i, EndBefore(i)).end
    BY <1>2 DEF SearchInv, AllPlaced, Placed
  <1>7. \A p \in Nat : Fits(s, p, EndBefore(i)) <=>
          /\ p >= Window(i, EndBefore(i)).start
          /\ Window(i, EndBefore(i)).end # None => p + Len(s.pattern) <= Window(i, EndBefore(i)).end
          /\ OccursAt(s, p)
    BY <1>3, <1>5, WindowFits DEF SearchInv
  <1>8. Window(i, EndBefore(i)).start \in Nat
    BY <1>3, <1>5, WindowFits DEF SearchInv
  <1>9. h = find(s, start, end)
    BY DEF Hit, Content, Frame
  <1>10. /\ h \in Int
         /\ h < 0 => \A p \in Nat : ~Hits(p)
         /\ h >= 0 => Hits(h) /\ \A p \in Nat : Hits(p) => h <= p
    <2> HIDE DEF s, start, end
    <2>1. Inputs
      BY DEF SearchInv
    <2>2. QED
      BY <1>3, <1>4, <1>9, <2>1, FindFirst
  <1>11. ASSUME NEW p \in Nat
         PROVE  Hits(p) <=> p >= start /\ Fits(s, p, EndBefore(i))
    BY <1>3, <1>6, <1>7, <1>8 DEF InWindow
  <1>12. ASSUME NEW c \in ChainsFrom(i, EndBefore(i))
         PROVE  c[i] \in Nat /\ Hits(c[i])
    <2>1. c[i] \in 0..Len(payload) /\ Fits(s, c[i], EndBefore(i))
      BY <1>3, ChainSplit DEF SearchInv
    <2>2. c[i] >= start
      BY <1>2 DEF SearchInv, AllSettled, Settled
    <2>3. QED
      BY <1>4, <1>11, <2>1, <2>2
  <1> HIDE DEF Hits, s, start, end
  <1>13. h < 0 => ChainsFrom(i, EndBefore(i)) = {}
    BY <1>10, <1>12
  <1>14. ASSUME h >= 0
         PROVE  /\ Fits(s, h, EndBefore(i))
                /\ \A c \in ChainsFrom(i, EndBefore(i)) : c[i] \in Nat /\ h <= c[i]
    <2>1. h \in Nat
      BY <1>10, <1>14
    <2>2. QED
      BY <1>10, <1>11, <1>12, <1>14, <2>1
  <1>15. Content = contents[i] /\ Frame = stack[i]
    BY DEF Content, Frame
  <1>16. QED
    BY <1>2, <1>3, <1>5, <1>10, <1>13, <1>14, <1>15 DEF s

LEMMA PlaceStep ==
  ASSUME SearchInv, Place
  PROVE  SearchInv'
  <1>0. PICK i, h : i = Len(stack) /\ h = Hit
    OBVIOUS
  <1> DEFINE n == Len(contents)
             F == [state : (1..n) \X Nat, start : Nat, end : Nat \cup {None}]
  <1>1. /\ UNCHANGED input /\ failed' = failed /\ result' = result /\ pushes' = pushes
        /\ pc = "search" /\ h >= 0 /\ pc' = "call"
        /\ path' = Append(path, h)
        /\ stack' = [stack EXCEPT ![i].start = h + 1]
    BY <1>0 DEF Place
  <1>2. /\ i \in 1..n /\ i \in Nat /\ DOMAIN stack = 1..i /\ Len(path) = i - 1 /\ DOMAIN path = 1..(i - 1)
        /\ h \in Int /\ Fits(contents[i], h, EndBefore(i))
        /\ \A c \in ChainsFrom(i, EndBefore(i)) : c[i] \in Nat /\ h <= c[i]
    BY <1>0, <1>1, Searching
  <1>3. prev_end' = MatchEnd(contents[i], h)
    BY <1>0 DEF Place, Content
  <1>4. h \in Nat /\ contents[i] \in Contents /\ i \in DOMAIN stack /\ n \in Nat
    BY <1>1, <1>2, InputTypes DEF SearchInv
  <1>5. path \in Seq(Nat) /\ stack \in Seq(F)
    BY DEF SearchInv, TypeOK
  <1>6. /\ path' \in Seq(Nat) /\ Len(path') = i /\ DOMAIN path' = 1..i
        /\ path'[i] = h /\ \A j \in 1..(i - 1) : path'[j] = path[j]
    BY <1>1, <1>2, <1>4, <1>5
  <1>7. /\ stack[i] = [state |-> stack[i].state, start |-> stack[i].start, end |-> stack[i].end]
        /\ stack[i].state \in (1..n) \X Nat /\ stack[i].end \in Nat \cup {None} /\ stack[i].start \in Nat
    BY <1>4, StackTypes
  <1>8. /\ Len(stack') = i /\ DOMAIN stack' = DOMAIN stack
        /\ \A j \in DOMAIN stack : j # i => stack'[j] = stack[j]
        /\ stack'[i].state = stack[i].state /\ stack'[i].start = h + 1 /\ stack'[i].end = stack[i].end
    <2> DEFINE f == [stack[i] EXCEPT !.start = h + 1]
    <2> HIDE DEF F
    <2>1. f.state = stack[i].state /\ f.start = h + 1 /\ f.end = stack[i].end
      BY <1>7
    <2>2. stack' = [stack EXCEPT ![i] = f]
      BY <1>1
    <2> HIDE DEF f
    <2>3. DOMAIN stack' = DOMAIN stack /\ stack'[i] = f /\ \A j \in DOMAIN stack : j # i => stack'[j] = stack[j]
      BY <1>4, <2>2
    <2>4. Len(stack') = i
      BY <1>0, <1>4, <1>5, <2>2
    <2>5. QED
      BY <2>1, <2>3, <2>4
  <1>9. stack' \in Seq(F)
    <2> DEFINE f == [stack[i] EXCEPT !.start = h + 1]
    <2>1. f \in F
      BY <1>4, <1>7
    <2>2. stack' = [stack EXCEPT ![i] = f]
      BY <1>1
    <2> HIDE DEF f, F
    <2>3. QED
      BY <1>2, <1>4, <1>5, <2>1, <2>2
  <1> HIDE DEF F, n
  <1>10. Inputs' /\ FailedIsHopeless'
    BY <1>1, InputKept, HopelessKept DEF SearchInv
  <1>11. contents' = contents /\ payload' = payload
    BY <1>1 DEF input
  <1>12. TypeOK'
    <2>1. \A j \in DOMAIN stack' : stack'[j].state[1] = j
      BY <1>8 DEF SearchInv, TypeOK
    <2>2. prev_end' \in Nat
      BY <1>3, <1>4, ContentTypes DEF MatchEnd
    <2>3. stack' \in Seq([state : (1..Len(contents')) \X Nat, start : Nat, end : Nat \cup {None}])
      BY <1>9, <1>11 DEF F, n
    <2>4. /\ failed' \subseteq (1..Len(contents')) \X Nat /\ pushes' \in Nat
          /\ result' = None \/ result' \in Seq(Nat)
      BY <1>1, <1>11 DEF SearchInv, TypeOK
    <2>5. pc' \in {"start", "call", "search", "backtrack", "done"}
      BY <1>1
    <2>6. QED
      BY <1>6, <2>1, <2>2, <2>3, <2>4, <2>5 DEF TypeOK
  <1>13. Shape'
    <2>1. Len(path') = Len(stack') /\ stack' # <<>> /\ contents' # <<>> /\ pc' = "call"
      BY <1>1, <1>2, <1>6, <1>8, <1>11 DEF SearchInv, Shape
    <2>2. prev_end' = EndBefore(i + 1)'
      <3>1. i + 1 # 1 /\ i + 1 - 1 = i
        BY <1>2
      <3>2. QED
        BY <1>3, <1>6, <1>11, <3>1 DEF EndBefore, MatchEnd
    <2>3. (Len(stack) + 1)' = i + 1
      BY <1>8
    <2>4. QED
      BY <2>1, <2>2, <2>3 DEF Shape
  <1>14. EndBefore(i)' = EndBefore(i)
    <2>1. i = 1 \/ path'[i - 1] = path[i - 1]
      BY <1>2, <1>6
    <2>2. QED
      BY <1>1, <2>1, EndKept
  <1>15. Placed(i)'
    <2>1. /\ stack[i].state = State(i, EndBefore(i))
          /\ stack[i].start >= Window(i, EndBefore(i)).start
          /\ stack[i].end = Window(i, EndBefore(i)).end
      BY <1>4 DEF SearchInv, AllPlaced, Placed
    <2>2. State(i, EndBefore(i))' = State(i, EndBefore(i)) /\ Window(i, EndBefore(i))' = Window(i, EndBefore(i))
      BY <1>1, <1>14, InputKept
    <2>3. stack'[i].start >= Window(i, EndBefore(i)).start
      <3>1. EndBefore(i) \in Nat
        BY <1>0, <1>1, Searching, InputTypes DEF SearchInv
      <3>2. h >= Window(i, EndBefore(i)).start /\ Window(i, EndBefore(i)).start \in Nat
        BY <1>2, <1>4, <3>1, WindowFits DEF SearchInv, n
      <3>3. QED
        BY <1>4, <1>8, <3>2
    <2>4. Fits(contents[i], h, EndBefore(i))'
      BY <1>1, <1>2, <1>14, InputKept
    <2>5. stack'[i].start = path'[i] + 1 /\ Fits(contents[i], path[i], EndBefore(i))'
      BY <1>6, <1>8, <2>4
    <2>6. QED
      BY <1>8, <2>1, <2>2, <2>3, <2>5 DEF Placed
  <1>16. Settled(i)'
    <2>1. ChainsFrom(i, EndBefore(i))' = ChainsFrom(i, EndBefore(i))
      BY <1>1, <1>14, InputKept
    <2>2. ASSUME NEW c \in ChainsFrom(i, EndBefore(i))
          PROVE  c[i] >= h + 1 \/ c[i] = h
      BY <1>2, <1>4
    <2>3. i \in DOMAIN path' /\ path'[i] = h /\ stack'[i].start = h + 1
      BY <1>2, <1>6, <1>8
    <2>4. QED
      BY <2>1, <2>2, <2>3 DEF Settled
  <1>17. ASSUME NEW j \in DOMAIN stack, j # i
         PROVE  Placed(j)' /\ Settled(j)'
    <2>1. j \in 1..(i - 1) /\ (j = 1 \/ j - 1 \in 1..(i - 1))
      BY <1>2, <1>17
    <2>2. j \in DOMAIN path /\ j \in DOMAIN path' /\ path'[j] = path[j] /\ (j = 1 \/ path'[j - 1] = path[j - 1])
      BY <1>2, <1>6, <2>1
    <2>3. stack'[j] = stack[j] /\ Placed(j) /\ Settled(j)
      BY <1>8, <1>17 DEF SearchInv, AllPlaced, AllSettled
    <2>4. QED
      BY <1>1, <2>2, <2>3, FrameKept
  <1>18. AllPlaced' /\ AllSettled'
    BY <1>8, <1>15, <1>16, <1>17 DEF AllPlaced, AllSettled
  <1>19. Counted'
    <2>1. Len(stack') = Len(stack) /\ \A j \in DOMAIN stack : stack'[j].state = stack[j].state
      BY <1>0, <1>8
    <2>2. QED
      BY <1>1, <1>8, <2>1, CountKept DEF SearchInv
  <1>20. DeadEnd' /\ Outcome'
    BY <1>1 DEF SearchInv, DeadEnd, Outcome, FirstChainFound
  <1>21. QED
    BY <1>10, <1>12, <1>13, <1>18, <1>19, <1>20 DEF SearchInv

LEMMA GiveUpStep ==
  ASSUME SearchInv, GiveUp
  PROVE  SearchInv'
  <1>0. PICK i, h, s : i = Len(stack) /\ h = Hit /\ s = stack[i].state
    OBVIOUS
  <1> DEFINE n == Len(contents)
             F == [state : (1..n) \X Nat, start : Nat, end : Nat \cup {None}]
  <1>1. /\ UNCHANGED input /\ path' = path /\ result' = result /\ pushes' = pushes /\ prev_end' = prev_end
        /\ pc = "search" /\ h < 0
        /\ pc' = IF i = 1 THEN "done" ELSE "backtrack"
        /\ stack' = Front(stack)
    BY <1>0 DEF GiveUp
  <1>2. /\ i \in 1..n /\ i \in Nat /\ DOMAIN stack = 1..i /\ Len(path) = i - 1 /\ DOMAIN path = 1..(i - 1)
        /\ ChainsFrom(i, EndBefore(i)) = {}
    BY <1>0, <1>1, Searching
  <1>3. failed' = failed \cup {s}
    BY <1>0 DEF GiveUp, Frame
  <1>4. i \in DOMAIN stack /\ s \in (1..n) \X Nat /\ s[1] = i
    <2>1. i \in DOMAIN stack
      BY <1>2
    <2>2. QED
      BY <1>0, <2>1, StackTypes
  <1>5. stack \in Seq(F) /\ stack # <<>>
    BY <1>2 DEF SearchInv, TypeOK
  <1> HIDE DEF F
  <1>6. /\ stack' \in Seq(F) /\ Len(stack') = i - 1 /\ DOMAIN stack' = 1..(i - 1)
        /\ \A j \in 1..(i - 1) : stack'[j] = stack[j]
    <2>1. /\ Front(stack) \in Seq(F) /\ Len(Front(stack)) = i - 1
          /\ \A j \in 1..(i - 1) : Front(stack)[j] = stack[j]
      BY <1>0, <1>5, FrontShape
    <2>2. QED
      BY <1>1, <2>1
  <1>7. \A j \in 1..(i - 1) : j \in DOMAIN stack /\ j # i
    BY <1>2
  <1>8. contents' = contents /\ payload' = payload /\ Inputs'
    BY <1>1, InputKept DEF SearchInv
  <1> HIDE DEF n
  <1>9. TypeOK'
    <2>1. \A j \in DOMAIN stack' : stack'[j].state[1] = j
      BY <1>6, <1>7 DEF SearchInv, TypeOK
    <2>2. stack' \in Seq([state : (1..Len(contents')) \X Nat, start : Nat, end : Nat \cup {None}])
      BY <1>6, <1>8 DEF F, n
    <2>3. failed' \subseteq (1..Len(contents')) \X Nat
      BY <1>3, <1>4, <1>8 DEF SearchInv, TypeOK, n
    <2>4. /\ path' \in Seq(Nat) /\ pushes' \in Nat /\ prev_end' \in Nat
          /\ result' = None \/ result' \in Seq(Nat)
      BY <1>1 DEF SearchInv, TypeOK
    <2>5. pc' \in {"start", "call", "search", "backtrack", "done"}
      BY <1>1
    <2>6. QED
      BY <2>1, <2>2, <2>3, <2>4, <2>5 DEF TypeOK
  <1>10. Shape'
    <2>1. contents' # <<>>
      BY <1>1, <1>8 DEF SearchInv, Shape
    <2>2. CASE i = 1
      BY <1>1, <2>2 DEF Shape
    <2>3. CASE i # 1
      <3>1. Len(stack') # 0 /\ Len(path') = Len(stack') /\ pc' = "backtrack"
        BY <1>1, <1>2, <1>6, <2>3
      <3>2. stack' # <<>>
        BY <3>1
      <3>3. QED
        BY <2>1, <3>1, <3>2 DEF Shape
    <2>4. QED
      BY <2>2, <2>3
  <1>11. AllPlaced' /\ AllSettled'
    <2>1. ASSUME NEW j \in 1..(i - 1)
          PROVE  Placed(j)' /\ Settled(j)'
      <3>1. stack'[j] = stack[j] /\ Placed(j) /\ Settled(j)
        BY <1>6, <1>7 DEF SearchInv, AllPlaced, AllSettled
      <3>2. QED
        BY <1>1, <3>1, FrameKept
    <2>2. QED
      BY <1>6, <2>1 DEF AllPlaced, AllSettled
  <1>12. ChainsFrom(i, EndBefore(i))' = {}
    <2>1. EndBefore(i)' = EndBefore(i)
      BY <1>1, EndKept
    <2>2. QED
      BY <1>1, <1>2, <2>1, InputKept
  <1>13. DeadEnd'
    <2>1. (Len(stack) + 1)' = i
      BY <1>2, <1>6
    <2>2. QED
      BY <1>12, <2>1 DEF DeadEnd
  <1>14. FailedIsHopeless'
    <2>1. s = State(i, EndBefore(i))
      BY <1>0, <1>4 DEF SearchInv, AllPlaced, Placed
    <2>2. ChainsFrom(s[1], s[2]) = {}
      BY <1>2, <2>1, StateChains DEF n
    <2>3. \A x \in failed' : ChainsFrom(x[1], x[2]) = {}
      BY <1>3, <2>2 DEF SearchInv, FailedIsHopeless
    <2>4. \A x : ChainsFrom(x[1], x[2])' = ChainsFrom(x[1], x[2])
      BY <1>1, InputKept
    <2>5. QED
      BY <2>3, <2>4 DEF FailedIsHopeless
  <1>15. Counted'
    <2>1. /\ IsFiniteSet(failed) /\ pushes = Cardinality(Explored) /\ pushes = Cardinality(failed) + Len(stack)
          /\ \A j \in DOMAIN stack : stack[j].state \notin failed
          /\ Explored \subseteq (1..n) \X (0..Len(payload))
      BY DEF SearchInv, Counted, n
    <2>2. s \notin failed
      BY <1>0, <1>4, <2>1
    <2>3. IsFiniteSet(failed') /\ Cardinality(failed') = Cardinality(failed) + 1
      BY <1>3, <2>1, <2>2, FS_AddElement
    <2>4. \A j \in DOMAIN stack' : stack'[j].state \notin failed'
      <3>1. ASSUME NEW j \in 1..(i - 1)
            PROVE  stack'[j].state \notin failed /\ stack'[j].state # s
        <4>1. stack'[j] = stack[j] /\ stack[j].state \notin failed
          BY <1>6, <1>7, <2>1
        <4>2. stack[j].state[1] = j
          BY <1>7 DEF SearchInv, TypeOK
        <4>3. QED
          BY <1>4, <1>7, <4>1, <4>2
      <3>2. QED
        BY <1>3, <1>6, <3>1
    <2>5. Explored' = Explored
      <3>1. ASSUME NEW x \in Explored
            PROVE  x \in Explored'
        <4>1. CASE x \in failed
          BY <1>3, <4>1 DEF Explored
        <4>2. CASE x \notin failed
          <5>1. PICK j \in DOMAIN stack : x = stack[j].state
            BY <4>2 DEF Explored
          <5>2. CASE j = i
            BY <1>0, <1>3, <5>1, <5>2 DEF Explored
          <5>3. CASE j # i
            <6>1. j \in 1..(i - 1)
              BY <1>2, <5>3
            <6>2. x = stack'[j].state /\ j \in DOMAIN stack'
              BY <1>6, <5>1, <6>1
            <6>3. QED
              BY <6>2 DEF Explored
          <5>4. QED
            BY <5>2, <5>3
        <4>3. QED
          BY <4>1, <4>2
      <3>2. ASSUME NEW x \in Explored'
            PROVE  x \in Explored
        <4>1. x \in failed \/ x = s \/ \E j \in 1..(i - 1) : x = stack[j].state
          BY <1>3, <1>6 DEF Explored
        <4>2. QED
          BY <1>0, <1>4, <1>7, <4>1 DEF Explored
      <3>3. QED
        BY <3>1, <3>2
    <2>6. Cardinality(failed) \in Nat
      BY <2>1, FS_CardinalityType
    <2>7. pushes' = Cardinality(failed') + Len(stack')
      <3>1. Len(stack') = Len(stack) - 1 /\ Len(stack) \in Nat
        BY <1>0, <1>2, <1>6
      <3>2. pushes' = Cardinality(failed) + Len(stack)
        BY <1>1, <2>1
      <3>3. QED
        BY <2>3, <2>6, <3>1, <3>2
    <2>8. pushes' = Cardinality(Explored')
      BY <1>1, <2>1, <2>5
    <2>9. Explored' \subseteq ((1..Len(contents)) \X (0..Len(payload)))'
      BY <1>8, <2>1, <2>5 DEF n
    <2>10. QED
      BY <2>3, <2>4, <2>7, <2>8, <2>9 DEF Counted
  <1>16. Outcome'
    <2>1. result' = None
      BY <1>1 DEF SearchInv, Outcome
    <2>2. CASE i = 1
      <3>1. EndBefore(i)' = 0
        BY <2>2 DEF EndBefore
      <3>2. ChainsFrom(1, 0)' = {}
        BY <1>12, <2>2, <3>1
      <3>3. QED
        BY <2>1, <3>2 DEF Outcome, FirstChainFound
    <2>3. CASE i # 1
      BY <1>1, <2>1, <2>3 DEF Outcome, FirstChainFound
    <2>4. QED
      BY <2>2, <2>3
  <1>17. QED
    BY <1>8, <1>9, <1>10, <1>11, <1>13, <1>14, <1>15, <1>16 DEF SearchInv

LEMMA BacktrackStep ==
  ASSUME SearchInv, Backtrack
  PROVE  SearchInv'
  <1>0. PICK i : i = Len(stack)
    OBVIOUS
  <1>1. /\ UNCHANGED input /\ UNCHANGED <<prev_end, stack, failed, result, pushes>>
        /\ pc = "backtrack" /\ pc' = "search" /\ path' = Front(path)
    BY DEF Backtrack
  <1>2. stack # <<>> /\ Len(path) = i /\ contents # <<>> /\ path \in Seq(Nat)
    BY <1>0, <1>1 DEF SearchInv, Shape, TypeOK
  <1>3. i \in Nat /\ i # 0 /\ DOMAIN stack = 1..i /\ DOMAIN path = 1..i
    <2>1. Len(stack) \in Nat /\ DOMAIN stack = 1..Len(stack) /\ DOMAIN path = 1..Len(path)
      BY StackTypes
    <2>2. Len(stack) # 0
      BY <1>2 DEF SearchInv, TypeOK
    <2>3. QED
      BY <1>0, <1>2, <2>1, <2>2
  <1>4. i \in DOMAIN stack /\ i \in DOMAIN path /\ i \in 1..Len(contents)
    <2>1. i \in DOMAIN stack
      BY <1>3
    <2>2. QED
      BY <1>3, <2>1, StackTypes
  <1>5. /\ path' \in Seq(Nat) /\ Len(path') = i - 1 /\ DOMAIN path' = 1..(i - 1)
        /\ \A j \in 1..(i - 1) : path'[j] = path[j]
    <2>1. path # <<>>
      BY <1>2, <1>3
    <2>2. /\ Front(path) \in Seq(Nat) /\ Len(Front(path)) = i - 1
          /\ \A j \in 1..(i - 1) : Front(path)[j] = path[j]
      BY <1>2, <2>1, FrontShape
    <2>3. QED
      BY <1>1, <2>2
  <1>6. contents' = contents /\ payload' = payload /\ Inputs'
    BY <1>1, InputKept DEF SearchInv
  <1>7. TypeOK'
    BY <1>1, <1>5, <1>6 DEF SearchInv, TypeOK
  <1>8. Shape'
    <2>1. Len(stack') = Len(path') + 1
      BY <1>0, <1>1, <1>3, <1>5
    <2>2. QED
      BY <1>1, <1>2, <1>6, <2>1 DEF Shape
  <1>9. FailedIsHopeless' /\ Counted' /\ DeadEnd'
    BY <1>1, HopelessKept, CountKept DEF SearchInv, DeadEnd
  <1>10. Outcome'
    BY <1>1 DEF SearchInv, Outcome, FirstChainFound
  <1>11. EndBefore(i)' = EndBefore(i)
    <2>1. i = 1 \/ path'[i - 1] = path[i - 1]
      BY <1>3, <1>5
    <2>2. QED
      BY <1>1, <2>1, EndKept
  <1>12. i \notin DOMAIN path'
    BY <1>3, <1>5
  <1>13. Placed(i)'
    <2>1. /\ stack[i].state = State(i, EndBefore(i))
          /\ stack[i].start >= Window(i, EndBefore(i)).start
          /\ stack[i].end = Window(i, EndBefore(i)).end
      BY <1>4 DEF SearchInv, AllPlaced, Placed
    <2>2. State(i, EndBefore(i))' = State(i, EndBefore(i)) /\ Window(i, EndBefore(i))' = Window(i, EndBefore(i))
      BY <1>1, <1>11, InputKept
    <2>3. QED
      BY <1>1, <1>12, <2>1, <2>2 DEF Placed
  <1>14. Settled(i)'
    <2>1. ChainsFrom(i, EndBefore(i))' = ChainsFrom(i, EndBefore(i))
      BY <1>1, <1>11, InputKept
    <2>2. ASSUME NEW c \in ChainsFrom(i, EndBefore(i))
          PROVE  c[i] >= stack[i].start
      <3>1. CASE c[i] = path[i]
        <4>1. [j \in (i + 1)..Len(contents) |-> c[j]] \in ChainsFrom(i + 1, MatchEnd(contents[i], path[i]))
          BY <1>4, <3>1, ChainSplit DEF SearchInv
        <4>2. EndBefore(i + 1) = MatchEnd(contents[i], path[i])
          <5>1. i + 1 # 1 /\ i + 1 - 1 = i
            BY <1>3
          <5>2. QED
            BY <1>3, <5>1 DEF EndBefore, MatchEnd
        <4>3. ChainsFrom(i + 1, EndBefore(i + 1)) = {}
          BY <1>0, <1>1 DEF SearchInv, DeadEnd
        <4>4. QED
          BY <4>1, <4>2, <4>3
      <3>2. CASE c[i] # path[i]
        BY <1>4, <3>2 DEF SearchInv, AllSettled, Settled
      <3>3. QED
        BY <3>1, <3>2
    <2>3. QED
      BY <1>1, <2>1, <2>2 DEF Settled
  <1>15. ASSUME NEW j \in DOMAIN stack, j # i
         PROVE  Placed(j)' /\ Settled(j)'
    <2>1. j \in 1..(i - 1) /\ (j = 1 \/ j - 1 \in 1..(i - 1))
      BY <1>3, <1>15
    <2>2. j \in DOMAIN path /\ j \in DOMAIN path' /\ path'[j] = path[j] /\ (j = 1 \/ path'[j - 1] = path[j - 1])
      BY <1>3, <1>5, <2>1
    <2>3. stack'[j] = stack[j] /\ Placed(j) /\ Settled(j)
      BY <1>1 DEF SearchInv, AllPlaced, AllSettled
    <2>4. QED
      BY <1>1, <2>2, <2>3, FrameKept
  <1>16. AllPlaced' /\ AllSettled'
    BY <1>1, <1>13, <1>14, <1>15 DEF AllPlaced, AllSettled
  <1>17. QED
    BY <1>6, <1>7, <1>8, <1>9, <1>10, <1>16 DEF SearchInv

LEMMA InitInv == Init => SearchInv
  <1> SUFFICES ASSUME Init PROVE SearchInv
    OBVIOUS
  <1>1. /\ pc = "start" /\ prev_end = 0 /\ stack = <<>> /\ failed = {} /\ path = <<>> /\ result = None /\ pushes = 0
        /\ Inputs
    BY DEF Init, Inputs
  <1>2. stack \in Seq([state : (1..Len(contents)) \X Nat, start : Nat, end : Nat \cup {None}])
    BY <1>1
  <1>3. path \in Seq(Nat) /\ DOMAIN stack = {} /\ Len(stack) = 0
    BY <1>1
  <1>4. TypeOK
    BY <1>1, <1>2, <1>3 DEF TypeOK
  <1>5. Explored = {}
    BY <1>1, <1>3 DEF Explored
  <1>6. IsFiniteSet({}) /\ Cardinality({}) = 0
    BY FS_EmptySet
  <1>7. Counted
    BY <1>1, <1>3, <1>5, <1>6 DEF Counted
  <1>8. Shape /\ DeadEnd /\ FailedIsHopeless /\ Outcome /\ AllPlaced /\ AllSettled
    BY <1>1, <1>3 DEF Shape, DeadEnd, FailedIsHopeless, Outcome, FirstChainFound, AllPlaced, AllSettled
  <1>9. QED
    BY <1>1, <1>4, <1>7, <1>8 DEF SearchInv

LEMMA NextInv == SearchInv /\ [Next]_vars => SearchInv'
  <1> SUFFICES ASSUME SearchInv, [Next]_vars PROVE SearchInv'
    OBVIOUS
  <1>1. CASE Next
    BY <1>1, StartStep, CompleteStep, RefuseStep, EnterStep, PlaceStep, GiveUpStep, BacktrackStep DEF Next
  <1>2. CASE UNCHANGED vars
    <2>1. UNCHANGED input /\ UNCHANGED <<stack, failed, path, pushes>>
          /\ pc' = pc /\ prev_end' = prev_end /\ result' = result
      BY <1>2 DEF vars, input
    <2>2. Inputs' /\ AllPlaced' /\ AllSettled' /\ FailedIsHopeless' /\ Counted'
      BY <2>1, Idle
    <2>3. \A i : EndBefore(i)' = EndBefore(i)
      BY <2>1 DEF EndBefore, input, MatchEnd
    <2>4. TypeOK'
      BY <2>1 DEF SearchInv, TypeOK, input
    <2>5. Shape'
      BY <2>1, <2>3 DEF SearchInv, Shape, input
    <2>6. \A i, prev : ChainsFrom(i, prev)' = ChainsFrom(i, prev)
      BY <2>1, InputKept
    <2>7. DeadEnd' /\ Outcome'
      BY <2>1, <2>3, <2>6 DEF SearchInv, DeadEnd, Outcome, FirstChainFound
    <2>8. QED
      BY <2>2, <2>4, <2>5, <2>7 DEF SearchInv
  <1>3. QED
    BY <1>1, <1>2

\* Whatever contents and payload, the search of match_chain() keeps its
\* bookkeeping: every frame holds a placement, and what was tried and given up
\* leads to no chain.
THEOREM SearchInvariant == Spec => []SearchInv
  BY InitInv, NextInv, PTL DEF Spec

-----------------------------------------------------------------------------
(* What the search promises *)

\* The search's state has its types: no window begins before the payload and
\* every frame belongs to its content.
THEOREM SearchTypes == Spec => []TypeOK
  <1>1. SearchInv => TypeOK
    BY DEF SearchInv
  <1>2. QED
    BY <1>1, SearchInvariant, PTL

\* match_chain() returns the first way to place the contents, or None when
\* there is none, whatever occurrences it had to give up.
THEOREM SearchCorrect == Spec => []FirstChainFound
  <1>1. SearchInv => FirstChainFound
    BY DEF SearchInv, Outcome
  <1>2. QED
    BY <1>1, SearchInvariant, PTL

\* A state remembered as failed has no chain, so refusing it loses no match.
THEOREM RefusalSafe == Spec => []FailedIsHopeless
  <1>1. SearchInv => FailedIsHopeless
    BY DEF SearchInv
  <1>2. QED
    BY <1>1, SearchInvariant, PTL

\* No state is explored twice: the states entered are those that failed and
\* those on the stack.
THEOREM NoStateTwice == Spec => []ExploredOnce
  <1>1. SearchInv => ExploredOnce
    BY DEF SearchInv, Counted, ExploredOnce
  <1>2. QED
    BY <1>1, SearchInvariant, PTL

\* The states entered are bounded by the number of contents times the number
\* of places in the payload: the work stays polynomial, as the documentation
\* of match_chain says.
THEOREM WorkStaysBounded == Spec => []WorkBounded
  <1>1. SearchInv => WorkBounded
    <2> SUFFICES ASSUME SearchInv PROVE WorkBounded
      OBVIOUS
    <2> DEFINE U == (1..Len(contents)) \X (0..Len(payload))
    <2>1. IsFiniteSet(U) /\ Cardinality(U) = Len(contents) * (Len(payload) + 1)
      BY StatesFinite
    <2>2. Explored \in SUBSET U /\ pushes = Cardinality(Explored)
      BY DEF SearchInv, Counted
    <2> HIDE DEF U
    <2>3. Cardinality(Explored) <= Cardinality(U)
      BY <2>1, <2>2, FS_Subset
    <2>4. QED
      BY <2>1, <2>2, <2>3 DEF WorkBounded
  <1>2. QED
    BY <1>1, SearchInvariant, PTL
=============================================================================
