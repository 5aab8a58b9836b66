---------------------------- MODULE ContentMatch ----------------------------
(***************************************************************************)
(* The content search of one rule in one payload                           *)
(* (src/engine/content_matcher.py, match_chain): a depth-first search with *)
(* backtracking that remembers the states that failed.                     *)
(*                                                                         *)
(* The recursion search(i, prev_end) is a stack of frames, one per content *)
(* being placed; the content to place next is Len(stack) + 1.  Positions   *)
(* are offsets from 0.  A pair of path, (position, length), is the         *)
(* position; the length is the pattern's.  "pushes" is history.            *)
(***************************************************************************)
EXTENDS Integers, Sequences, FiniteSets, FiniteSetsExt, SequencesExt

CONSTANTS Lower,         \* bytes.lower(), on the bytes of the alphabet
          Payloads,      \* the payloads searched
          ContentLists,  \* the content lists of rules
          None           \* Python's None

Bytes == DOMAIN Lower

\* A content as validate_contents lets it through: a non-empty pattern, not
\* both kinds of window, and a window the pattern fits in.
Contents ==
  { s \in [pattern : Seq(Bytes), nocase : BOOLEAN, offset : Nat \cup {None}, depth : Nat \cup {None},
           distance : Int \cup {None}, within : Nat \cup {None}] :
      /\ s.pattern # <<>>
      /\ s.depth # None => s.depth >= Len(s.pattern)
      /\ s.within # None => s.within >= Len(s.pattern)
      /\ (s.offset = None /\ s.depth = None) \/ (s.distance = None /\ s.within = None) }

ASSUME SearchAssumption ==
  /\ None \notin Int
  /\ Payloads \subseteq Seq(Bytes)
  /\ ContentLists \subseteq Seq(Contents)

VARIABLES payload, contents,  \* the input
          pc,                 \* start, call, search, backtrack or done
          prev_end,           \* argument of the call
          stack,              \* the frames of search
          failed,             \* the states known to fail
          path,               \* the positions chosen so far
          result,             \* what match_chain returned
          pushes              \* number of states explored

vars == <<payload, contents, pc, prev_end, stack, failed, path, result, pushes>>

input == <<payload, contents>>

-----------------------------------------------------------------------------
(* Occurrences and windows *)

Same(nocase, x, y) == IF nocase THEN Lower[x] = Lower[y] ELSE x = y

OccursAt(spec, pos) ==
  /\ pos + Len(spec.pattern) <= Len(payload)
  /\ \A k \in DOMAIN spec.pattern : Same(spec.nocase, payload[pos + k], spec.pattern[k])

Smaller(a, b) == IF a < b THEN a ELSE b
Larger(a, b) == IF a > b THEN a ELSE b

\* The first occurrence inside the window, or -1.
find(spec, start, end) ==
  LET stop == IF end = None THEN Len(payload) ELSE Smaller(end, Len(payload))
      hits == {pos \in Larger(0, start)..(stop - Len(spec.pattern)) : OccursAt(spec, pos)}
  IN IF hits = {} THEN -1 ELSE Min(hits)

is_relative(spec) == spec.distance # None \/ spec.within # None

OrZero(value) == IF value = None THEN 0 ELSE value

WindowFrom(start, size) == [start |-> start, end |-> IF size = None THEN None ELSE start + size]

absolute_window(spec) == WindowFrom(OrZero(spec.offset), spec.depth)

\* Mutant: a negative distance may reach before the payload.
RelativeUnclamped(spec, prev) == WindowFrom(prev + OrZero(spec.distance), spec.within)

relative_window(spec, prev) == WindowFrom(Larger(0, prev + OrZero(spec.distance)), spec.within)

\* Mutant: the next content is placed relative to where this one began.
MatchBegin(spec, pos) == pos

MatchEnd(spec, pos) == pos + Len(spec.pattern)

\* Mutant: what follows a content is taken to depend on the content only.
StateOfContent(i, prev) == <<i, 0>>

\* What the outcome of search(i, prev_end) depends on.
State(i, prev) == <<i, IF is_relative(contents[i]) THEN prev ELSE 0>>

-----------------------------------------------------------------------------
(* The search *)

Init ==
  /\ payload \in Payloads
  /\ contents \in ContentLists
  /\ pc = "start"
  /\ prev_end = 0
  /\ stack = <<>>
  /\ failed = {}
  /\ path = <<>>
  /\ result = None
  /\ pushes = 0

\* A rule without contents matches, an empty payload does not.
Start ==
  /\ pc = "start"
  /\ IF contents = <<>> THEN pc' = "done" /\ result' = <<>>
     ELSE pc' = (IF payload = <<>> THEN "done" ELSE "call") /\ UNCHANGED result
  /\ UNCHANGED <<input, prev_end, stack, failed, path, pushes>>

\* All contents are placed.
Complete ==
  /\ pc = "call" /\ Len(stack) = Len(contents)
  /\ result' = path
  /\ pc' = "done"
  /\ UNCHANGED <<input, prev_end, stack, failed, path, pushes>>

\* search() is entered in a state it already failed in.
Refuse ==
  /\ pc = "call" /\ Len(stack) < Len(contents)
  /\ State(Len(stack) + 1, prev_end) \in failed
  /\ pc' = "backtrack"
  /\ UNCHANGED <<input, prev_end, stack, failed, path, result, pushes>>

Enter ==
  LET i      == Len(stack) + 1
      window == IF is_relative(contents[i]) THEN relative_window(contents[i], prev_end)
                                            ELSE absolute_window(contents[i])
  IN /\ pc = "call" /\ i <= Len(contents)
     /\ State(i, prev_end) \notin failed
     /\ stack' = Append(stack, [state |-> State(i, prev_end),
                                start |-> window.start, end |-> window.end])
     /\ pushes' = pushes + 1
     /\ pc' = "search"
     /\ UNCHANGED <<input, prev_end, failed, path, result>>

Frame == stack[Len(stack)]
Content == contents[Len(stack)]
Hit == find(Content, Frame.start, Frame.end)

\* Mutant: the search for the next occurrence starts at this one.
PlaceAgain ==
  /\ pc = "search" /\ Hit >= 0
  /\ path' = Append(path, Hit)
  /\ stack' = [stack EXCEPT ![Len(stack)].start = Hit]
  /\ prev_end' = MatchEnd(Content, Hit)
  /\ pc' = "call"
  /\ UNCHANGED <<input, failed, result, pushes>>

\* An occurrence is found: the next content is tried after it, and the next
\* occurrence, overlapping ones included, when that fails.
Place ==
  /\ pc = "search" /\ Hit >= 0
  /\ path' = Append(path, Hit)
  /\ stack' = [stack EXCEPT ![Len(stack)].start = Hit + 1]
  /\ prev_end' = MatchEnd(Content, Hit)
  /\ pc' = "call"
  /\ UNCHANGED <<input, failed, result, pushes>>

\* Mutant: the failure is not remembered.
GiveUpForgetting ==
  /\ pc = "search" /\ Hit < 0
  /\ stack' = Front(stack)
  /\ pc' = IF Len(stack) = 1 THEN "done" ELSE "backtrack"
  /\ UNCHANGED <<input, prev_end, failed, path, result, pushes>>

\* No occurrence is left: search() returns False.
GiveUp ==
  /\ pc = "search" /\ Hit < 0
  /\ failed' = failed \cup {Frame.state}
  /\ stack' = Front(stack)
  /\ pc' = IF Len(stack) = 1 THEN "done" ELSE "backtrack"
  /\ UNCHANGED <<input, prev_end, path, result, pushes>>

\* The caller takes its position back and looks for the next one.
Backtrack ==
  /\ pc = "backtrack"
  /\ path' = Front(path)
  /\ pc' = "search"
  /\ UNCHANGED <<input, prev_end, stack, failed, result, pushes>>

Next == Start \/ Complete \/ Refuse \/ Enter \/ Place \/ GiveUp \/ Backtrack

Spec == Init /\ [][Next]_vars

\* One thread runs the search to its end.
FairSpec == Spec /\ WF_vars(Next)

-----------------------------------------------------------------------------
(* What a chain is, by the rules of the contents and without a search *)

\* Content spec may stand at pos when the content before it ended at prev.
Fits(spec, pos, prev) ==
  LET relative == is_relative(spec)
      from == IF relative THEN Larger(0, prev + OrZero(spec.distance)) ELSE OrZero(spec.offset)
      size == IF relative THEN spec.within ELSE spec.depth
  IN /\ pos >= from
     /\ size # None => pos + Len(spec.pattern) <= from + size
     /\ OccursAt(spec, pos)

\* The ways to place contents i, i+1, ... after an end at prev.
ChainsFrom(i, prev) ==
  { c \in [i..Len(contents) -> 0..Len(payload)] :
      \A j \in i..Len(contents) :
        Fits(contents[j], c[j], IF j = i THEN prev ELSE c[j - 1] + Len(contents[j - 1].pattern)) }

Precedes(c, d) ==
  \E j \in DOMAIN c : c[j] < d[j] /\ \A k \in DOMAIN c : k < j => c[k] = d[k]

-----------------------------------------------------------------------------
(* Properties *)

TypeOK ==
  /\ pc \in {"start", "call", "search", "backtrack", "done"}
  /\ prev_end \in Nat
  /\ stack \in Seq([state : (1..Len(contents)) \X Nat, start : Nat, end : Nat \cup {None}])
  /\ \A i \in DOMAIN stack : stack[i].state[1] = i
  /\ failed \subseteq (1..Len(contents)) \X Nat
  /\ path \in Seq(Nat)
  /\ result = None \/ result \in Seq(Nat)
  /\ pushes \in Nat

\* A rule matches exactly when its contents can be placed, and the positions
\* reported are those of the first way to place them, whatever occurrences had
\* to be given up before.
FirstChainFound ==
  pc = "done" =>
    LET chains == ChainsFrom(1, 0)
    IN IF chains = {} THEN result = None
       ELSE result \in chains /\ \A c \in chains : ~Precedes(c, result)

\* Only states from which no chain goes on are remembered as failed, so that
\* refusing one never loses a match.
FailedIsHopeless == \A s \in failed : ChainsFrom(s[1], s[2]) = {}

\* No state is explored twice, the bound on the work the documentation states:
\* the states entered so far are those that failed and those on the stack.
ExploredOnce ==
  LET active == {stack[i].state : i \in DOMAIN stack}
  IN active \cap failed = {} /\ pushes = Cardinality(failed) + Len(stack)

\* The search comes to an end on every input.
Terminates == <>(pc = "done")
=============================================================================
