-------------------------- MODULE RuleLoaderProofs --------------------------
(***************************************************************************)
(* Of the parser: its verdict does not depend on the order of its checks,  *)
(* and a rule it accepts is one the engine can use.  Of the loader: its    *)
(* counters balance, of the acceptable rules of a sid the first, and only  *)
(* the first, becomes active, and every rule line is reported once and in  *)
(* order, for all files, configurations and failures.                      *)
(*                                                                         *)
(* The theorems about the parser are about operators.  The invariant of    *)
(* the loader ties the counters, the active rules, the sids seen and the   *)
(* repository to the records, record by record; a second one ties the      *)
(* records to the place in the files that the loader has come to.          *)
(***************************************************************************)
EXTENDS RuleLoader, FiniteSetTheorems, WellFoundedInduction, SequenceTheorems, TLAPS

-----------------------------------------------------------------------------
(* Least and greatest places *)

LEMMA LeastExists ==
  ASSUME NEW S \in SUBSET Nat, S # {}
  PROVE  Min(S) \in S /\ \A y \in S : Min(S) <= y
  <1> DEFINE R == OpToRel(<, Nat)
  <1>1. \E x \in S : \A y \in S : ~ (<<y, x>> \in R)
    <2>1. IsWellFoundedOn(R, Nat)
      BY NatLessThanWellFounded
    <2> HIDE DEF R
    <2>2. QED
      BY <2>1, WFMin
  <1>2. \A m, n \in Nat : <<m, n>> \in R <=> m < n
    BY DEF OpToRel
  <1>3. PICK x \in S : \A y \in S : ~ (<<y, x>> \in R)
    BY <1>1
  <1> HIDE DEF R
  <1>4. ASSUME NEW y \in S PROVE x <= y
    <2>1. x \in Nat /\ y \in Nat
      OBVIOUS
    <2>2. ~ (y < x)
      BY <1>2, <1>3, <2>1
    <2>3. QED
      BY <2>1, <2>2
  <1>5. QED
    BY <1>3, <1>4 DEF Min

LEMMA GreatestExists ==
  ASSUME NEW S \in SUBSET Nat, S # {}, NEW b \in Nat, \A x \in S : x <= b
  PROVE  Max(S) \in S /\ \A y \in S : y <= Max(S)
  <1> DEFINE T == {b - x : x \in S}
  <1>1. T \in SUBSET Nat /\ T # {}
    <2>1. \A x \in S : x \in Nat /\ x <= b
      OBVIOUS
    <2>2. \A x \in S : b - x \in Nat
      BY <2>1
    <2>3. QED
      BY <2>2
  <1>2. Min(T) \in T /\ \A y \in T : Min(T) <= y
    BY <1>1, LeastExists
  <1>3. PICK x \in S : Min(T) = b - x
    BY <1>2
  <1> HIDE DEF T
  <1>4. ASSUME NEW y \in S PROVE y <= x
    <2>1. b - y \in T
      BY DEF T
    <2>2. b - x <= b - y
      BY <1>2, <1>3, <2>1
    <2>3. QED
      BY <2>2
  <1>5. x \in S /\ \A y \in S : x >= y
    BY <1>4
  <1>6. /\ Max(S) \in S /\ \A y \in S : Max(S) >= y
    BY <1>5 DEF Max
  <1>7. QED
    BY <1>6

\* First() finds a problem if there is one, with no other before it.
LEMMA FirstProblem ==
  ASSUME NEW f, DOMAIN f \subseteq Nat
  PROVE  /\ First(f) = None <=> \A i \in DOMAIN f : f[i] = None
         /\ First(f) # None =>
              \E i \in DOMAIN f : /\ First(f) = f[i] /\ f[i] # None
                                  /\ \A j \in DOMAIN f : j < i => f[j] = None
  <1> DEFINE found == {i \in DOMAIN f : f[i] # None}
  <1>1. CASE found = {}
    BY <1>1 DEF First
  <1>2. CASE found # {}
    <2>1. found \in SUBSET Nat
      OBVIOUS
    <2>2. Min(found) \in found /\ \A y \in found : Min(found) <= y
      BY <1>2, <2>1, LeastExists
    <2>3. First(f) = f[Min(found)]
      BY <1>2 DEF First
    <2> HIDE DEF found
    <2>4. PICK i \in found : i = Min(found)
      BY <2>2
    <2>5. i \in DOMAIN f /\ f[i] # None /\ First(f) = f[i]
      BY <2>3, <2>4 DEF found
    <2>6. ASSUME NEW j \in DOMAIN f, j < i PROVE f[j] = None
      <3>1. i \in Nat /\ j \in Nat
        BY <2>5
      <3>2. j \notin found
        BY <2>2, <2>4, <2>6, <3>1
      <3>3. QED
        BY <3>2 DEF found
    <2>7. QED
      BY <2>5, <2>6
  <1>3. QED
    BY <1>1, <1>2

-----------------------------------------------------------------------------
(* Reasons *)

\* The reasons the parser gives; the loader has two of its own.
ParserCodes == InvalidCodes \ {"duplicate_sid", "internal_error"}

\* A problem is something invalid or something unsupported, or none.
Faulty(x) == x = None \/ x \in {"invalid"} \X ParserCodes
Strange(x) == x = None \/ x \in {"unsupported"} \X UnsupportedCodes
Problematic(x) == Faulty(x) \/ Strange(x)

LEMMA Kinds ==
  ASSUME NEW x
  PROVE  /\ Faulty(x) => /\ x # None <=> IsInvalid(x)
                         /\ x # None => x[1] = "invalid" /\ x \in REASONS
                         /\ OnlyInvalid(x) = x
         /\ Strange(x) => /\ ~IsInvalid(x) /\ OnlyInvalid(x) = None
                          /\ x # None => x[1] = "unsupported" /\ x \in REASONS
  <1>1. /\ x \in {"invalid"} \X ParserCodes => x \in REASONS /\ x # None /\ x[1] = "invalid"
        /\ x \in {"unsupported"} \X UnsupportedCodes => x \in REASONS /\ x # None /\ x[1] = "unsupported"
    BY NoReasonAssumption DEF REASONS, ParserCodes
  <1>2. QED
    BY <1>1 DEF Faulty, Strange, IsInvalid, OnlyInvalid

LEMMA InvalidFaulty == \A code \in ParserCodes : Invalid(code) # None /\ Faulty(Invalid(code))
  <1>1. \A code \in ParserCodes : Invalid(code) \in {"invalid"} \X ParserCodes
    BY DEF Invalid
  <1>2. QED
    BY <1>1, NoReasonAssumption DEF Faulty, REASONS, ParserCodes

LEMMA UnsupportedStrange ==
  \A code \in UnsupportedCodes : Unsupported(code) # None /\ Strange(Unsupported(code))
  <1>1. \A code \in UnsupportedCodes : Unsupported(code) \in {"unsupported"} \X UnsupportedCodes
    BY DEF Unsupported
  <1>2. QED
    BY <1>1, NoReasonAssumption DEF Strange, REASONS

-----------------------------------------------------------------------------
(* The header *)

LEMMA FieldProblem ==
  ASSUME NEW i \in 1..HEADER_TOKEN_COUNT, NEW word
  PROVE  Problematic(token_problem(Fields[i], word))
  <1>1. /\ Fields[i].invalid \in ParserCodes
        /\ word \in Fields[i].foreign => Fields[i].unsupported \in UnsupportedCodes
    <2>1. i \in 1..7
      BY DEF HEADER_TOKEN_COUNT
    <2>2. CASE i = 1
      BY <2>2 DEF Fields, ActionToken, Token, ParserCodes, InvalidCodes, UnsupportedCodes
    <2>3. CASE i = 2
      BY <2>3 DEF Fields, ProtocolToken, Token, ParserCodes, InvalidCodes, UnsupportedCodes
    <2>4. CASE i = 3 \/ i = 6
      BY <2>4 DEF Fields, IpToken, Token, ParserCodes, InvalidCodes, UnsupportedCodes
    <2>5. CASE i = 4 \/ i = 7
      BY <2>5 DEF Fields, PortToken, Token, ParserCodes, InvalidCodes, UnsupportedCodes
    <2>6. CASE i = 5
      BY <2>6 DEF Fields, DirectionToken, Token, ParserCodes, InvalidCodes, UnsupportedCodes
    <2>7. QED
      BY <2>1, <2>2, <2>3, <2>4, <2>5, <2>6
  <1>2. QED
    BY <1>1, InvalidFaulty, UnsupportedStrange DEF token_problem, Problematic, Faulty

\* The header is invalid if one of its tokens is, whatever the others are.
LEMMA HeaderVerdict ==
  ASSUME NEW tokens
  PROVE  LET header == parse_header(tokens)
             problem(i) == token_problem(Fields[i], tokens[i].word)
         IN /\ Problematic(header)
            /\ IsInvalid(header) <=> \E i \in 1..HEADER_TOKEN_COUNT : IsInvalid(problem(i))
            /\ header # None <=> \E i \in 1..HEADER_TOKEN_COUNT : problem(i) # None
  <1> DEFINE problem(i) == token_problem(Fields[i], tokens[i].word)
             all == HeaderProblems(tokens)
             bad == [i \in 1..HEADER_TOKEN_COUNT |-> OnlyInvalid(all[i])]
             header == parse_header(tokens)
  <1>1. \A i \in 1..HEADER_TOKEN_COUNT : Problematic(problem(i))
    BY FieldProblem
  <1>2. DOMAIN all = 1..HEADER_TOKEN_COUNT /\ \A i \in 1..HEADER_TOKEN_COUNT : all[i] = problem(i)
    BY DEF HeaderProblems
  <1>3. 1..HEADER_TOKEN_COUNT \subseteq Nat
    BY DEF HEADER_TOKEN_COUNT
  <1> HIDE DEF problem, all
  <1>4. /\ First(all) = None <=> \A i \in 1..HEADER_TOKEN_COUNT : problem(i) = None
        /\ First(all) # None => \E i \in 1..HEADER_TOKEN_COUNT : First(all) = problem(i)
    BY <1>2, <1>3, FirstProblem
  <1>5. \A i \in 1..HEADER_TOKEN_COUNT : OnlyInvalid(problem(i)) # None <=> IsInvalid(problem(i))
    BY DEF OnlyInvalid, IsInvalid
  <1>6. /\ First(bad) = None <=> \A i \in 1..HEADER_TOKEN_COUNT : ~IsInvalid(problem(i))
        /\ First(bad) # None =>
             \E i \in 1..HEADER_TOKEN_COUNT : First(bad) = OnlyInvalid(problem(i))
    <2>1. DOMAIN bad = 1..HEADER_TOKEN_COUNT
          /\ \A i \in 1..HEADER_TOKEN_COUNT : bad[i] = OnlyInvalid(problem(i))
      BY <1>2
    <2> HIDE DEF bad
    <2>2. QED
      BY <1>3, <1>5, <2>1, FirstProblem
  <1> HIDE DEF bad
  <1>7. header = IF First(bad) # None THEN First(bad) ELSE First(all)
    <2> DEFINE two == <<First(bad), First(all)>>
    <2>1. DOMAIN two = 1..2 /\ two[1] = First(bad) /\ two[2] = First(all)
      OBVIOUS
    <2>2. header = First(two)
      BY DEF parse_header, bad, all
    <2> HIDE DEF two
    <2>3. /\ First(two) = None <=> \A i \in 1..2 : two[i] = None
          /\ First(two) # None => \E i \in 1..2 : First(two) = two[i] /\ two[i] # None
                                    /\ \A j \in 1..2 : j < i => two[j] = None
      BY <2>1, FirstProblem
    <2>4. QED
      BY <2>1, <2>2, <2>3
  <1> HIDE DEF header
  <1>8. CASE First(bad) # None
    <2>1. PICK i \in 1..HEADER_TOKEN_COUNT : First(bad) = OnlyInvalid(problem(i))
      BY <1>6, <1>8
    <2>2. IsInvalid(problem(i)) /\ problem(i) # None /\ header = problem(i)
      BY <1>7, <1>8, <2>1 DEF IsInvalid, OnlyInvalid
    <2>3. Problematic(header) /\ IsInvalid(header) /\ header # None
      BY <1>1, <2>2
    <2>4. QED
      BY <2>2, <2>3 DEF problem, header
  <1>9. CASE First(bad) = None
    <2>1. \A i \in 1..HEADER_TOKEN_COUNT : ~IsInvalid(problem(i))
      BY <1>6, <1>9
    <2>2. header = First(all)
      BY <1>7, <1>9
    <2>3. header = None \/ \E i \in 1..HEADER_TOKEN_COUNT : header = problem(i)
      BY <1>4, <2>2
    <2>4. Problematic(header) /\ ~IsInvalid(header)
      BY <1>1, <2>1, <2>3 DEF Problematic, Faulty, IsInvalid
    <2>5. QED
      BY <1>4, <2>1, <2>2, <2>4 DEF problem, header
  <1>10. QED
    BY <1>8, <1>9

-----------------------------------------------------------------------------
(* The options.  The options of a line have the places 1..n. *)

LEMMA OptionPlaces ==
  ASSUME NEW options, NEW n \in Int, DOMAIN options = 1..n, NEW key
  PROVE  /\ Of(options, key) \subseteq DOMAIN options /\ DOMAIN options \subseteq Nat
         /\ Of(options, key) # {} =>
              /\ ValueOf(options, key, None) = options[Min(Of(options, key))].value
              /\ Min(Of(options, key)) \in Of(options, key)
  <1>1. Of(options, key) \subseteq DOMAIN options /\ DOMAIN options \subseteq Nat
    BY DEF Of
  <1>2. Of(options, key) # {} => Min(Of(options, key)) \in Of(options, key)
    <2> HIDE DEF Of
    <2>1. Of(options, key) \in SUBSET Nat
      BY <1>1
    <2>2. QED
      BY <2>1, LeastExists
  <1>3. QED
    BY <1>1, <1>2 DEF ValueOf

IdentificationFine(options) ==
  /\ \A i \in DOMAIN options :
       options[i].key \in IDENTIFICATION_KEYWORDS => good_identification(options[i].key, options[i].value)
  /\ \A i, j \in DOMAIN options :
       i # j /\ options[i].key = options[j].key => options[i].key \notin IDENTIFICATION_KEYWORDS
  /\ Of(options, "sid") # {} /\ Of(options, "msg") # {}

LEMMA IdentificationVerdict ==
  ASSUME NEW options, NEW n \in Int, DOMAIN options = 1..n
  PROVE  /\ Faulty(parse_identification(options))
         /\ parse_identification(options) = None <=> IdentificationFine(options)
  <1> DEFINE problem(i) == identification_problem(options, i)
             f == [i \in DOMAIN options |-> problem(i)]
             nosid == IF Of(options, "sid") = {} THEN Invalid("missing_sid") ELSE None
             nomsg == IF Of(options, "msg") = {} THEN Invalid("missing_msg") ELSE None
             three == <<First(f), nosid, nomsg>>
  <1>1. {"duplicate_option", "missing_msg", "bad_sid", "bad_option_value", "missing_sid"} \subseteq ParserCodes
    BY DEF ParserCodes, InvalidCodes
  <1>2. \A i \in DOMAIN options :
          /\ Faulty(problem(i))
          /\ problem(i) = None <=>
               (options[i].key \in IDENTIFICATION_KEYWORDS =>
                 /\ good_identification(options[i].key, options[i].value)
                 /\ \A j \in 1..(i - 1) : options[j].key # options[i].key)
    <2> SUFFICES ASSUME NEW i \in DOMAIN options
                 PROVE  /\ Faulty(problem(i))
                        /\ problem(i) = None <=>
                             (options[i].key \in IDENTIFICATION_KEYWORDS =>
                               /\ good_identification(options[i].key, options[i].value)
                               /\ \A j \in 1..(i - 1) : options[j].key # options[i].key)
      OBVIOUS
    <2> DEFINE key == options[i].key
               code == CASE key = "msg" -> "missing_msg" [] key = "sid" -> "bad_sid" [] OTHER -> "bad_option_value"
    <2>1. code \in ParserCodes
      BY <1>1
    <2> HIDE DEF code
    <2>2. problem(i) =
            IF key \notin IDENTIFICATION_KEYWORDS THEN None
            ELSE IF \E j \in 1..(i - 1) : options[j].key = key THEN Invalid("duplicate_option")
            ELSE IF good_identification(key, options[i].value) THEN None
            ELSE Invalid(code)
      BY DEF identification_problem, code
    <2>3. Invalid("duplicate_option") # None /\ Faulty(Invalid("duplicate_option"))
          /\ Invalid(code) # None /\ Faulty(Invalid(code)) /\ Faulty(None)
      BY <1>1, <2>1, InvalidFaulty DEF Faulty
    <2> HIDE DEF problem
    <2>4. QED
      BY <2>2, <2>3
  <1>3. /\ First(f) = None <=> \A i \in DOMAIN options : problem(i) = None
        /\ First(f) # None => \E i \in DOMAIN options : First(f) = problem(i)
    <2>1. DOMAIN f = DOMAIN options /\ \A i \in DOMAIN options : f[i] = problem(i)
      OBVIOUS
    <2>2. DOMAIN options \subseteq Nat
      OBVIOUS
    <2> HIDE DEF f, problem
    <2>3. QED
      BY <2>1, <2>2, FirstProblem
  <1>4. Faulty(First(f)) /\ Faulty(nosid) /\ Faulty(nomsg)
        /\ (nosid = None <=> Of(options, "sid") # {}) /\ (nomsg = None <=> Of(options, "msg") # {})
    <2>1. Faulty(None)
      BY DEF Faulty
    <2>2. /\ Invalid("missing_sid") # None /\ Faulty(Invalid("missing_sid"))
          /\ Invalid("missing_msg") # None /\ Faulty(Invalid("missing_msg"))
      BY <1>1, InvalidFaulty
    <2>3. Faulty(First(f))
      <3> HIDE DEF problem, f
      <3>1. QED
        BY <1>2, <1>3, <2>1
    <2>4. nosid = (IF Of(options, "sid") = {} THEN Invalid("missing_sid") ELSE None)
          /\ nomsg = (IF Of(options, "msg") = {} THEN Invalid("missing_msg") ELSE None)
      OBVIOUS
    <2> HIDE DEF f, nosid, nomsg
    <2>5. Faulty(nosid) /\ (nosid = None <=> Of(options, "sid") # {})
      BY <2>1, <2>2, <2>4
    <2>6. Faulty(nomsg) /\ (nomsg = None <=> Of(options, "msg") # {})
      BY <2>1, <2>2, <2>4
    <2>7. QED
      BY <2>3, <2>5, <2>6
  <1>5. /\ First(three) = None <=> First(f) = None /\ nosid = None /\ nomsg = None
        /\ First(three) # None => First(three) \in {First(f), nosid, nomsg}
    <2>1. DOMAIN three = 1..3 /\ three[1] = First(f) /\ three[2] = nosid /\ three[3] = nomsg
      OBVIOUS
    <2> HIDE DEF three, f, nosid, nomsg
    <2>2. QED
      BY <2>1, FirstProblem
  <1>6. parse_identification(options) = First(three)
    BY DEF parse_identification
  <1>7. (\A i \in DOMAIN options : problem(i) = None) <=>
          /\ \A i \in DOMAIN options :
               options[i].key \in IDENTIFICATION_KEYWORDS => good_identification(options[i].key, options[i].value)
          /\ \A i, j \in DOMAIN options :
               i # j /\ options[i].key = options[j].key => options[i].key \notin IDENTIFICATION_KEYWORDS
    <2>1. ASSUME \A i \in DOMAIN options : problem(i) = None,
                 NEW i \in DOMAIN options, NEW j \in DOMAIN options, i # j,
                 options[i].key = options[j].key
          PROVE  options[i].key \notin IDENTIFICATION_KEYWORDS
      <3>1. i \in 1..(j - 1) \/ j \in 1..(i - 1)
        BY <2>1
      <3> HIDE DEF problem
      <3>2. QED
        BY <1>2, <2>1, <3>1
    <2>2. \A i \in DOMAIN options : \A j \in 1..(i - 1) : j \in DOMAIN options /\ j # i
      OBVIOUS
    <2> HIDE DEF problem
    <2>3. ASSUME \A i \in DOMAIN options :
                   options[i].key \in IDENTIFICATION_KEYWORDS => good_identification(options[i].key, options[i].value),
                 \A i, j \in DOMAIN options :
                   i # j /\ options[i].key = options[j].key => options[i].key \notin IDENTIFICATION_KEYWORDS,
                 NEW i \in DOMAIN options
          PROVE  problem(i) = None
      <3>1. options[i].key \in IDENTIFICATION_KEYWORDS => \A j \in 1..(i - 1) : options[j].key # options[i].key
        BY <2>2, <2>3
      <3>2. QED
        BY <1>2, <2>3, <3>1
    <2>4. ASSUME \A i \in DOMAIN options : problem(i) = None, NEW i \in DOMAIN options,
                 options[i].key \in IDENTIFICATION_KEYWORDS
          PROVE  good_identification(options[i].key, options[i].value)
      BY <1>2, <2>4
    <2>5. QED
      BY <2>1, <2>3, <2>4
  <1> HIDE DEF problem, f, nosid, nomsg, three
  <1>8. Faulty(parse_identification(options))
    BY <1>4, <1>5, <1>6 DEF Faulty
  <1>9. QED
    BY <1>3, <1>4, <1>5, <1>6, <1>7, <1>8 DEF IdentificationFine

-----------------------------------------------------------------------------
(* Contents *)

LEMMA OwnerProperties ==
  ASSUME NEW options, NEW n \in Int, DOMAIN options = 1..n, NEW i \in DOMAIN options
  PROVE  /\ Owner(options, i) \in {0} \cup Of(options, "content")
         /\ Owner(options, i) \in Nat /\ Owner(options, i) <= i
         /\ \A c \in Of(options, "content") : c <= i => c <= Owner(options, i)
  <1> DEFINE S == {0} \cup {j \in Of(options, "content") : j <= i}
  <1>1. S \in SUBSET Nat /\ S # {} /\ i \in Nat /\ \A x \in S : x <= i
    BY DEF Of
  <1>2. Owner(options, i) = Max(S)
    BY DEF Owner
  <1> HIDE DEF S
  <1>3. Max(S) \in S /\ \A y \in S : y <= Max(S)
    BY <1>1, GreatestExists
  <1>4. QED
    BY <1>1, <1>2, <1>3 DEF S

\* Between a content and the next one all options belong to it.
LEMMA SameOwner ==
  ASSUME NEW options, NEW n \in Int, DOMAIN options = 1..n,
         NEW i \in DOMAIN options, NEW j \in DOMAIN options, j < i, Owner(options, i) # 0
  PROVE  j \in Owner(options, i)..(i - 1) <=> Owner(options, j) = Owner(options, i)
  <1> DEFINE a == Owner(options, i)
             b == Owner(options, j)
  <1>1. /\ a \in Of(options, "content") /\ a \in Nat /\ a <= i
        /\ \A c \in Of(options, "content") : c <= i => c <= a
    BY OwnerProperties
  <1>2. /\ b \in {0} \cup Of(options, "content") /\ b \in Nat /\ b <= j
        /\ \A c \in Of(options, "content") : c <= j => c <= b
    BY OwnerProperties
  <1>3. i \in Nat /\ j \in Nat
    OBVIOUS
  <1> HIDE DEF a, b
  <1>4. a <= j => a = b
    BY <1>1, <1>2, <1>3
  <1>5. a = b => a <= j
    BY <1>2
  <1>6. QED
    BY <1>1, <1>3, <1>4, <1>5 DEF a, b

ContentsFine(options) ==
  /\ \A i \in DOMAIN options :
       /\ options[i].key = "content" => good_content(options[i].value)
       /\ options[i].key \in CONTENT_MODIFIERS =>
            Owner(options, i) # 0 /\ good_modifier(options[i].key, options[i].value)
  /\ \A i, j \in DOMAIN options :
       i # j /\ options[i].key = options[j].key /\ options[i].key \in CONTENT_MODIFIERS =>
         Owner(options, i) # Owner(options, j)

LEMMA ContentsVerdict ==
  ASSUME NEW options, NEW n \in Int, DOMAIN options = 1..n
  PROVE  /\ Faulty(contents_problem(options))
         /\ contents_problem(options) = None <=> ContentsFine(options)
  <1> DEFINE problem(i) == content_problem(options, i)
             f == [i \in DOMAIN options |-> problem(i)]
             repeats(i) == \E j \in Owner(options, i)..(i - 1) : options[j].key = options[i].key
  <1>1. \A i \in DOMAIN options :
          /\ Faulty(problem(i))
          /\ problem(i) = None <=>
               /\ options[i].key = "content" => good_content(options[i].value)
               /\ options[i].key \in CONTENT_MODIFIERS =>
                    Owner(options, i) # 0 /\ ~repeats(i) /\ good_modifier(options[i].key, options[i].value)
    <2> SUFFICES ASSUME NEW i \in DOMAIN options
                 PROVE  /\ Faulty(problem(i))
                        /\ problem(i) = None <=>
                             /\ options[i].key = "content" => good_content(options[i].value)
                             /\ options[i].key \in CONTENT_MODIFIERS =>
                                  /\ Owner(options, i) # 0 /\ ~repeats(i)
                                  /\ good_modifier(options[i].key, options[i].value)
      OBVIOUS
    <2>1. "content" \notin CONTENT_MODIFIERS
      BY DEF CONTENT_MODIFIERS
    <2>2. {"bad_option_value", "modifier_without_content", "duplicate_option"} \subseteq ParserCodes
      BY DEF ParserCodes, InvalidCodes
    <2>3. \A code \in {"bad_option_value", "modifier_without_content", "duplicate_option"} :
            Invalid(code) # None /\ Faulty(Invalid(code))
      BY <2>2, InvalidFaulty
    <2>4. Faulty(None)
      BY DEF Faulty
    <2>5. problem(i) =
            IF options[i].key = "content"
              THEN IF good_content(options[i].value) THEN None ELSE Invalid("bad_option_value")
            ELSE IF options[i].key \notin CONTENT_MODIFIERS THEN None
            ELSE IF Owner(options, i) = 0 THEN Invalid("modifier_without_content")
            ELSE IF repeats(i) THEN Invalid("duplicate_option")
            ELSE IF good_modifier(options[i].key, options[i].value) THEN None
            ELSE Invalid("bad_option_value")
      BY DEF content_problem
    <2> HIDE DEF problem, repeats
    <2>6. QED
      BY <2>1, <2>3, <2>4, <2>5
  <1>2. /\ First(f) = None <=> \A i \in DOMAIN options : problem(i) = None
        /\ First(f) # None => \E i \in DOMAIN options : First(f) = problem(i)
    <2>1. DOMAIN f = DOMAIN options /\ \A i \in DOMAIN options : f[i] = problem(i)
      OBVIOUS
    <2>2. DOMAIN options \subseteq Nat
      OBVIOUS
    <2> HIDE DEF f, problem
    <2>3. QED
      BY <2>1, <2>2, FirstProblem
  <1>3. contents_problem(options) = First(f)
    BY DEF contents_problem
  <1>4. \A i \in DOMAIN options : Owner(options, i) # 0 =>
          (repeats(i) <=> \E j \in DOMAIN options :
             j < i /\ options[j].key = options[i].key /\ Owner(options, j) = Owner(options, i))
    <2> SUFFICES ASSUME NEW i \in DOMAIN options, Owner(options, i) # 0
                 PROVE  repeats(i) <=> \E j \in DOMAIN options :
                          j < i /\ options[j].key = options[i].key /\ Owner(options, j) = Owner(options, i)
      OBVIOUS
    <2>1. Owner(options, i) \in Nat \ {0} /\ i \in 1..n
      BY OwnerProperties
    <2>2. \A j \in Owner(options, i)..(i - 1) : j \in DOMAIN options /\ j < i
      BY <2>1
    <2>3. \A j \in DOMAIN options : j < i =>
            (j \in Owner(options, i)..(i - 1) <=> Owner(options, j) = Owner(options, i))
      BY SameOwner
    <2>4. QED
      BY <2>2, <2>3
  <1>5. Faulty(contents_problem(options))
    <2> HIDE DEF problem, f
    <2>1. QED
      BY <1>1, <1>2, <1>3 DEF Faulty
  <1>6. (\A i \in DOMAIN options : problem(i) = None) <=> ContentsFine(options)
    <2>1. \A i, j \in DOMAIN options : i # j => i < j \/ j < i
      OBVIOUS
    <2>2. \A i, j \in DOMAIN options : j < i => i # j
      OBVIOUS
    <2> HIDE DEF problem, repeats, f
    <2>3. ASSUME \A i \in DOMAIN options : problem(i) = None PROVE ContentsFine(options)
      <3>1. ASSUME NEW i \in DOMAIN options, NEW j \in DOMAIN options, i < j,
                   options[i].key = options[j].key, options[i].key \in CONTENT_MODIFIERS
            PROVE  Owner(options, i) # Owner(options, j)
        BY <1>1, <1>4, <2>3, <3>1
      <3>2. QED
        BY <1>1, <2>1, <2>3, <3>1 DEF ContentsFine
    <2>4. ASSUME ContentsFine(options), NEW i \in DOMAIN options PROVE problem(i) = None
      BY <1>1, <1>4, <2>2, <2>4 DEF ContentsFine
    <2>5. QED
      BY <2>3, <2>4
  <1>7. QED
    BY <1>2, <1>3, <1>5, <1>6

LEMMA ContentVerdict == \A spec : Faulty(validate_content(spec))
  <1>1. {"depth_lt_pattern", "within_lt_pattern", "mixed_absolute_relative"} \subseteq ParserCodes
    BY DEF ParserCodes, InvalidCodes
  <1>2. \A code \in {"depth_lt_pattern", "within_lt_pattern", "mixed_absolute_relative"} : Faulty(Invalid(code))
    BY <1>1, InvalidFaulty
  <1>3. Faulty(None)
    BY DEF Faulty
  <1>4. QED
    BY <1>2, <1>3 DEF validate_content

-----------------------------------------------------------------------------
(* flow, flags, dsize *)

SINGLE == {"flow", "flags", "dsize"}

LEMMA ValueVerdict ==
  ASSUME NEW v
  PROVE  /\ \A name \in SINGLE : Problematic(value_problem(name, v))
         /\ Faulty(value_problem("dsize", v))
  <1>1. {"bad_option_value", "conflicting_flow"} \subseteq ParserCodes
        /\ {"flow_option", "flags_mask"} \subseteq UnsupportedCodes
    BY DEF ParserCodes, InvalidCodes, UnsupportedCodes
  <1>2. /\ Faulty(Invalid("bad_option_value")) /\ Faulty(Invalid("conflicting_flow")) /\ Faulty(None)
        /\ Strange(Unsupported("flow_option")) /\ Strange(Unsupported("flags_mask"))
    BY <1>1, InvalidFaulty, UnsupportedStrange DEF Faulty
  <1>3. Problematic(flow_problem(v))
    BY <1>2 DEF flow_problem, Problematic
  <1>4. Problematic(flags_problem(v))
    BY <1>2 DEF flags_problem, Problematic
  <1>5. Faulty(dsize_problem(v))
    BY <1>2 DEF dsize_problem
  <1>6. /\ value_problem("flow", v) = flow_problem(v) /\ value_problem("flags", v) = flags_problem(v)
        /\ value_problem("dsize", v) = dsize_problem(v)
    BY DEF value_problem
  <1>7. QED
    BY <1>3, <1>4, <1>5, <1>6 DEF SINGLE, Problematic

LEMMA SingleVerdict ==
  ASSUME NEW options, NEW n \in Int, DOMAIN options = 1..n, NEW name \in SINGLE
  PROVE  LET p == single_option(options, name)
             problem(i) == value_problem(name, options[i].value)
         IN /\ Problematic(p) /\ (name = "dsize" => Faulty(p))
            /\ IsInvalid(p) <=> \/ Several(Of(options, name))
                                \/ \E i \in Of(options, name) : IsInvalid(problem(i))
            /\ p # None <=> \/ Several(Of(options, name))
                            \/ \E i \in Of(options, name) : problem(i) # None
  <1> DEFINE p == single_option(options, name)
             problem(i) == value_problem(name, options[i].value)
             O == Of(options, name)
  <1>1. Faulty(Invalid("duplicate_option")) /\ Invalid("duplicate_option") # None /\ Faulty(None)
        /\ IsInvalid(Invalid("duplicate_option"))
    <2>1. "duplicate_option" \in ParserCodes
      BY DEF ParserCodes, InvalidCodes
    <2>2. QED
      BY <2>1, InvalidFaulty, Kinds DEF Faulty
  <1>2. ~IsInvalid(None)
    BY DEF IsInvalid
  <1>3. CASE Several(O)
    <2>1. p = Invalid("duplicate_option")
      BY <1>3 DEF single_option
    <2>2. QED
      BY <1>1, <1>3, <2>1 DEF Problematic
  <1>4. CASE ~Several(O) /\ O = {}
    <2>1. p = None
      BY <1>4 DEF single_option
    <2>2. QED
      BY <1>1, <1>2, <1>4, <2>1 DEF Problematic
  <1>5. CASE ~Several(O) /\ O # {}
    <2>1. Min(O) \in O /\ ValueOf(options, name, None) = options[Min(O)].value
      BY <1>5, OptionPlaces
    <2>2. \A i \in O : i = Min(O)
      BY <1>5, <2>1 DEF Several
    <2>3. p = problem(Min(O))
      BY <1>5, <2>1 DEF single_option
    <2>4. Problematic(problem(Min(O))) /\ (name = "dsize" => Faulty(problem(Min(O))))
      BY ValueVerdict
    <2> HIDE DEF O, p, problem
    <2>5. /\ Problematic(p) /\ (name = "dsize" => Faulty(p))
          /\ IsInvalid(p) <=> \E i \in O : IsInvalid(problem(i))
          /\ p # None <=> \E i \in O : problem(i) # None
      BY <2>1, <2>2, <2>3, <2>4
    <2>6. QED
      BY <1>5, <2>5 DEF O, p, problem
  <1>6. QED
    BY <1>3, <1>4, <1>5

-----------------------------------------------------------------------------
(* The verdict *)

SingleFine(options, name) ==
  ~Several(Of(options, name)) /\ \A i \in Of(options, name) : ~IsInvalid(value_problem(name, options[i].value))

LEMMA FlawedParts ==
  ASSUME NEW tokens, NEW options
  PROVE  ~Flawed(tokens, options) <=>
           /\ \A i \in 1..HEADER_TOKEN_COUNT : ~IsInvalid(token_problem(Fields[i], tokens[i].word))
           /\ IdentificationFine(options) /\ ContentsFine(options)
           /\ \A name \in SINGLE : SingleFine(options, name)
           /\ \A c \in Of(options, "content") : validate_content(ContentSpec(options, c)) = None
           /\ ~(tokens[2].word = "udp" /\ Of(options, "flags") # {})
  <1> DEFINE Bare(i) == options[i].key \in CONTENT_MODIFIERS /\ Owner(options, i) = 0
  <1>1. (\A i \in DOMAIN options : ~Unusable(options[i])) <=>
          /\ \A i \in DOMAIN options :
               /\ options[i].key \in IDENTIFICATION_KEYWORDS => good_identification(options[i].key, options[i].value)
               /\ options[i].key = "content" => good_content(options[i].value)
               /\ options[i].key \in CONTENT_MODIFIERS => good_modifier(options[i].key, options[i].value)
          /\ \A name \in SINGLE : \A i \in Of(options, name) : ~IsInvalid(value_problem(name, options[i].value))
    BY DEF Unusable, SINGLE, Of
  <1>2. (\A i, j \in DOMAIN options : ~Repeated(options, i, j)) <=>
          /\ \A i, j \in DOMAIN options :
               i # j /\ options[i].key = options[j].key =>
                 /\ options[i].key \notin IDENTIFICATION_KEYWORDS
                 /\ options[i].key \in CONTENT_MODIFIERS => Owner(options, i) # Owner(options, j)
          /\ \A name \in SINGLE : ~Several(Of(options, name))
    <2>1. \A name \in SINGLE :
            Several(Of(options, name)) <=>
              \E i, j \in DOMAIN options : i # j /\ options[i].key = options[j].key /\ options[i].key = name
      BY DEF Several, Of
    <2>2. \A i, j : Repeated(options, i, j) <=>
            /\ i # j /\ options[i].key = options[j].key
            /\ \/ options[i].key \in IDENTIFICATION_KEYWORDS \cup SINGLE
               \/ options[i].key \in CONTENT_MODIFIERS /\ Owner(options, i) = Owner(options, j)
      BY DEF Repeated, SINGLE
    <2>3. QED
      BY <2>1, <2>2
  <1>3. Flawed(tokens, options) <=>
          \/ \E i \in 1..HEADER_TOKEN_COUNT : IsInvalid(token_problem(Fields[i], tokens[i].word))
          \/ \E i \in DOMAIN options : Unusable(options[i])
          \/ \E i, j \in DOMAIN options : Repeated(options, i, j)
          \/ Of(options, "sid") = {} \/ Of(options, "msg") = {}
          \/ \E i \in DOMAIN options : Bare(i)
          \/ \E c \in Of(options, "content") : validate_content(ContentSpec(options, c)) # None
          \/ tokens[2].word = "udp" /\ Of(options, "flags") # {}
    BY DEF Flawed
  <1>4. IdentificationFine(options) <=>
          /\ \A i \in DOMAIN options :
               options[i].key \in IDENTIFICATION_KEYWORDS => good_identification(options[i].key, options[i].value)
          /\ \A i, j \in DOMAIN options :
               i # j /\ options[i].key = options[j].key => options[i].key \notin IDENTIFICATION_KEYWORDS
          /\ Of(options, "sid") # {} /\ Of(options, "msg") # {}
    BY DEF IdentificationFine
  <1>5. ContentsFine(options) <=>
          /\ \A i \in DOMAIN options :
               /\ options[i].key = "content" => good_content(options[i].value)
               /\ options[i].key \in CONTENT_MODIFIERS => good_modifier(options[i].key, options[i].value)
               /\ ~Bare(i)
          /\ \A i, j \in DOMAIN options :
               i # j /\ options[i].key = options[j].key =>
                 (options[i].key \in CONTENT_MODIFIERS => Owner(options, i) # Owner(options, j))
    BY DEF ContentsFine
  <1>6. (\A name \in SINGLE : SingleFine(options, name)) <=>
          /\ \A name \in SINGLE : \A i \in Of(options, name) : ~IsInvalid(value_problem(name, options[i].value))
          /\ \A name \in SINGLE : ~Several(Of(options, name))
    BY DEF SingleFine
  <1> HIDE DEF Bare
  <1>7. QED
    BY <1>1, <1>2, <1>3, <1>4, <1>5, <1>6

\* The verdict of parse_rule() for any header and any options: invalid if
\* anything is, else unsupported if anything is, and the reason is one of the
\* known codes.
THEOREM ProblemVerdict ==
  ASSUME NEW tokens, NEW options, NEW n \in Int, DOMAIN options = 1..n
  PROVE  LET p == Problem(tokens, options)
         IN /\ Flawed(tokens, options) => Faulty(p) /\ p # None
            /\ ~Flawed(tokens, options) => Strange(p) /\ (p # None <=> Foreign(tokens, options))
  <1> DEFINE header == parse_header(tokens)
             identification == parse_identification(options)
             contents == contents_problem(options)
             flow == single_option(options, "flow")
             flags == single_option(options, "flags")
             dsize == single_option(options, "dsize")
             checked == IF contents # None THEN None
                        ELSE First([c \in Of(options, "content") |-> validate_content(ContentSpec(options, c))])
             udp == flags_protocol(tokens, options)
             negation == IF contents # None THEN None ELSE content_negation(options)
             keyword == unsupported_keyword(options)
             list == << OnlyInvalid(header), identification, contents, OnlyInvalid(flow), OnlyInvalid(flags),
                        dsize, checked, udp, header, negation, flow, flags, keyword >>
             p == Problem(tokens, options)
  <1>1. p = First(list)
    BY DEF Problem
  <1>2. /\ DOMAIN list = 1..13
        /\ list[1] = OnlyInvalid(header) /\ list[2] = identification /\ list[3] = contents
        /\ list[4] = OnlyInvalid(flow) /\ list[5] = OnlyInvalid(flags) /\ list[6] = dsize
        /\ list[7] = checked /\ list[8] = udp /\ list[9] = header /\ list[10] = negation
        /\ list[11] = flow /\ list[12] = flags /\ list[13] = keyword
    OBVIOUS
  <1>3. /\ First(list) = None <=> \A i \in 1..13 : list[i] = None
        /\ First(list) # None =>
             \E i \in 1..13 : /\ First(list) = list[i] /\ list[i] # None
                             /\ \A j \in 1..13 : j < i => list[j] = None
    <2> HIDE DEF list
    <2>1. DOMAIN list \subseteq Nat
      BY <1>2
    <2>2. QED
      BY <1>2, <2>1, FirstProblem
  <1>4. /\ Problematic(header)
        /\ IsInvalid(header) <=>
             \E i \in 1..HEADER_TOKEN_COUNT : IsInvalid(token_problem(Fields[i], tokens[i].word))
        /\ header # None <=>
             \E i \in 1..HEADER_TOKEN_COUNT : token_problem(Fields[i], tokens[i].word) # None
    BY HeaderVerdict
  <1>5. Faulty(identification) /\ (identification = None <=> IdentificationFine(options))
    BY IdentificationVerdict
  <1>6. Faulty(contents) /\ (contents = None <=> ContentsFine(options))
    BY ContentsVerdict
  <1>7. /\ Problematic(flow) /\ (~IsInvalid(flow) <=> SingleFine(options, "flow"))
        /\ flow # None <=> \/ Several(Of(options, "flow"))
                           \/ \E i \in Of(options, "flow") : value_problem("flow", options[i].value) # None
    BY SingleVerdict DEF SINGLE, SingleFine
  <1>8. /\ Problematic(flags) /\ (~IsInvalid(flags) <=> SingleFine(options, "flags"))
        /\ flags # None <=> \/ Several(Of(options, "flags"))
                            \/ \E i \in Of(options, "flags") : value_problem("flags", options[i].value) # None
    BY SingleVerdict DEF SINGLE, SingleFine
  <1>9. Faulty(dsize) /\ (~IsInvalid(dsize) <=> SingleFine(options, "dsize"))
    BY SingleVerdict DEF SINGLE, SingleFine
  <1>10. /\ Faulty(checked)
         /\ contents = None =>
              (checked = None <=>
                 \A c \in Of(options, "content") : validate_content(ContentSpec(options, c)) = None)
    <2> DEFINE f == [c \in Of(options, "content") |-> validate_content(ContentSpec(options, c))]
    <2>1. DOMAIN f = Of(options, "content") /\ DOMAIN f \subseteq Nat
          /\ \A c \in Of(options, "content") : f[c] = validate_content(ContentSpec(options, c))
      BY OptionPlaces
    <2> HIDE DEF f
    <2>2. /\ First(f) = None <=> \A c \in Of(options, "content") : f[c] = None
          /\ First(f) # None => \E c \in Of(options, "content") : First(f) = f[c]
      BY <2>1, FirstProblem
    <2>3. Faulty(First(f))
      BY <2>1, <2>2, ContentVerdict DEF Faulty
    <2>4. checked = IF contents # None THEN None ELSE First(f)
      BY DEF f
    <2> HIDE DEF checked, contents
    <2>5. Faulty(None)
      BY DEF Faulty
    <2>6. QED
      BY <2>1, <2>2, <2>3, <2>4, <2>5
  <1>11. Faulty(udp) /\ (udp # None <=> tokens[2].word = "udp" /\ Of(options, "flags") # {})
    <2>1. "flags_requires_tcp" \in ParserCodes
      BY DEF ParserCodes, InvalidCodes
    <2>2. Faulty(Invalid("flags_requires_tcp")) /\ Invalid("flags_requires_tcp") # None /\ Faulty(None)
      BY <2>1, InvalidFaulty DEF Faulty
    <2>3. QED
      BY <2>2 DEF flags_protocol
  <1>12. /\ Strange(negation)
         /\ contents = None =>
              (negation # None <=> \E i \in Of(options, "content") : options[i].value.negated)
    <2>1. "content_negation" \in UnsupportedCodes
      BY DEF UnsupportedCodes
    <2>2. /\ Strange(Unsupported("content_negation")) /\ Strange(None)
          /\ Unsupported("content_negation") # None
      BY <2>1, UnsupportedStrange DEF Strange
    <2> HIDE DEF contents
    <2>3. QED
      BY <2>2 DEF content_negation
  <1>13. Strange(keyword)
         /\ (keyword # None <=> \E i \in DOMAIN options : options[i].key \notin SUPPORTED_KEYWORDS \cup {""})
    <2>1. "keyword" \in UnsupportedCodes
      BY DEF UnsupportedCodes
    <2>2. Strange(Unsupported("keyword")) /\ Strange(None) /\ Unsupported("keyword") # None
      BY <2>1, UnsupportedStrange DEF Strange
    <2>3. QED
      BY <2>2 DEF unsupported_keyword
  <1> HIDE DEF header, identification, contents, flow, flags, dsize, checked, udp, negation, keyword
  <1>14. /\ Faulty(list[1]) /\ Faulty(list[2]) /\ Faulty(list[3]) /\ Faulty(list[4]) /\ Faulty(list[5])
         /\ Faulty(list[6]) /\ Faulty(list[7]) /\ Faulty(list[8])
         /\ list[1] = None <=> ~IsInvalid(header)
         /\ list[4] = None <=> ~IsInvalid(flow)
         /\ list[5] = None <=> ~IsInvalid(flags)
         /\ list[6] = None <=> ~IsInvalid(dsize)
    <2>1. \A x : Problematic(x) => Faulty(OnlyInvalid(x)) /\ (OnlyInvalid(x) = None <=> ~IsInvalid(x))
      BY Kinds DEF Problematic, Faulty, Strange, OnlyInvalid, IsInvalid
    <2>2. dsize = None <=> ~IsInvalid(dsize)
      BY <1>9, Kinds
    <2> HIDE DEF list
    <2>3. QED
      BY <1>2, <1>4, <1>5, <1>6, <1>7, <1>8, <1>9, <1>10, <1>11, <2>1, <2>2
  <1> HIDE DEF list, p
  <1>15. ~Flawed(tokens, options) <=> \A i \in 1..8 : list[i] = None
    <2>1. (\A i \in 1..8 : list[i] = None) <=>
            /\ list[1] = None /\ list[2] = None /\ list[3] = None /\ list[4] = None
            /\ list[5] = None /\ list[6] = None /\ list[7] = None /\ list[8] = None
      OBVIOUS
    <2>2. (\A name \in SINGLE : SingleFine(options, name)) <=>
            SingleFine(options, "flow") /\ SingleFine(options, "flags") /\ SingleFine(options, "dsize")
      BY DEF SINGLE
    <2>3. QED
      BY <1>2, <1>4, <1>5, <1>6, <1>7, <1>8, <1>9, <1>10, <1>11, <1>14, <2>1, <2>2, FlawedParts
  <1>16. ASSUME Flawed(tokens, options) PROVE Faulty(p) /\ p # None
    <2>1. PICK k \in 1..8 : list[k] # None
      BY <1>15, <1>16
    <2>2. First(list) # None
      BY <1>3, <2>1
    <2>3. PICK i \in 1..13 : First(list) = list[i] /\ list[i] # None /\ \A j \in 1..13 : j < i => list[j] = None
      BY <1>3, <2>2
    <2>4. i <= k
      BY <2>1, <2>3
    <2>5. i \in {1, 2, 3, 4, 5, 6, 7, 8}
      BY <2>4
    <2>6. Faulty(list[i])
      BY <1>14, <2>5
    <2>7. QED
      BY <1>1, <2>2, <2>3, <2>6
  <1>17. ASSUME ~Flawed(tokens, options) PROVE Strange(p) /\ (p # None <=> Foreign(tokens, options))
    <2>1. \A i \in 1..8 : list[i] = None
      BY <1>15, <1>17
    <2>2. /\ ~IsInvalid(header) /\ contents = None /\ ~IsInvalid(flow) /\ ~IsInvalid(flags)
      BY <1>2, <1>14, <2>1
    <2>3. Strange(header) /\ Strange(negation) /\ Strange(flow) /\ Strange(flags) /\ Strange(keyword)
      <3>1. \A x : Problematic(x) /\ ~IsInvalid(x) => Strange(x)
        BY Kinds DEF Problematic, Faulty, Strange
      <3>2. QED
        BY <1>4, <1>7, <1>8, <1>12, <1>13, <2>2, <3>1
    <2>4. p # None <=> header # None \/ negation # None \/ flow # None \/ flags # None \/ keyword # None
      <3>1. (\A i \in 1..13 : list[i] = None) <=>
              /\ \A i \in 1..8 : list[i] = None
              /\ list[9] = None /\ list[10] = None /\ list[11] = None /\ list[12] = None /\ list[13] = None
        OBVIOUS
      <3>2. QED
        BY <1>1, <1>2, <1>3, <2>1, <3>1
    <2>5. Strange(p)
      <3>1. CASE p = None
        BY <3>1 DEF Strange
      <3>2. CASE p # None
        <4>1. PICK i \in 1..13 : p = list[i] /\ list[i] # None
          BY <1>1, <1>3, <3>2
        <4>2. i \in {9, 10, 11, 12, 13}
          BY <2>1, <4>1
        <4>3. QED
          BY <1>2, <2>3, <4>1, <4>2
      <3>3. QED
        BY <3>1, <3>2
    <2>6. SingleFine(options, "flow") /\ SingleFine(options, "flags")
      BY <1>7, <1>8, <2>2
    <2>7. Foreign(tokens, options) <=>
            header # None \/ negation # None \/ flow # None \/ flags # None \/ keyword # None
      <3>1. header # None <=>
              \E i \in 1..HEADER_TOKEN_COUNT : token_problem(Fields[i], tokens[i].word) # None
        BY <1>4
      <3>2. negation # None <=> \E i \in Of(options, "content") : options[i].value.negated
        BY <1>12, <2>2
      <3>3. flow # None <=> \E i \in Of(options, "flow") : flow_problem(options[i].value) # None
        BY <1>7, <2>6 DEF SingleFine, value_problem
      <3>4. flags # None <=> \E i \in Of(options, "flags") : flags_problem(options[i].value) # None
        BY <1>8, <2>6 DEF SingleFine, value_problem
      <3>5. QED
        BY <1>13, <3>1, <3>2, <3>3, <3>4 DEF Foreign
    <2>8. QED
      BY <2>4, <2>5, <2>7
  <1>18. QED
    BY <1>16, <1>17 DEF p

-----------------------------------------------------------------------------
(* What is in a rule with nothing wrong *)

\* A value of an option is the value of one of them, or the default.
LEMMA ValueOfSome ==
  ASSUME NEW options, NEW n \in Int, DOMAIN options = 1..n, NEW key, NEW default
  PROVE  \/ Of(options, key) = {} /\ ValueOf(options, key, default) = default
         \/ \E i \in Of(options, key) :
              i \in DOMAIN options /\ options[i].key = key /\ ValueOf(options, key, default) = options[i].value
  <1>1. CASE Of(options, key) = {}
    BY <1>1 DEF ValueOf
  <1>2. CASE Of(options, key) # {}
    <2>1. Min(Of(options, key)) \in Of(options, key)
      BY <1>2, OptionPlaces
    <2>2. ValueOf(options, key, default) = options[Min(Of(options, key))].value
      BY <1>2 DEF ValueOf
    <2> DEFINE m == Min(Of(options, key))
    <2>3. m \in Of(options, key) /\ ValueOf(options, key, default) = options[m].value
      BY <2>1, <2>2
    <2> HIDE DEF m
    <2>4. m \in DOMAIN options /\ options[m].key = key
      BY <2>3 DEF Of
    <2>5. QED
      BY <2>3, <2>4
  <1>3. QED
    BY <1>1, <1>2

LEMMA IdentificationGood ==
  ASSUME NEW options, NEW n \in Int, DOMAIN options = 1..n, IdentificationFine(options)
  PROVE  /\ ValueOf(options, "sid", None) \in 1..MAX_OPTION_INT
         /\ ValueOf(options, "rev", 1) \in 1..MAX_OPTION_INT
         /\ ValueOf(options, "priority", DefaultPriority) \in 1..MAX_OPTION_INT
         /\ ~Several(Of(options, "sid"))
  <1>1. \A key \in {"sid", "rev", "priority"} : \A i \in DOMAIN options :
          options[i].key = key => options[i].value \in 1..MAX_OPTION_INT
    BY DEF IdentificationFine, IDENTIFICATION_KEYWORDS, good_identification
  <1>2. 1 \in 1..MAX_OPTION_INT /\ DefaultPriority \in 1..MAX_OPTION_INT
    BY ParserAssumption
  <1>3. Of(options, "sid") # {}
    BY DEF IdentificationFine
  <1>4. ValueOf(options, "sid", None) \in 1..MAX_OPTION_INT
    BY <1>1, <1>3, ValueOfSome
  <1>5. ValueOf(options, "rev", 1) \in 1..MAX_OPTION_INT
    BY <1>1, <1>2, ValueOfSome
  <1>6. ValueOf(options, "priority", DefaultPriority) \in 1..MAX_OPTION_INT
    BY <1>1, <1>2, ValueOfSome
  <1>7. ~Several(Of(options, "sid"))
    BY DEF IdentificationFine, IDENTIFICATION_KEYWORDS, Several, Of
  <1>8. QED
    BY <1>4, <1>5, <1>6, <1>7

LEMMA ModifierGood ==
  ASSUME NEW options, NEW n \in Int, DOMAIN options = 1..n, ContentsFine(options),
         NEW c, NEW key \in {"depth", "within"}
  PROVE  Modifier(options, c, key) \in {None} \cup Nat
  <1> DEFINE given == {i \in Of(options, key) : Owner(options, i) = c}
  <1>1. given \in SUBSET Nat
    BY DEF Of
  <1>2. Modifier(options, c, key) = IF given = {} THEN None ELSE options[Min(given)].value
    BY DEF Modifier
  <1>3. \A i \in given : options[i].value \in Nat
    <2>1. \A i \in given : i \in DOMAIN options /\ options[i].key = key
      BY DEF Of
    <2>2. \A i \in given : good_modifier(key, options[i].value)
      BY <2>1 DEF ContentsFine, CONTENT_MODIFIERS
    <2> HIDE DEF given
    <2>3. QED
      BY <2>2, ParserAssumption DEF good_modifier
  <1> HIDE DEF given
  <1>4. given # {} => Min(given) \in given
    BY <1>1, LeastExists
  <1>5. QED
    BY <1>2, <1>3, <1>4

DecodedOptions(options) ==
  \A i \in Of(options, "content") : options[i].value \in {None, Bad} \cup [negated : BOOLEAN, length : Nat]

LEMMA ContentUsable ==
  ASSUME NEW options, NEW n \in Int, DOMAIN options = 1..n, ContentsFine(options), DecodedOptions(options),
         NEW c \in Of(options, "content"), validate_content(ContentSpec(options, c)) = None
  PROVE  UsableContent(ContentSpec(options, c))
  <1> DEFINE spec == ContentSpec(options, c)
  <1>1. spec.depth \in {None} \cup Nat /\ spec.within \in {None} \cup Nat
    BY ModifierGood DEF ContentSpec
  <1>2. good_content(options[c].value) /\ options[c].value \in {None, Bad} \cup [negated : BOOLEAN, length : Nat]
    BY DEF ContentsFine, Of, DecodedOptions
  <1>3. options[c].value.length \in Nat /\ options[c].value.length > 0
    BY <1>2 DEF good_content
  <1>4. spec.length \in Nat /\ spec.length > 0
    BY <1>3 DEF ContentSpec
  <1>5. /\ Invalid("depth_lt_pattern") # None /\ Invalid("within_lt_pattern") # None
        /\ Invalid("mixed_absolute_relative") # None
    BY InvalidFaulty DEF ParserCodes, InvalidCodes
  <1>6. validate_content(spec) = None
    OBVIOUS
  <1> HIDE DEF spec
  <1>7. /\ ~Below(spec.depth, spec.length) /\ ~Below(spec.within, spec.length)
        /\ ~((spec.offset # None \/ spec.depth # None) /\ (spec.distance # None \/ spec.within # None))
    BY <1>5, <1>6 DEF validate_content
  <1>8. UsableContent(spec)
    BY <1>1, <1>4, <1>7 DEF UsableContent, Below
  <1>9. QED
    BY <1>8 DEF spec

LEMMA FlowUsable ==
  ASSUME NEW words
  PROVE  /\ FlowSpec(words).role \in {None, "to_server", "to_client"}
         /\ FlowSpec(words).state \in {None} \cup FLOW_STATES
  <1>1. Roles(words) \subseteq {"to_server", "to_client"} /\ States(words) \subseteq FLOW_STATES
    BY DEF Roles, States, FLOW_ROLES
  <1>2. Roles(words) # {} => (CHOOSE r \in Roles(words) : TRUE) \in Roles(words)
    OBVIOUS
  <1>3. States(words) # {} => (CHOOSE s \in States(words) : TRUE) \in States(words)
    OBVIOUS
  <1>4. QED
    BY <1>1, <1>2, <1>3 DEF FlowSpec

\* A rule that comes of a line with nothing wrong is one the engine can use.
LEMMA RuleUsable ==
  ASSUME NEW tokens, NEW options, NEW n \in Int, DOMAIN options = 1..n, DecodedOptions(options),
         ~Flawed(tokens, options), ~Foreign(tokens, options)
  PROVE  UsableRule(Rule(tokens, options))
  <1> DEFINE rule == Rule(tokens, options)
  <1>1. /\ IdentificationFine(options) /\ ContentsFine(options)
        /\ \A name \in SINGLE : SingleFine(options, name)
        /\ \A c \in Of(options, "content") : validate_content(ContentSpec(options, c)) = None
        /\ ~(tokens[2].word = "udp" /\ Of(options, "flags") # {})
    BY FlawedParts
  <1>2. rule.protocol = tokens[2].word /\ rule.protocol \in {"tcp", "udp", "ip"}
    <2>1. token_problem(Fields[2], tokens[2].word) = None
      <3>1. \A i \in 1..HEADER_TOKEN_COUNT : ~(token_problem(Fields[i], tokens[i].word) # None)
        BY DEF Foreign
      <3>2. 2 \in 1..HEADER_TOKEN_COUNT
        BY DEF HEADER_TOKEN_COUNT
      <3>3. QED
        BY <3>1, <3>2
    <2>2. \A code \in {"protocol"} : Unsupported(code) # None
      BY UnsupportedStrange DEF UnsupportedCodes
    <2>3. \A code \in {"bad_header"} : Invalid(code) # None
      BY InvalidFaulty DEF ParserCodes, InvalidCodes
    <2>4. QED
      BY <2>1, <2>2, <2>3 DEF token_problem, Fields, ProtocolToken, Token, Rule
  <1>3. {rule.sid, rule.rev, rule.priority} \subseteq 1..MAX_OPTION_INT
    BY <1>1, IdentificationGood DEF Rule
  <1>4. \A c \in DOMAIN rule.contents : UsableContent(rule.contents[c])
    <2>1. rule.contents = [c \in Of(options, "content") |-> ContentSpec(options, c)]
      BY DEF Rule, parse_contents
    <2>2. \A c \in Of(options, "content") : UsableContent(ContentSpec(options, c))
      BY <1>1, ContentUsable
    <2> HIDE DEF rule
    <2>3. QED
      BY <2>1, <2>2
  <1>5. rule.flow # None => rule.flow.role \in {None, "to_server", "to_client"}
                            /\ rule.flow.state \in {None} \cup FLOW_STATES
    <2>1. rule.flow = IF Of(options, "flow") = {} THEN None ELSE FlowSpec(ValueOf(options, "flow", None))
      BY DEF Rule
    <2> HIDE DEF rule
    <2>2. QED
      BY <2>1, FlowUsable
  <1>6. rule.flags # None => /\ rule.protocol # "udp" /\ ~rule.flags.mask
                             /\ rule.flags.letters \subseteq TCP_FLAG_NAMES
                             /\ rule.flags.letters = {} => rule.flags.mode = "exact"
    <2>1. rule.flags = ValueOf(options, "flags", None)
      BY DEF Rule
    <2>2. SUFFICES ASSUME rule.flags # None
                   PROVE  /\ rule.protocol # "udp" /\ ~rule.flags.mask
                          /\ rule.flags.letters \subseteq TCP_FLAG_NAMES
                          /\ rule.flags.letters = {} => rule.flags.mode = "exact"
      OBVIOUS
    <2>3. PICK i \in Of(options, "flags") : rule.flags = options[i].value
      BY <2>1, <2>2, ValueOfSome
    <2>4. flags_problem(rule.flags) = None
      BY <2>3 DEF Foreign
    <2>5. /\ Invalid("bad_option_value") # None /\ Unsupported("flags_mask") # None
      BY InvalidFaulty, UnsupportedStrange DEF ParserCodes, InvalidCodes, UnsupportedCodes
    <2> HIDE DEF rule
    <2>6. QED
      BY <1>1, <1>2, <2>3, <2>4, <2>5 DEF flags_problem
  <1>7. rule.dsize # None => /\ rule.dsize.a >= 0
                             /\ rule.dsize.op = "range" => rule.dsize.a <= rule.dsize.b
    <2>1. rule.dsize = ValueOf(options, "dsize", None)
      BY DEF Rule
    <2>2. SUFFICES ASSUME rule.dsize # None
                   PROVE  /\ rule.dsize.a >= 0
                          /\ rule.dsize.op = "range" => rule.dsize.a <= rule.dsize.b
      OBVIOUS
    <2>3. PICK i \in Of(options, "dsize") : rule.dsize = options[i].value
      BY <2>1, <2>2, ValueOfSome
    <2>4. ~IsInvalid(dsize_problem(rule.dsize))
      <3>1. ~IsInvalid(value_problem("dsize", rule.dsize))
        BY <1>1, <2>3 DEF SINGLE, SingleFine
      <3>2. QED
        BY <3>1 DEF value_problem
    <2>5. IsInvalid(Invalid("bad_option_value"))
      BY InvalidFaulty, Kinds DEF ParserCodes, InvalidCodes
    <2> HIDE DEF rule
    <2>6. rule.dsize.a \in 0..MAX_OPTION_INT
          /\ (rule.dsize.op = "range" => rule.dsize.b \in rule.dsize.a..MAX_OPTION_INT)
      BY <2>4, <2>5 DEF dsize_problem
    <2>7. QED
      BY <2>6, ParserAssumption
  <1> HIDE DEF rule
  <1>8. UsableRule(rule)
    BY <1>2, <1>3, <1>4, <1>5, <1>6, <1>7 DEF UsableRule
  <1>9. QED
    BY <1>8 DEF rule

-----------------------------------------------------------------------------
(* A line *)

\* The options of a line with the structure of a rule have the places 1..n.
LEMMA OptionsCounted ==
  ASSUME NEW line, IsSequence(line), structured(line)
  PROVE  /\ DOMAIN split_options(line) = 1..(Closing(line) - Opening(line) - 1)
         /\ Closing(line) - Opening(line) - 1 \in Int
         /\ Opening(line) \in DOMAIN line /\ Closing(line) \in DOMAIN line
         /\ \A i \in DOMAIN split_options(line) : Opening(line) + i \in DOMAIN line
  <1>1. DOMAIN line = 1..Len(line) /\ Len(line) \in Nat
    BY DEF IsSequence
  <1>2. \A lex : Places(line, lex) \in SUBSET Nat /\ \A i \in Places(line, lex) : i \in DOMAIN line /\ i <= Len(line)
    BY <1>1 DEF Places
  <1>3. Places(line, "open") # {} /\ Places(line, "close") # {}
    BY DEF structured
  <1>4. Opening(line) \in Places(line, "open")
    BY <1>2, <1>3, LeastExists DEF Opening
  <1>5. Closing(line) \in Places(line, "close")
    BY <1>1, <1>2, <1>3, GreatestExists DEF Closing
  <1>6. Opening(line) \in DOMAIN line /\ Closing(line) \in DOMAIN line
    BY <1>2, <1>4, <1>5
  <1>7. DOMAIN split_options(line) = 1..(Closing(line) - Opening(line) - 1)
    BY DEF split_options
  <1>8. QED
    BY <1>1, <1>6, <1>7

\* Every pattern of the line is decoded to its bytes, or not at all.
LineDecoded(line) == \A i \in DOMAIN line : Decoded(line[i])

LEMMA OptionsDecoded ==
  ASSUME NEW line, IsSequence(line), structured(line), LineDecoded(line)
  PROVE  DecodedOptions(split_options(line))
  <1> DEFINE options == split_options(line)
             o(i) == line[Opening(line) + i]
  <1>1. SUFFICES ASSUME NEW i \in Of(options, "content")
                 PROVE  options[i].value \in {None, Bad} \cup [negated : BOOLEAN, length : Nat]
    BY DEF DecodedOptions
  <1>2. i \in DOMAIN options /\ options[i].key = "content"
    BY DEF Of
  <1>3. i \in 1..(Closing(line) - Opening(line) - 1) /\ Opening(line) + i \in DOMAIN line
    BY <1>2, OptionsCounted
  <1>4. \E v, w : options[i] = [key |-> v, value |-> w]
                  /\ (v = "glued text" \/ v = "" \/ (v = o(i).key /\ w = o(i).value))
    BY <1>3 DEF split_options, Nothing
  <1>5. PICK v, w : /\ options[i] = [key |-> v, value |-> w]
                    /\ v = "glued text" \/ v = "" \/ (v = o(i).key /\ w = o(i).value)
    BY <1>4
  <1> HIDE DEF options, o
  <1>6. options[i] = [key |-> v, value |-> w]
    BY <1>5
  <1>7. options[i].key = v /\ options[i].value = w
    BY <1>6
  <1>8. v = o(i).key /\ w = o(i).value
    BY <1>2, <1>5, <1>7
  <1>9. QED
    BY <1>2, <1>3, <1>7, <1>8 DEF LineDecoded, Decoded, o

\* For every line, the verdict is the one that does not depend on the order of
\* the checks, the result is one the constructors of ParseResult and RuleRecord
\* accept, and an accepted line has the sid of its rule and a rule the engine
\* can use.
THEOREM ParseVerdict ==
  ASSUME NEW line, IsSequence(line)
  PROVE  LET r == parse_rule(line)
         IN /\ r.status \in {"valid", "invalid", "unsupported"} /\ r.status = Judgement(line)
            /\ r.status # "valid" => /\ r.reason \in REASONS /\ r.reason[1] = r.status
                                     /\ r.reason \notin {Invalid("duplicate_sid"), Invalid("internal_error")}
            /\ r.status = "valid" =>
                 /\ r.reason = None
                 /\ r.sid \in 1..MAX_OPTION_INT /\ r.sid = r.rule.sid
                 /\ LineDecoded(line) => UsableRule(r.rule)
  <1> DEFINE r == parse_rule(line)
             tokens == header_tokens(line)
             options == split_options(line)
             problem == Problem(tokens, options)
             sid == best_effort_sid(options)
  <1>1. \A code \in {"malformed_rule", "bad_header"} : \A s :
          LET x == Rejected(Invalid(code), s)
          IN /\ x.status = "invalid" /\ x.reason \in REASONS /\ x.reason[1] = x.status
             /\ x.reason \notin {Invalid("duplicate_sid"), Invalid("internal_error")}
    BY DEF Rejected, Invalid, REASONS, ParserCodes, InvalidCodes
  <1>2. CASE ~structured(line) \/ Len(tokens) # HEADER_TOKEN_COUNT
    <2>1. Judgement(line) = "invalid"
      BY <1>2 DEF Judgement
    <2>2. \E code \in {"malformed_rule", "bad_header"} : r = Rejected(Invalid(code), None)
      BY <1>2 DEF parse_rule
    <2> HIDE DEF r
    <2>3. QED
      BY <1>1, <2>1, <2>2 DEF r
  <1>3. CASE structured(line) /\ Len(tokens) = HEADER_TOKEN_COUNT
    <2>1. r = IF problem # None THEN Rejected(problem, sid)
              ELSE [status |-> "valid", reason |-> None, sid |-> sid, rule |-> Rule(tokens, options)]
      BY <1>3 DEF parse_rule
    <2>2. Judgement(line) = IF Flawed(tokens, options) THEN "invalid"
                            ELSE IF Foreign(tokens, options) THEN "unsupported" ELSE "valid"
      BY <1>3 DEF Judgement
    <2>3. PICK n \in Int : DOMAIN options = 1..n
      BY <1>3, OptionsCounted
    <2>4. /\ Flawed(tokens, options) => Faulty(problem) /\ problem # None
          /\ ~Flawed(tokens, options) => Strange(problem) /\ (problem # None <=> Foreign(tokens, options))
      BY <2>3, ProblemVerdict
    <2>5. LineDecoded(line) => DecodedOptions(options)
      BY <1>3, OptionsDecoded
    <2> HIDE DEF r, tokens, options, problem
    <2>6. CASE problem # None
      <3>1. r.status = problem[1] /\ r.reason = problem
        BY <2>1, <2>6 DEF Rejected
      <3>2. CASE Flawed(tokens, options)
        <4>1. problem[1] = "invalid" /\ problem \in REASONS
          BY <2>4, <2>6, <3>2, Kinds
        <4>2. problem \notin {Invalid("duplicate_sid"), Invalid("internal_error")}
          BY <2>4, <2>6, <3>2 DEF Faulty, ParserCodes, Invalid
        <4>3. QED
          BY <2>2, <3>1, <3>2, <4>1, <4>2 DEF r
      <3>3. CASE ~Flawed(tokens, options)
        <4>1. problem[1] = "unsupported" /\ problem \in REASONS
          BY <2>4, <2>6, <3>3, Kinds
        <4>2. Judgement(line) = "unsupported"
          BY <2>2, <2>4, <2>6, <3>3
        <4>3. problem \notin {Invalid("duplicate_sid"), Invalid("internal_error")}
          BY <4>1 DEF Invalid
        <4>4. QED
          BY <3>1, <4>1, <4>2, <4>3 DEF r
      <3>4. QED
        BY <3>2, <3>3
    <2>7. CASE problem = None
      <3>1. r.status = "valid" /\ r.reason = None /\ r.sid = sid /\ r.rule = Rule(tokens, options)
        BY <2>1, <2>7
      <3>2. ~Flawed(tokens, options) /\ ~Foreign(tokens, options)
        BY <2>4, <2>7
      <3>3. Judgement(line) = "valid"
        BY <2>2, <3>2
      <3>4. IdentificationFine(options)
        BY <3>2, FlawedParts
      <3>5. /\ ValueOf(options, "sid", None) \in 1..MAX_OPTION_INT
            /\ ~Several(Of(options, "sid"))
        BY <2>3, <3>4, IdentificationGood
      <3>6. sid = ValueOf(options, "sid", None)
        BY <3>5 DEF best_effort_sid
      <3>7. r.rule.sid = ValueOf(options, "sid", None)
        BY <3>1 DEF Rule
      <3>8. LineDecoded(line) => UsableRule(r.rule)
        BY <2>3, <2>5, <3>1, <3>2, RuleUsable
      <3>9. QED
        BY <3>1, <3>3, <3>5, <3>6, <3>7, <3>8 DEF r
    <2>8. QED
      BY <2>6, <2>7 DEF r
  <1>4. QED
    BY <1>2, <1>3

-----------------------------------------------------------------------------
(* Sequences *)

LEMMA AppendTo ==
  ASSUME NEW s, IsSequence(s), NEW e
  PROVE  LET t == Append(s, e)
         IN /\ IsSequence(t) /\ Len(s) \in Nat /\ Len(t) = Len(s) + 1
            /\ DOMAIN s = 1..Len(s) /\ DOMAIN t = DOMAIN s \cup {Len(s) + 1}
            /\ \A i \in DOMAIN s : t[i] = s[i] /\ i < Len(s) + 1
            /\ t[Len(s) + 1] = e
  <1> DEFINE S == {s[i] : i \in DOMAIN s}
             t == Append(s, e)
  <1>1. s \in Seq(S)
    BY DEF IsSequence
  <1>2. /\ Len(t) = Len(s) + 1 /\ DOMAIN t = 1..Len(t) /\ t[Len(s) + 1] = e
        /\ \A i \in 1..Len(s) : t[i] = s[i]
        /\ Len(s) \in Nat /\ DOMAIN s = 1..Len(s)
    <2>1. s \in Seq(S \cup {e}) /\ e \in S \cup {e}
      BY <1>1
    <2> HIDE DEF S
    <2>2. QED
      BY <2>1, AppendProperties
  <1> HIDE DEF t
  <1>3. \A i \in DOMAIN t : t[i] \in {t[j] : j \in DOMAIN t}
    OBVIOUS
  <1>4. t \in Seq({t[j] : j \in DOMAIN t})
    <2>1. t = [i \in 1..Len(t) |-> t[i]]
      <3>1. t \in Seq(S \cup {e})
        BY <1>1 DEF t
      <3>2. QED
        BY <3>1
    <2>2. Len(t) \in Nat
      BY <1>2
    <2>3. QED
      BY <1>2, <1>3, <2>1, <2>2
  <1>5. DOMAIN t = DOMAIN s \cup {Len(s) + 1}
    BY <1>2
  <1>6. QED
    BY <1>2, <1>4, <1>5 DEF IsSequence, t

LEMMA Joint ==
  ASSUME NEW s, IsSequence(s), NEW t, IsSequence(t)
  PROVE  /\ IsSequence(s \o t)
         /\ \A i \in DOMAIN (s \o t) :
              (\E j \in DOMAIN s : (s \o t)[i] = s[j]) \/ (\E j \in DOMAIN t : (s \o t)[i] = t[j])
  <1> DEFINE S == {s[i] : i \in DOMAIN s}
             T == {t[i] : i \in DOMAIN t}
             c == s \o t
  <1>1. s \in Seq(S) /\ t \in Seq(T)
    BY DEF IsSequence
  <1>2. s \in Seq(S \cup T) /\ t \in Seq(S \cup T)
    BY <1>1
  <1>3. c \in Seq(S \cup T)
    <2> HIDE DEF S, T
    <2>1. QED
      BY <1>2, ConcatProperties
  <1>4. DOMAIN c = 1..Len(c) /\ Len(c) \in Nat /\ \A i \in DOMAIN c : c[i] \in S \cup T
    BY <1>3
  <1> HIDE DEF c
  <1>5. c \in Seq({c[j] : j \in DOMAIN c})
    <2>1. c = [i \in 1..Len(c) |-> c[i]]
      BY <1>3
    <2>2. QED
      BY <1>4, <2>1
  <1>6. QED
    BY <1>4, <1>5 DEF IsSequence, c

-----------------------------------------------------------------------------
(* The records *)

LEMMA CountedValues ==
  ASSUME report \in [Counters -> Nat], NEW C
  PROVE  /\ Counted(C) \in [Counters -> Nat]
         /\ \A c \in Counters : Counted(C)[c] = IF c \in C THEN report[c] + 1 ELSE report[c]
  BY DEF Counted

\* Of the acceptable records of a sid the first is active or disabled, and the
\* others are duplicates.
FirstOfSid ==
  \A k \in DOMAIN records : Acceptable(records[k]) =>
    records[k].status =
      IF \E j \in 1..(k - 1) : Acceptable(records[j]) /\ records[j].sid = records[k].sid THEN "invalid"
      ELSE IF records[k].sid \in setup.disabled_sids THEN "disabled"
      ELSE "valid"

ActiveInOrder ==
  /\ Len(rules) = Cardinality(Active)
  /\ \A k \in Active : rules[Place(k)] = parse_rule(records[k].text).rule

\* No two active rules have one sid, and theirs were seen.
SidsDiffer ==
  \A i \in DOMAIN rules :
    /\ rules[i].sid \in seen
    /\ \A j \in DOMAIN rules : i # j => rules[i].sid # rules[j].sid

RecordsInv ==
  /\ IsSequence(records) /\ IsSequence(rules)
  /\ report \in [Counters -> Nat] /\ \A k \in DOMAIN records : WellFormed(records[k])
  /\ ReportBalances /\ VerdictSound
  /\ seen = {records[k].sid : k \in {j \in DOMAIN records : Acceptable(records[j])}}
  /\ FirstOfSid /\ ActiveInOrder /\ SidsDiffer

\* What the loader makes of a line and of the sids before it.
LEMMA Outcome ==
  ASSUME NEW text, IsSequence(text), LineDecoded(text),
         NEW result, result = parse_rule(text) \/ result = InternalError,
         NEW r, r.text = text, r.status = outcome(result)[1], r.reason = outcome(result)[2], r.sid = result.sid
  PROVE  /\ WellFormed(r)
         /\ Acceptable(r) <=> result.status = "valid"
         /\ Acceptable(r) =>
              /\ r.sid = result.rule.sid
              /\ r.status = IF r.sid \in seen THEN "invalid"
                            ELSE IF r.sid \in setup.disabled_sids THEN "disabled" ELSE "valid"
         /\ ~Acceptable(r) => r.status \in {"invalid", "unsupported"}
         /\ r.status = "valid" => result.rule = parse_rule(text).rule /\ UsableRule(result.rule)
         /\ r.reason # Invalid("internal_error") =>
              Judgement(text) = IF r.status = "disabled" \/ r.reason = Invalid("duplicate_sid")
                                  THEN "valid" ELSE r.status
  <1> DEFINE internal == Invalid("internal_error")
             duplicate == Invalid("duplicate_sid")
  <1>1. /\ internal \in REASONS /\ duplicate \in REASONS /\ <<"disabled", "sid">> \in REASONS
        /\ internal # duplicate /\ internal # <<"disabled", "sid">> /\ duplicate # <<"disabled", "sid">>
        /\ internal[1] = "invalid" /\ duplicate[1] = "invalid"
    BY DEF Invalid, REASONS, InvalidCodes
  <1>2. internal # None /\ duplicate # None
    BY <1>1, NoReasonAssumption
  <1> HIDE DEF internal, duplicate
  <1>3. CASE result = InternalError
    <2>1. result.status = "invalid" /\ result.reason = internal
      BY <1>1, <1>3 DEF InternalError, Rejected, internal
    <2>2. r.status = "invalid" /\ r.reason = internal
      BY <2>1 DEF outcome
    <2>3. ~Acceptable(r)
      BY <2>2 DEF Acceptable, internal
    <2>4. WellFormed(r)
      BY <1>1, <2>2 DEF WellFormed, Statuses
    <2>5. QED
      BY <2>1, <2>2, <2>3, <2>4 DEF internal
  <1>4. CASE result = parse_rule(text)
    <2>1. /\ result.status \in {"valid", "invalid", "unsupported"} /\ result.status = Judgement(text)
          /\ result.status # "valid" => /\ result.reason \in REASONS /\ result.reason[1] = result.status
                                        /\ result.reason \notin {duplicate, internal}
          /\ result.status = "valid" => /\ result.sid \in 1..MAX_OPTION_INT /\ result.sid = result.rule.sid
                                        /\ UsableRule(result.rule)
      BY <1>4, ParseVerdict DEF internal, duplicate
    <2>2. CASE result.status # "valid"
      <3>1. r.status = result.status /\ r.reason = result.reason
        BY <2>2 DEF outcome
      <3>2. ~Acceptable(r)
        BY <2>1, <2>2 DEF Acceptable
      <3>3. WellFormed(r)
        BY <2>1, <2>2, <3>1 DEF WellFormed, Statuses
      <3>4. QED
        BY <2>1, <2>2, <3>1, <3>2, <3>3 DEF internal, duplicate
    <2>3. CASE result.status = "valid"
      <3>1. <<r.status, r.reason>> = IF r.sid \in seen THEN <<"invalid", duplicate>>
                                     ELSE IF r.sid \in setup.disabled_sids
                                       THEN <<"disabled", <<"disabled", "sid">>>>
                                     ELSE <<"valid", None>>
        BY <2>1, <2>3 DEF outcome, duplicate
      <3>2. r.reason # internal
        BY <1>1, <1>2, <3>1
      <3>3. Acceptable(r)
        BY <2>1, <2>3, <3>2 DEF Acceptable, internal
      <3>4. r.sid # None
        BY <2>1, <2>3, ParserAssumption
      <3>5. WellFormed(r)
        BY <1>1, <3>1, <3>4 DEF WellFormed, Statuses
      <3>6. QED
        BY <1>1, <1>2, <1>4, <2>1, <2>3, <3>1, <3>2, <3>3, <3>5 DEF internal, duplicate
    <2>4. QED
      BY <2>2, <2>3
  <1>5. QED
    BY <1>3, <1>4

\* A rule line keeps all of it.
LEMMA CollectKeeps ==
  ASSUME RecordsInv, setup' = setup, IsSequence(RuleText), LineDecoded(RuleText),
         NEW result, result = parse_rule(RuleText) \/ result = InternalError, _collect(result)
  PROVE  RecordsInv'
  <1> DEFINE status == outcome(result)[1]
             r == [file |-> path, line |-> gathered.start, text |-> RuleText, status |-> status,
                   reason |-> outcome(result)[2], sid |-> result.sid]
             n == Len(records) + 1
             m == Len(rules) + 1
  <1>1. /\ records' = Append(records, r)
        /\ rules' = IF status = "valid" THEN Append(rules, result.rule) ELSE rules
        /\ seen' = seen \cup Taken(result)
        /\ report' = Counted({"total_lines", "rule_lines"} \cup tallied(status))
    BY DEF _collect
  <1>2. r.text = RuleText /\ r.status = status /\ r.reason = outcome(result)[2] /\ r.sid = result.sid
    OBVIOUS
  <1> HIDE DEF r, status
  <1>3. /\ WellFormed(r)
        /\ Acceptable(r) <=> result.status = "valid"
        /\ Acceptable(r) =>
             /\ r.sid = result.rule.sid
             /\ status = IF r.sid \in seen THEN "invalid"
                         ELSE IF r.sid \in setup.disabled_sids THEN "disabled" ELSE "valid"
        /\ ~Acceptable(r) => status \in {"invalid", "unsupported"}
        /\ status = "valid" => result.rule = parse_rule(RuleText).rule /\ UsableRule(result.rule)
        /\ r.reason # Invalid("internal_error") =>
             Judgement(RuleText) = IF status = "disabled" \/ r.reason = Invalid("duplicate_sid")
                                     THEN "valid" ELSE status
    BY <1>2, Outcome DEF status
  <1>4. /\ IsSequence(records') /\ Len(records) \in Nat /\ Len(records') = n
        /\ DOMAIN records = 1..Len(records) /\ DOMAIN records' = DOMAIN records \cup {n}
        /\ \A k \in DOMAIN records : records'[k] = records[k] /\ k < n
        /\ records'[n] = r
    BY <1>1, AppendTo DEF RecordsInv
  <1>5. /\ IsSequence(rules') /\ Len(rules) \in Nat
        /\ DOMAIN rules = 1..Len(rules)
        /\ \A i \in DOMAIN rules : rules'[i] = rules[i]
        /\ status = "valid" => Len(rules') = m /\ DOMAIN rules' = DOMAIN rules \cup {m} /\ rules'[m] = result.rule
        /\ status # "valid" => rules' = rules
    BY <1>1, AppendTo DEF RecordsInv
  <1>6. status \in Statuses
    BY <1>2, <1>3 DEF WellFormed
  <1>7. seen' = seen \cup (IF Acceptable(r) THEN {r.sid} ELSE {})
    BY <1>1, <1>3 DEF Taken
  <1>8. report' \in [Counters -> Nat] /\ \A k \in DOMAIN records' : WellFormed(records'[k])
    BY <1>1, <1>3, <1>4, CountedValues DEF RecordsInv
  <1>9. Active' = Active \cup (IF status = "valid" THEN {n} ELSE {})
    BY <1>2, <1>4 DEF Active
  <1>10. /\ IsFiniteSet(Active) /\ Cardinality(Active) \in Nat /\ n \notin Active
         /\ \A k \in Active : k \in Nat /\ k < n
    <2>1. Active \subseteq 1..Len(records)
      BY <1>4 DEF Active
    <2>2. IsFiniteSet(1..Len(records))
      BY <1>4, FS_Interval
    <2>3. \A k \in 1..Len(records) : k \in Nat /\ k < n
      BY <1>4
    <2>4. n \notin 1..Len(records)
      BY <1>4
    <2>5. IsFiniteSet(Active) /\ Cardinality(Active) \in Nat
      BY <2>1, <2>2, FS_Subset, FS_CardinalityType
    <2>6. QED
      BY <2>1, <2>3, <2>4, <2>5
  <1>11. ReportBalances'
    <2>1. \A s \in Statuses : WithStatus(s)' = WithStatus(s) + (IF s = status THEN 1 ELSE 0)
      <3> SUFFICES ASSUME NEW s \in Statuses
                   PROVE  WithStatus(s)' = WithStatus(s) + (IF s = status THEN 1 ELSE 0)
        OBVIOUS
      <3> DEFINE K == {k \in DOMAIN records : records[k].status = s}
                 L == {k \in DOMAIN records' : records'[k].status = s}
      <3>1. IsFiniteSet(K) /\ Cardinality(K) \in Nat /\ n \notin K
        <4>1. K \subseteq 1..Len(records) /\ IsFiniteSet(1..Len(records)) /\ n \notin K
          BY <1>4, FS_Interval
        <4> HIDE DEF K
        <4>2. QED
          BY <4>1, FS_Subset, FS_CardinalityType
      <3>2. L = K \cup (IF s = status THEN {n} ELSE {})
        BY <1>2, <1>4
      <3>3. WithStatus(s) = Cardinality(K) /\ WithStatus(s)' = Cardinality(L)
        BY DEF WithStatus
      <3> HIDE DEF K, L
      <3>4. Cardinality(K \cup {n}) = Cardinality(K) + 1
        BY <3>1, FS_AddElement
      <3>5. CASE s = status
        BY <3>2, <3>3, <3>4, <3>5
      <3>6. CASE s # status
        BY <3>1, <3>2, <3>3, <3>6
      <3>7. QED
        BY <3>5, <3>6
    <2>2. \A c \in Counters : report'[c] =
            IF c \in {"total_lines", "rule_lines", status} THEN report[c] + 1 ELSE report[c]
      BY <1>1, CountedValues DEF RecordsInv, tallied
    <2>3. \A c \in Counters : report[c] \in Nat
      BY DEF RecordsInv
    <2>4. /\ report["total_lines"] = report["blank"] + report["comment"] + report["rule_lines"]
          /\ report["rule_lines"] = report["valid"] + report["invalid"] + report["unsupported"] + report["disabled"]
          /\ \A s \in Statuses : report[s] = WithStatus(s)
          /\ report["valid"] = Len(rules)
      BY DEF RecordsInv, ReportBalances
    <2>5. \A s \in Statuses : report'[s] = WithStatus(s)'
      <3>1. \A s \in Statuses : report'[s] = report[s] + (IF s = status THEN 1 ELSE 0)
        <4>1. \A s \in Statuses : s \in Counters /\ s # "total_lines" /\ s # "rule_lines"
          BY DEF Statuses, Counters
        <4>2. QED
          BY <2>2, <2>3, <4>1
      <3>2. QED
        BY <2>1, <2>4, <3>1
    <2>6. report'["valid"] = Len(rules')
      BY <1>5, <1>6, <2>2, <2>3, <2>4 DEF Statuses, Counters
    <2>7. /\ report'["total_lines"] = report["total_lines"] + 1
          /\ report'["rule_lines"] = report["rule_lines"] + 1
          /\ report'["blank"] = report["blank"] /\ report'["comment"] = report["comment"]
      BY <1>6, <2>2 DEF Statuses, Counters
    <2>8. report'["valid"] + report'["invalid"] + report'["unsupported"] + report'["disabled"]
            = report["valid"] + report["invalid"] + report["unsupported"] + report["disabled"] + 1
      <3>1. \A s \in Statuses : report'[s] = IF s = status THEN report[s] + 1 ELSE report[s]
        BY <2>2 DEF Statuses, Counters
      <3>2. \A s \in Statuses : report[s] \in Nat
        BY <2>3 DEF Statuses, Counters
      <3>3. QED
        BY <1>6, <3>1, <3>2 DEF Statuses
    <2>9. report["blank"] \in Nat /\ report["comment"] \in Nat /\ report["rule_lines"] \in Nat
      BY <2>3 DEF Counters
    <2>10. report'["total_lines"] = report'["blank"] + report'["comment"] + report'["rule_lines"]
      BY <2>4, <2>7, <2>9
    <2>11. report'["rule_lines"] =
             report'["valid"] + report'["invalid"] + report'["unsupported"] + report'["disabled"]
      BY <2>4, <2>7, <2>8
    <2>12. QED
      BY <2>5, <2>6, <2>10, <2>11 DEF ReportBalances
  <1>12. VerdictSound'
    <2>1. \A k \in DOMAIN records' :
            records'[k].reason # Invalid("internal_error") =>
              Judgement(records'[k].text) =
                IF records'[k].status = "disabled" \/ records'[k].reason = Invalid("duplicate_sid")
                  THEN "valid" ELSE records'[k].status
      BY <1>2, <1>3, <1>4 DEF RecordsInv, VerdictSound
    <2>2. \A i \in DOMAIN rules' : UsableRule(rules'[i])
      BY <1>3, <1>5 DEF RecordsInv, VerdictSound
    <2>3. QED
      BY <2>1, <2>2 DEF VerdictSound
  <1>13. seen' = {records'[k].sid : k \in {j \in DOMAIN records' : Acceptable(records'[j])}}
    BY <1>4, <1>7 DEF RecordsInv
  <1>14. FirstOfSid'
    <2>1. \A k \in DOMAIN records : \A j \in 1..(k - 1) : j \in DOMAIN records
      BY <1>4
    <2>2. \A j \in 1..(n - 1) : j \in DOMAIN records
      BY <1>4
    <2>3. (\E j \in 1..(n - 1) : Acceptable(records[j]) /\ records[j].sid = r.sid) <=> r.sid \in seen
      BY <1>4, <2>2 DEF RecordsInv
    <2>4. SUFFICES ASSUME NEW k \in DOMAIN records', Acceptable(records'[k])
                   PROVE  records'[k].status =
                            IF \E j \in 1..(k - 1) : Acceptable(records'[j]) /\ records'[j].sid = records'[k].sid
                              THEN "invalid"
                            ELSE IF records'[k].sid \in setup.disabled_sids THEN "disabled" ELSE "valid"
      BY DEF FirstOfSid
    <2>5. CASE k \in DOMAIN records
      BY <1>4, <2>1, <2>4, <2>5 DEF RecordsInv, FirstOfSid
    <2>6. CASE k = n
      <3>1. records'[k] = r
        BY <1>4, <2>6
      <3>2. (\E j \in 1..(k - 1) : Acceptable(records'[j]) /\ records'[j].sid = r.sid) <=> r.sid \in seen
        BY <1>4, <2>2, <2>3, <2>6
      <3>3. QED
        BY <1>2, <1>3, <2>4, <3>1, <3>2
    <2>7. QED
      BY <1>4, <2>5, <2>6
  <1>15. ActiveInOrder'
    <2>1. \A k \in Active : {j \in Active' : j <= k} = {j \in Active : j <= k}
      BY <1>4, <1>9, <1>10
    <2>2. \A k \in Active : Place(k)' = Place(k)
      BY <2>1 DEF Place
    <2>3. \A k \in Active : Place(k) \in DOMAIN rules
      <3> SUFFICES ASSUME NEW k \in Active
                   PROVE  Place(k) \in DOMAIN rules
        OBVIOUS
      <3> DEFINE K == {j \in Active : j <= k}
      <3>1. K \subseteq Active /\ k \in K
        BY <1>10
      <3>2. Place(k) = Cardinality(K)
        BY DEF Place
      <3> HIDE DEF K
      <3>3. IsFiniteSet(K) /\ Cardinality(K) <= Cardinality(Active) /\ Cardinality(K) \in Nat
        BY <1>10, <3>1, FS_Subset, FS_CardinalityType
      <3>4. Cardinality(K) # 0
        BY <3>1, <3>3, FS_EmptySet
      <3>5. QED
        BY <1>5, <3>2, <3>3, <3>4 DEF RecordsInv, ActiveInOrder
    <2>4. \A k \in Active : records'[k] = records[k]
      BY <1>4 DEF Active
    <2>5. \A k \in Active : rules'[Place(k)'] = parse_rule(records'[k].text).rule
      BY <1>5, <2>2, <2>3, <2>4 DEF RecordsInv, ActiveInOrder
    <2>6. CASE status # "valid"
      <3>1. Active' = Active /\ rules' = rules
        BY <1>5, <1>9, <2>6
      <3>2. QED
        BY <2>5, <3>1 DEF RecordsInv, ActiveInOrder
    <2>7. CASE status = "valid"
      <3>1. Active' = Active \cup {n}
        BY <1>9, <2>7
      <3>2. Cardinality(Active \cup {n}) = Cardinality(Active) + 1
        BY <1>10, FS_AddElement
      <3>3. Len(rules') = Cardinality(Active')
        BY <1>5, <2>7, <3>1, <3>2 DEF RecordsInv, ActiveInOrder
      <3>4. {j \in Active' : j <= n} = Active'
        BY <1>4, <1>10, <3>1
      <3>5. \A k : k = n => Place(k)' = m
        <4>1. \A k : Place(k)' = Cardinality({j \in Active' : j <= k})
          BY DEF Place
        <4>2. QED
          BY <1>5, <2>7, <3>3, <3>4, <4>1
      <3>6. \A k : k = n => rules'[Place(k)'] = parse_rule(records'[k].text).rule
        BY <1>2, <1>3, <1>4, <1>5, <2>7, <3>5
      <3>7. \A k \in Active' : rules'[Place(k)'] = parse_rule(records'[k].text).rule
        BY <2>5, <3>1, <3>6
      <3>8. QED
        BY <3>3, <3>7 DEF ActiveInOrder
    <2>8. QED
      BY <2>6, <2>7
  <1>16. SidsDiffer'
    <2>1. \A i \in DOMAIN rules : rules[i].sid \in seen'
      BY <1>7 DEF RecordsInv, SidsDiffer
    <2>2. CASE status # "valid"
      BY <1>5, <2>1, <2>2 DEF RecordsInv, SidsDiffer
    <2>3. CASE status = "valid"
      <3>1. Acceptable(r) /\ r.sid \notin seen /\ r.sid = result.rule.sid
        BY <1>3, <2>3
      <3>2. \A i \in DOMAIN rules : rules[i].sid # result.rule.sid
        BY <3>1 DEF RecordsInv, SidsDiffer
      <3>3. result.rule.sid \in seen'
        BY <1>7, <3>1
      <3>4. \A i \in DOMAIN rules' : rules'[i].sid \in seen'
        BY <1>5, <2>1, <2>3, <3>3
      <3>5. \A i, j \in DOMAIN rules' : i # j => rules'[i].sid # rules'[j].sid
        BY <1>5, <2>3, <3>2 DEF RecordsInv, SidsDiffer
      <3>6. QED
        BY <3>4, <3>5 DEF SidsDiffer
    <2>4. QED
      BY <2>2, <2>3
  <1>17. QED
    BY <1>4, <1>5, <1>8, <1>11, <1>12, <1>13, <1>14, <1>15, <1>16 DEF RecordsInv

LEMMA RecordsUnchanged ==
  ASSUME RecordsInv, UNCHANGED <<setup, report, rules, records, seen>>
  PROVE  RecordsInv'
  BY DEF RecordsInv, ReportBalances, WithStatus, VerdictSound, FirstOfSid, ActiveInOrder, Active, Place, SidsDiffer

\* Counting a line without a rule, or a file that was left out.
LEMMA CountKeeps ==
  ASSUME RecordsInv,
         NEW C \in {{"total_lines", "blank"}, {"total_lines", "comment"}, {"files_failed"}, {"disabled_files"}},
         report' = Counted(C), UNCHANGED <<setup, rules, records, seen>>
  PROVE  RecordsInv'
  <1>1. \A s : WithStatus(s)' = WithStatus(s)
    BY DEF WithStatus
  <1>2. report' \in [Counters -> Nat] /\ \A c \in Counters : report'[c] = IF c \in C THEN report[c] + 1 ELSE report[c]
    BY CountedValues DEF RecordsInv
  <1>3. \A c \in Counters : report[c] \in Nat
    BY DEF RecordsInv
  <1>4. /\ report'["rule_lines"] = report["rule_lines"] /\ report'["valid"] = report["valid"]
        /\ report'["invalid"] = report["invalid"] /\ report'["unsupported"] = report["unsupported"]
        /\ report'["disabled"] = report["disabled"]
    BY <1>2 DEF Counters
  <1>5. /\ report["total_lines"] \in Nat /\ report["blank"] \in Nat /\ report["comment"] \in Nat
        /\ report["rule_lines"] \in Nat
    BY <1>3 DEF Counters
  <1>6. /\ report'["total_lines"] = IF "total_lines" \in C THEN report["total_lines"] + 1 ELSE report["total_lines"]
        /\ report'["blank"] = IF "blank" \in C THEN report["blank"] + 1 ELSE report["blank"]
        /\ report'["comment"] = IF "comment" \in C THEN report["comment"] + 1 ELSE report["comment"]
    BY <1>2 DEF Counters
  <1>7. /\ report["total_lines"] = report["blank"] + report["comment"] + report["rule_lines"]
        /\ report["rule_lines"] = report["valid"] + report["invalid"] + report["unsupported"] + report["disabled"]
        /\ \A s \in Statuses : report[s] = WithStatus(s)
        /\ report["valid"] = Len(rules)
    BY DEF RecordsInv, ReportBalances
  <1>8. report'["total_lines"] = report'["blank"] + report'["comment"] + report'["rule_lines"]
    <2>1. CASE C = {"total_lines", "blank"}
      BY <1>4, <1>5, <1>6, <1>7, <2>1
    <2>2. CASE C = {"total_lines", "comment"}
      BY <1>4, <1>5, <1>6, <1>7, <2>2
    <2>3. CASE C = {"files_failed"} \/ C = {"disabled_files"}
      BY <1>4, <1>5, <1>6, <1>7, <2>3
    <2>4. QED
      BY <2>1, <2>2, <2>3
  <1>9. \A s \in Statuses : report'[s] = WithStatus(s)'
    BY <1>1, <1>4, <1>7 DEF Statuses
  <1>10. ReportBalances'
    BY <1>4, <1>7, <1>8, <1>9 DEF ReportBalances
  <1>11. VerdictSound' /\ FirstOfSid' /\ ActiveInOrder' /\ SidsDiffer'
    BY DEF RecordsInv, VerdictSound, FirstOfSid, ActiveInOrder, Active, Place, SidsDiffer
  <1>12. QED
    BY <1>2, <1>10, <1>11 DEF RecordsInv

-----------------------------------------------------------------------------
(* The files *)

ReadingInv ==
  /\ setup \in Setups /\ stage \in Stages
  /\ todo \in Seq(DOMAIN Disk) /\ path \in DOMAIN Disk \cup {None}
  /\ loaded \subseteq {_path_key(p) : p \in DOMAIN Disk}
  /\ at \in Nat \ {0} /\ (path # None => at <= Len(Disk[path].lines) + 1)
  /\ gathered # None => /\ path # None
                        /\ gathered.start \in 1..(at - 1) /\ gathered.slashes \in Nat
                        /\ IsSequence(gathered.text) /\ LineDecoded(gathered.text)
  /\ file \in {"old", "gone", "new"} /\ offered \in 0..Len(records) /\ faults \in 0..MaxFaults

LEMMA LeftoverDecoded ==
  ASSUME NEW n
  PROVE  IsSequence(Leftover(n)) /\ LineDecoded(Leftover(n))
  <1>1. CASE Leftover(n) = <<>>
    BY <1>1 DEF IsSequence, LineDecoded
  <1>2. CASE Leftover(n) = <<Backslash>>
    <2>1. IsSequence(<<Backslash>>)
      BY DEF IsSequence
    <2>2. Backslash.key = ""
      BY DEF Backslash
    <2>3. Decoded(Backslash)
      BY <2>2 DEF Decoded
    <2>4. LineDecoded(<<Backslash>>)
      BY <2>3 DEF LineDecoded
    <2>5. QED
      BY <1>2, <2>1, <2>4
  <1>3. QED
    BY <1>1, <1>2 DEF Leftover

LEMMA JointDecoded ==
  ASSUME NEW s, IsSequence(s), LineDecoded(s), NEW t, IsSequence(t), LineDecoded(t)
  PROVE  IsSequence(s \o t) /\ LineDecoded(s \o t)
  BY Joint DEF LineDecoded

LEMMA RuleTextDecoded ==
  ASSUME ReadingInv, gathered # None
  PROVE  IsSequence(RuleText) /\ LineDecoded(RuleText)
  BY LeftoverDecoded, JointDecoded DEF ReadingInv, RuleText

\* The physical lines are those of the configuration.
LEMMA LineOfFile ==
  ASSUME ReadingInv, path # None
  PROVE  /\ IsSequence(Disk[path].lines) /\ Len(Disk[path].lines) \in Nat
         /\ ~AtEnd => /\ at \in 1..Len(Disk[path].lines) /\ Line.slashes \in Nat
                      /\ IsSequence(Line.lexemes) /\ LineDecoded(Line.lexemes)
  <1>1. setup \in Setups /\ path \in DOMAIN setup.disk
    BY DEF ReadingInv, Disk
  <1>2. /\ IsSequence(setup.disk[path].lines)
        /\ \A i \in DOMAIN setup.disk[path].lines :
             /\ setup.disk[path].lines[i].slashes \in Nat /\ IsSequence(setup.disk[path].lines[i].lexemes)
             /\ \A j \in DOMAIN setup.disk[path].lines[i].lexemes : Decoded(setup.disk[path].lines[i].lexemes[j])
    BY <1>1, LoaderAssumption
  <1>3. Len(setup.disk[path].lines) \in Nat /\ DOMAIN setup.disk[path].lines = 1..Len(setup.disk[path].lines)
    BY <1>2 DEF IsSequence
  <1>4. ~AtEnd => at \in 1..Len(setup.disk[path].lines)
    BY <1>3 DEF AtEnd, Disk, ReadingInv
  <1>5. QED
    BY <1>2, <1>3, <1>4 DEF Line, Disk, LineDecoded

LEMMA RecordsNext ==
  ASSUME ReadingInv, RecordsInv, [Next]_vars
  PROVE  RecordsInv'
  <1>1. CASE Parse
    <2>1. gathered # None /\ setup' = setup /\ _collect(parse_rule(RuleText))
      BY <1>1 DEF Parse, Whole
    <2>2. QED
      BY <2>1, RuleTextDecoded, CollectKeeps
  <1>2. CASE ParseRaises
    <2>1. gathered # None /\ setup' = setup /\ _collect(InternalError)
      BY <1>2 DEF ParseRaises, Whole
    <2>2. QED
      BY <2>1, RuleTextDecoded, CollectKeeps
  <1>3. CASE LeaveOut
    BY <1>3, CountKeeps DEF LeaveOut
  <1>4. CASE OpenFails
    BY <1>4, CountKeeps DEF OpenFails
  <1>5. CASE Blank
    BY <1>5, CountKeeps DEF Blank
  <1>6. CASE Comment
    BY <1>6, CountKeeps DEF Comment
  <1>7. CASE Refuse \/ Skip \/ Begin \/ ListFile \/ ListExtras \/ OpenAgain \/ Open \/ CloseFile
    BY <1>7, RecordsUnchanged DEF Refuse, Skip, Begin, ListFile, ListExtras, OpenAgain, Open, CloseFile, results
  <1>8. CASE StartRule \/ Join \/ Loaded \/ Add \/ Freeze \/ Replace \/ ReplaceFails
    BY <1>8, RecordsUnchanged DEF StartRule, Join, Loaded, Add, Freeze, Replace, ReplaceFails, results
  <1>9. CASE Write \/ WriteFails \/ CloseReport \/ UNCHANGED vars
    BY <1>9, RecordsUnchanged DEF Write, WriteFails, CloseReport, results, vars
  <1>10. QED
    BY <1>1, <1>2, <1>3, <1>4, <1>5, <1>6, <1>7, <1>8, <1>9 DEF Next

\* The records never become fewer.
LEMMA RecordsGrow ==
  ASSUME RecordsInv, NEW result, _collect(result)
  PROVE  Len(records') \in Nat /\ Len(records) <= Len(records') /\ Len(records) \in Nat
  BY AppendTo DEF RecordsInv, _collect

LEMMA ReadingNext ==
  ASSUME ReadingInv, RecordsInv, [Next]_vars
  PROVE  ReadingInv'
  <1>1. setup' = setup
    BY DEF Next, Refuse, Skip, Begin, ListFile, LeaveOut, ListExtras, OpenAgain, OpenFails, Open, CloseFile,
           Blank, Comment, StartRule, Join, Parse, ParseRaises, Loaded, Add, Freeze,
           Replace, ReplaceFails, Write, WriteFails, CloseReport, vars
  <1>2. setup \in Setups /\ Len(records) \in Nat /\ MaxFaults \in Nat /\ report["disabled_files"] \in Nat
    <2>1. Len(records) \in Nat /\ report["disabled_files"] \in Nat
      BY DEF RecordsInv, IsSequence, Counters
    <2>2. QED
      BY <2>1, LoaderAssumption DEF ReadingInv
  <1>3. Disk' = Disk /\ \A p : _path_key(p)' = _path_key(p)
    BY <1>1 DEF Disk, _path_key
  <1>4. CASE Refuse \/ Skip \/ Begin \/ LeaveOut \/ Loaded \/ Add \/ Freeze
    BY <1>1, <1>3, <1>4
       DEF Refuse, Skip, Begin, LeaveOut, Loaded, Add, Freeze, ReadingInv, reading, results, engine, output, Stages
  <1>5. CASE ListFile
    <2>1. setup.rule_files \in Seq([path : DOMAIN setup.disk, enabled : BOOLEAN]) /\ Len(todo) \in Nat
      BY <1>2, LoaderAssumption DEF ReadingInv
    <2>2. Listed + 1 \in 1..Len(setup.rule_files)
      BY <1>2, <1>5, <2>1 DEF ListFile, Listed
    <2>3. Entry.path \in DOMAIN Disk
      <3>1. setup.rule_files[Listed + 1] \in [path : DOMAIN setup.disk, enabled : BOOLEAN]
        BY <2>1, <2>2, ElementOfSeq
      <3>2. QED
        BY <3>1 DEF Entry, Disk
    <2>4. Append(todo, Entry.path) \in Seq(DOMAIN Disk)
      BY <2>3 DEF ReadingInv
    <2>5. QED
      BY <1>1, <1>3, <1>5, <2>4 DEF ListFile, ReadingInv, results, engine, output
  <1>6. CASE ListExtras
    <2>1. setup.extra_paths \in Seq(DOMAIN Disk)
      BY <1>2, LoaderAssumption DEF Disk
    <2>2. todo \o setup.extra_paths \in Seq(DOMAIN Disk)
      BY <2>1 DEF ReadingInv
    <2>3. QED
      BY <1>1, <1>3, <1>6, <2>2 DEF ListExtras, ReadingInv, results, engine, output, Stages
  <1>7. CASE OpenAgain \/ OpenFails \/ Open
    <2>1. todo # <<>> /\ todo \in Seq(DOMAIN Disk)
      BY <1>7 DEF OpenAgain, OpenFails, Open, Loading, ReadingInv
    <2>2. Head(todo) \in DOMAIN Disk /\ Tail(todo) \in Seq(DOMAIN Disk)
      BY <2>1, HeadTailProperties
    <2>3. CASE OpenAgain
      BY <1>1, <1>3, <2>2, <2>3 DEF OpenAgain, ReadingInv, results, engine, output
    <2>4. CASE OpenFails
      BY <1>1, <1>3, <2>2, <2>4 DEF OpenFails, ReadingInv, results, engine, output
    <2>5. CASE Open
      <3>1. Len(Disk[Head(todo)].lines) \in Nat
        <4>1. IsSequence(setup.disk[Head(todo)].lines)
          BY <1>2, <2>2, LoaderAssumption DEF Disk
        <4>2. QED
          BY <4>1 DEF IsSequence, Disk
      <3>2. gathered = None
        BY <2>5 DEF Open, Loading, ReadingInv
      <3>3. QED
        BY <1>1, <1>3, <2>2, <2>5, <3>1, <3>2 DEF Open, ReadingInv, results, engine, output
    <2>6. QED
      BY <1>7, <2>3, <2>4, <2>5
  <1>8. CASE CloseFile
    BY <1>1, <1>3, <1>8 DEF CloseFile, ReadingInv, results, engine, output
  <1>9. CASE Blank \/ Comment
    <2>1. path # None /\ ~AtEnd /\ at' = at + 1 /\ gathered = None
      BY <1>9 DEF Blank, Comment, NextLine
    <2>2. at \in 1..Len(Disk[path].lines) /\ Len(Disk[path].lines) \in Nat
      BY <2>1, LineOfFile
    <2>3. QED
      BY <1>1, <1>3, <1>9, <2>1, <2>2 DEF Blank, Comment, ReadingInv, results, engine, output
  <1>10. CASE StartRule
    <2>1. path # None /\ ~AtEnd /\ at' = at + 1
      BY <1>10 DEF StartRule, NextLine
    <2>2. /\ at \in 1..Len(Disk[path].lines) /\ Len(Disk[path].lines) \in Nat
          /\ Line.slashes \in Nat /\ IsSequence(Line.lexemes) /\ LineDecoded(Line.lexemes)
      BY <2>1, LineOfFile
    <2>3. gathered'.start = at /\ gathered'.text = Line.lexemes /\ gathered'.slashes = Line.slashes
      BY <1>10 DEF StartRule
    <2>4. at \in 1..(at' - 1)
      BY <2>1, <2>2
    <2>5. QED
      BY <1>1, <1>3, <1>10, <2>1, <2>2, <2>3, <2>4 DEF StartRule, ReadingInv, results, engine, output
  <1>11. CASE Join
    <2>1. /\ gathered # None /\ path # None /\ ~AtEnd /\ at' = at + 1 /\ gathered' = joined(gathered, Line)
          /\ gathered.slashes \in Nat /\ gathered.slashes > 0 /\ gathered.start \in 1..(at - 1)
          /\ IsSequence(gathered.text) /\ LineDecoded(gathered.text)
      BY <1>11 DEF Join, ReadingInv
    <2>2. /\ at \in 1..Len(Disk[path].lines) /\ Len(Disk[path].lines) \in Nat
          /\ Line.slashes \in Nat /\ IsSequence(Line.lexemes) /\ LineDecoded(Line.lexemes)
      BY <2>1, LineOfFile
    <2>3. gathered' # None => /\ gathered'.start \in 1..(at' - 1) /\ gathered'.slashes \in Nat
                              /\ IsSequence(gathered'.text) /\ LineDecoded(gathered'.text)
      <3> SUFFICES ASSUME gathered' # None
                   PROVE  /\ gathered'.start \in 1..(at' - 1) /\ gathered'.slashes \in Nat
                          /\ IsSequence(gathered'.text) /\ LineDecoded(gathered'.text)
        OBVIOUS
      <3>1. gathered.start \in 1..(at' - 1)
        BY <2>1, <2>2
      <3>2. IsSequence(gathered.text \o Leftover(gathered.slashes) \o Line.lexemes)
            /\ LineDecoded(gathered.text \o Leftover(gathered.slashes) \o Line.lexemes)
        BY <2>1, <2>2, LeftoverDecoded, JointDecoded
      <3>3. CASE Line.lexemes = <<>>
        BY <2>1, <2>2, <3>1, <3>3 DEF joined
      <3>4. CASE Line.lexemes # <<>>
        BY <2>1, <2>2, <3>1, <3>2, <3>4 DEF joined
      <3>5. QED
        BY <3>3, <3>4
    <2>4. QED
      BY <1>1, <1>3, <1>11, <2>1, <2>2, <2>3 DEF Join, ReadingInv, results, engine, output
  <1>12. CASE Parse \/ ParseRaises
    <2>1. Len(records') \in Nat /\ Len(records) <= Len(records')
      BY <1>12, RecordsGrow DEF Parse, ParseRaises
    <2>2. offered' \in 0..Len(records') /\ faults' \in 0..MaxFaults
      BY <1>2, <1>12, <2>1 DEF Parse, ParseRaises, ReadingInv, output
    <2>3. QED
      BY <1>1, <1>3, <1>12, <2>2 DEF Parse, ParseRaises, ReadingInv, output
  <1>13. CASE Replace \/ ReplaceFails \/ CloseReport
    BY <1>1, <1>2, <1>3, <1>13
       DEF Replace, ReplaceFails, CloseReport, ReadingInv, reading, results, engine, output, Stages
  <1>14. CASE Write \/ WriteFails
    <2>1. /\ offered < Len(records) /\ offered' = offered + 1 /\ UNCHANGED <<reading, setup, stage, records>>
          /\ file' = file /\ (faults' = faults \/ (faults < MaxFaults /\ faults' = faults + 1))
      BY <1>14 DEF Write, WriteFails, Offering, results
    <2>2. offered' \in 0..Len(records') /\ faults' \in 0..MaxFaults
      BY <1>2, <2>1 DEF ReadingInv
    <2>3. QED
      BY <1>1, <1>3, <2>1, <2>2 DEF ReadingInv, reading
  <1>15. CASE UNCHANGED vars
    BY <1>3, <1>15 DEF vars, ReadingInv, reading, results, output, AtEnd
  <1>16. QED
    BY <1>4, <1>5, <1>6, <1>7, <1>8, <1>9, <1>10, <1>11, <1>12, <1>13, <1>14, <1>15 DEF Next

-----------------------------------------------------------------------------
(* The repository *)

EngineInv ==
  /\ frozen \in BOOLEAN /\ stage # "failed"
  /\ IsSequence(repository) /\ Len(repository) <= Len(rules)
  /\ \A i \in DOMAIN repository : repository[i] = rules[i]
  /\ stage \in {"starting", "refused", "listing", "loading"} => repository = <<>>
  /\ stage \in {"starting", "refused", "listing", "loading", "adding"} => ~frozen
  /\ stage \in {"reporting", "writing", "running"} /\ setup.enabled => Len(repository) = Len(rules)

LEMMA EngineNext ==
  ASSUME RecordsInv, EngineInv, [Next]_vars
  PROVE  EngineInv'
  <1>1. CASE Parse \/ ParseRaises
    <2>1. /\ stage = "loading" /\ stage' = stage /\ repository' = repository /\ frozen' = frozen /\ setup' = setup
          /\ \E s : rules' = rules \/ rules' = Append(rules, s)
      BY <1>1 DEF Parse, ParseRaises, engine, _collect
    <2>2. repository = <<>>
      BY <2>1 DEF EngineInv
    <2>3. Len(rules') \in Nat
      <3>1. IsSequence(rules) /\ \A s : IsSequence(Append(rules, s))
        BY AppendTo DEF RecordsInv
      <3>2. IsSequence(rules')
        BY <2>1, <3>1
      <3>3. QED
        BY <3>2 DEF IsSequence
    <2>4. QED
      BY <2>1, <2>2, <2>3 DEF EngineInv
  <1>2. CASE Add
    <2>1. /\ stage = "adding" /\ Len(repository) < Len(rules) /\ ~frozen
          /\ rules' = rules /\ frozen' = frozen /\ setup' = setup
      BY <1>2 DEF Add, results, EngineInv
    <2>2. /\ IsSequence(rules) /\ Len(rules) \in Nat /\ DOMAIN rules = 1..Len(rules)
          /\ Len(repository) \in Nat /\ DOMAIN repository = 1..Len(repository)
      BY DEF RecordsInv, EngineInv, IsSequence
    <2>3. ~ \E i \in DOMAIN repository : repository[i].sid = rules[Len(repository) + 1].sid
      <3>1. Len(repository) + 1 \in DOMAIN rules
        BY <2>1, <2>2
      <3>2. \A i \in DOMAIN repository : /\ i \in DOMAIN rules /\ i # Len(repository) + 1
                                        /\ repository[i] = rules[i]
        BY <2>1, <2>2 DEF EngineInv
      <3>3. QED
        BY <3>1, <3>2 DEF RecordsInv, SidsDiffer
    <2>4. repository' = Append(repository, rules[Len(repository) + 1]) /\ stage' = stage
      BY <1>2, <2>1, <2>3 DEF Add
    <2>5. /\ IsSequence(repository') /\ Len(repository') = Len(repository) + 1
          /\ \A i \in DOMAIN repository' : repository'[i] = rules[i]
      BY <2>4, AppendTo DEF EngineInv
    <2>6. Len(repository') <= Len(rules)
      BY <2>1, <2>2, <2>5
    <2>7. QED
      BY <2>1, <2>4, <2>5, <2>6 DEF EngineInv
  <1>3. CASE Freeze
    BY <1>3 DEF Freeze, EngineInv, results
  <1>4. CASE Refuse \/ Skip \/ Begin \/ ListFile \/ LeaveOut \/ ListExtras \/ Loaded
    <2>1. CASE Refuse
      BY <2>1 DEF Refuse, EngineInv, results, engine
    <2>2. CASE Skip
      BY <2>2 DEF Skip, EngineInv, results
    <2>3. CASE Begin
      BY <2>3 DEF Begin, EngineInv, results, engine
    <2>4. CASE ListFile \/ LeaveOut
      BY <2>4 DEF ListFile, LeaveOut, EngineInv, results, engine
    <2>5. CASE ListExtras \/ Loaded
      BY <2>5 DEF ListExtras, Loaded, EngineInv, results, engine
    <2>6. QED
      BY <1>4, <2>1, <2>2, <2>3, <2>4, <2>5
  <1>5. CASE OpenAgain \/ OpenFails \/ Open \/ CloseFile \/ Blank \/ Comment \/ StartRule \/ Join
    BY <1>5 DEF OpenAgain, OpenFails, Open, CloseFile, Blank, Comment, StartRule, Join, EngineInv, results, engine
  <1>6. CASE Replace \/ ReplaceFails \/ Write \/ WriteFails \/ CloseReport \/ UNCHANGED vars
    BY <1>6 DEF Replace, ReplaceFails, Write, WriteFails, CloseReport, Offering, EngineInv, results, engine, vars
  <1>7. QED
    BY <1>1, <1>2, <1>3, <1>4, <1>5, <1>6 DEF Next

-----------------------------------------------------------------------------
(* The theorems *)

LoaderInv == ReadingInv /\ RecordsInv /\ EngineInv

LEMMA LoaderInit == Init => LoaderInv
  <1> SUFFICES ASSUME Init PROVE LoaderInv
    OBVIOUS
  <1>1. ReadingInv
    BY LoaderAssumption DEF Init, ReadingInv, Stages
  <1>2. RecordsInv
    <2>1. records = <<>> /\ rules = <<>> /\ IsSequence(<<>>) /\ report = [c \in Counters |-> 0] /\ seen = {}
      BY DEF Init, IsSequence
    <2>2. Active = {} /\ (\A s : WithStatus(s) = Cardinality({})) /\ Cardinality({}) = 0
      BY <2>1, FS_EmptySet DEF Active, WithStatus
    <2>3. ReportBalances
      BY <2>1, <2>2 DEF ReportBalances, Counters, Statuses
    <2>4. VerdictSound /\ FirstOfSid /\ ActiveInOrder /\ SidsDiffer
      BY <2>1, <2>2 DEF VerdictSound, FirstOfSid, ActiveInOrder, SidsDiffer
    <2>5. QED
      BY <2>1, <2>3, <2>4 DEF RecordsInv
  <1>3. EngineInv
    <2>1. repository = <<>> /\ rules = <<>> /\ stage = "starting" /\ frozen = FALSE
      BY DEF Init
    <2>2. IsSequence(<<>>) /\ DOMAIN <<>> = {}
      BY DEF IsSequence
    <2>3. /\ IsSequence(repository) /\ DOMAIN repository = {} /\ Len(repository) = Len(rules)
          /\ Len(repository) \in Nat
      BY <2>1, <2>2 DEF IsSequence
    <2>4. frozen \in BOOLEAN /\ ~frozen
      BY <2>1
    <2>5. stage \notin {"failed", "reporting", "writing", "running"}
      BY <2>1
    <2>6. \A i \in DOMAIN repository : repository[i] = rules[i]
      BY <2>3
    <2>7. Len(repository) <= Len(rules)
      BY <2>3
    <2>8. QED
      BY <2>1, <2>3, <2>4, <2>5, <2>6, <2>7 DEF EngineInv
  <1>4. QED
    BY <1>1, <1>2, <1>3 DEF LoaderInv

\* The files, the records and the repository agree at every step of the set-up.
THEOREM LoaderInvariant == Spec => []LoaderInv
  <1>1. LoaderInv /\ [Next]_vars => LoaderInv'
    BY RecordsNext, ReadingNext, EngineNext DEF LoaderInv
  <1>2. QED
    BY <1>1, LoaderInit, PTL DEF Spec

\* The types, and with them that every RuleRecord the loader makes is one its
\* constructor accepts.
THEOREM TypeCorrect == Spec => []TypeOK
  <1>1. LoaderInv => TypeOK
    BY DEF LoaderInv, ReadingInv, RecordsInv, EngineInv, TypeOK
  <1>2. QED
    BY <1>1, LoaderInvariant, PTL

\* The equations of LoadReport hold after every line of every file, whatever
\* fails on the way.
THEOREM ReportAddsUp == Spec => []ReportBalances
  <1>1. LoaderInv => ReportBalances
    BY DEF LoaderInv, RecordsInv
  <1>2. QED
    BY <1>1, LoaderInvariant, PTL

\* Every record has the verdict that does not depend on the order of the
\* checks, and every active rule is usable.
THEOREM VerdictsSound == Spec => []VerdictSound
  <1>1. LoaderInv => VerdictSound
    BY DEF LoaderInv, RecordsInv
  <1>2. QED
    BY <1>1, LoaderInvariant, PTL

\* Of the acceptable lines with one sid the first decides, across all files,
\* and the repository takes every active rule, in order, without an error.
THEOREM FirstOfSidActive == Spec => []FirstValidActive
  <1>1. LoaderInv => FirstValidActive
    <2> SUFFICES ASSUME LoaderInv PROVE FirstValidActive
      OBVIOUS
    <2>1. ASSUME Len(repository) = Len(rules) PROVE repository = rules
      <3>1. /\ repository = [i \in 1..Len(repository) |-> repository[i]] /\ DOMAIN repository = 1..Len(repository)
            /\ rules = [i \in 1..Len(rules) |-> rules[i]]
        BY DEF LoaderInv, RecordsInv, EngineInv, IsSequence
      <3>2. \A i \in 1..Len(repository) : repository[i] = rules[i]
        BY <3>1 DEF LoaderInv, EngineInv
      <3>3. QED
        BY <2>1, <3>1, <3>2
    <2>2. QED
      BY <2>1 DEF LoaderInv, RecordsInv, EngineInv, FirstOfSid, ActiveInOrder, FirstValidActive
  <1>2. QED
    BY <1>1, LoaderInvariant, PTL

-----------------------------------------------------------------------------
(* Every rule line has its record *)

\* How many of the files asked for have been taken from the list.
Files == sources(setup)
Done == Len(Files) - Len(todo)

Started == stage \notin {"starting", "refused", "listing"} /\ setup.enabled

\* While the list is made it has the enabled entries so far, and no file was
\* touched.
ListInv ==
  stage \in {"starting", "refused", "listing"} =>
    /\ Listed \in 0..Len(setup.rule_files) /\ todo = Enabled(setup)[Listed]
    /\ path = None /\ gathered = None /\ records = <<>> /\ loaded = {}

\* The files still to be loaded are the last ones asked for; loaded has the
\* names of those before.
TodoInv ==
  Started => /\ Len(todo) <= Len(Files)
             /\ \A i \in 1..Len(todo) : todo[i] = Files[Done + i]
             /\ loaded = {_path_key(Files[i]) : i \in 1..Done}

\* The file being read is the last one taken; each of its lines is pulled into
\* the rule in hand by the backslashes that are left of this one.
OpenInv ==
  IF path = None THEN gathered = None
  ELSE /\ stage = "loading" /\ setup.enabled
       /\ Done \in FirstPlaces /\ path = Files[Done]
       /\ IF gathered = None THEN AtEnd \/ Pull(Disk[path].lines)[at] = 0
          ELSE /\ gathered \in Logical(setup)
               /\ Pull(Disk[path].lines)[at] = gathered.slashes
               /\ gathered.start \in RuleLines(path) /\ gathered.start < at
               /\ \A l \in RuleLines(path) : l < at => l <= gathered.start

\* The places of the files that were read to their end.
Read == {i \in FirstPlaces : i <= Done /\ (path # None => i < Done)}

\* The rule lines of the open file that have been judged.
Judged == IF path = None THEN {}
          ELSE {l \in RuleLines(path) : l < IF gathered = None THEN at ELSE gathered.start}

\* The rule lines so far, with their files: the records are of these, in order.
LinesAt(i) == {Files[i]} \X RuleLines(Files[i])
LinesOf(S) == UNION {LinesAt(i) : i \in S}
Covered == LinesOf(Read) \cup ({path} \X Judged)

Recorded == {<<records[k].file, records[k].line>> : k \in DOMAIN records}
InOrder == \A j, k \in DOMAIN records : j < k => Before(records[j], records[k])

RecordedInv == Started => Recorded = Covered /\ InOrder

\* Loading is for an engine that is enabled, and ends when the list is empty
\* and no file is open.
LoadedInv ==
  /\ stage \in {"listing", "loading", "adding", "reporting", "writing"} => setup.enabled
  /\ stage \in {"adding", "reporting", "writing", "running"} /\ setup.enabled =>
       todo = <<>> /\ path = None

\* The report on disk, and how far its writing has come.
OutputInv ==
  /\ stage \in {"starting", "refused", "listing", "loading", "adding", "reporting"} =>
       file = "old" /\ lines = <<>> /\ offered = 0
  /\ stage = "writing" => file = "new"
  /\ stage = "running" /\ setup.enabled =>
       IF file = "new" THEN offered = Len(records) ELSE faults > 0
  /\ IsSequence(lines) /\ Len(lines) + faults >= offered
  /\ \A i \in DOMAIN lines : \E k \in 1..offered : lines[i] = records[k]
  /\ \A i, j \in DOMAIN lines : i < j =>
       \E k, l \in 1..offered : k < l /\ lines[i] = records[k] /\ lines[j] = records[l]

-----------------------------------------------------------------------------
(* Recursion over an interval of numbers *)

\* Induction over the naturals, for a set of numbers.
LEMMA Induction ==
  ASSUME NEW P \in SUBSET Nat, 0 \in P, \A n \in P : n + 1 \in P
  PROVE  \A n \in Nat : n \in P
  <1> DEFINE S == Nat \ P
  <1>1. CASE S # {}
    <2>1. Min(S) \in S /\ \A y \in S : Min(S) <= y
      BY <1>1, LeastExists
    <2>2. PICK x \in S : \A y \in S : x <= y
      BY <2>1
    <2>3. x \in Nat /\ x # 0
      OBVIOUS
    <2>4. x - 1 \in Nat /\ ~(x <= x - 1) /\ x - 1 + 1 = x
      BY <2>3
    <2>5. x - 1 \in P
      BY <2>2, <2>4
    <2>6. x \in P
      BY <2>4, <2>5
    <2>7. QED
      BY <2>2, <2>6
  <1>2. CASE S = {}
    BY <1>2
  <1>3. QED
    BY <1>1, <1>2

\* f begins with a and goes from i - 1 to i by g.
Follows(f, n, a, g) == f[0] = a /\ \A i \in 1..n : f[i] = g[<<i, f[i - 1]>>]

Closed(g, n, S) == \A i \in 1..n : \A x \in S : g[<<i, x>>] \in S

LEMMA Recursion ==
  ASSUME NEW N \in Nat, NEW S, NEW a \in S, NEW g, Closed(g, N, S)
  PROVE  \E f \in [0..N -> S] : Follows(f, N, a, g)
  <1> DEFINE Solves(f, n) == Follows(f, n, a, g)
             P == {n \in Nat : n <= N => \E f \in [0..n -> S] : Solves(f, n)}
  <1> USE DEF Follows, Closed
  <1>1. 0 \in P
    <2> DEFINE f == [i \in 0..0 |-> a]
    <2>1. f \in [0..0 -> S] /\ Solves(f, 0)
      OBVIOUS
    <2>2. QED
      BY <2>1
  <1>2. ASSUME NEW n \in P
        PROVE  n + 1 \in P
    <2>1. CASE n + 1 <= N
      <3>1. PICK f \in [0..n -> S] : Solves(f, n)
        BY <2>1
      <3>2. n \in Nat /\ n + 1 \in 1..N /\ n \in 0..n
        BY <2>1
      <3> DEFINE h == [i \in 0..(n + 1) |-> IF i = n + 1 THEN g[<<n + 1, f[n]>>] ELSE f[i]]
      <3>3. f[n] \in S /\ g[<<n + 1, f[n]>>] \in S
        BY <3>2
      <3>4. h \in [0..(n + 1) -> S]
        <4>1. \A i \in 0..(n + 1) : i # n + 1 => f[i] \in S
          BY <3>2
        <4>2. QED
          BY <3>3, <4>1
      <3>5. h[0] = a
        BY <3>1, <3>2
      <3>6. ASSUME NEW i \in 1..(n + 1)
            PROVE  h[i] = g[<<i, h[i - 1]>>]
        <4>1. i \in 0..(n + 1) /\ i - 1 \in 0..(n + 1) /\ i - 1 # n + 1
          BY <3>2
        <4>2. h[i - 1] = f[i - 1]
          BY <4>1
        <4>3. CASE i = n + 1
          <5>1. i - 1 = n
            BY <3>2, <4>3
          <5>2. QED
            BY <4>1, <4>2, <4>3, <5>1
        <4>4. CASE i # n + 1
          <5>1. i \in 1..n
            BY <3>2, <4>4
          <5>2. f[i] = g[<<i, f[i - 1]>>]
            BY <3>1, <5>1
          <5>3. QED
            BY <4>1, <4>2, <4>4, <5>2
        <4>5. QED
          BY <4>3, <4>4
      <3> HIDE DEF h
      <3>7. Solves(h, n + 1) /\ n + 1 \in Nat
        BY <3>2, <3>5, <3>6
      <3> HIDE DEF Solves
      <3>8. QED
        BY <3>4, <3>7
    <2>2. CASE ~(n + 1 <= N)
      BY <2>2
    <2>3. QED
      BY <2>1, <2>2
  <1>3. N \in P
    <2> HIDE DEF P
    <2>1. P \in SUBSET Nat
      BY DEF P
    <2>2. QED
      BY <1>1, <1>2, <2>1, Induction
  <1>4. QED
    BY <1>3

\* The list of the enabled entries, entry by entry.
LEMMA EnabledSteps ==
  ASSUME NEW s \in Setups
  PROVE  /\ Len(s.rule_files) \in Nat
         /\ Enabled(s) \in [0..Len(s.rule_files) -> Seq(DOMAIN s.disk)]
         /\ Enabled(s)[0] = <<>>
         /\ \A n \in 1..Len(s.rule_files) :
              Enabled(s)[n] = IF s.rule_files[n].enabled THEN Append(Enabled(s)[n - 1], s.rule_files[n].path)
                              ELSE Enabled(s)[n - 1]
  <1> DEFINE N == Len(s.rule_files)
             S == Seq(DOMAIN s.disk)
             step(n, x) == IF s.rule_files[n].enabled THEN Append(x, s.rule_files[n].path) ELSE x
             g == [y \in (1..N) \X S |-> step(y[1], y[2])]
             E(f) == [n \in 0..N |-> IF n = 0 THEN <<>> ELSE IF s.rule_files[n].enabled THEN Append(f[n - 1], s.rule_files[n].path) ELSE f[n - 1]]
             e == CHOOSE f : f = E(f)
  <1>1. N \in Nat /\ \A n \in 1..N : s.rule_files[n].path \in DOMAIN s.disk
    <2> DEFINE T == [path : DOMAIN s.disk, enabled : BOOLEAN]
    <2>1. s.rule_files \in Seq(T)
      BY LoaderAssumption
    <2>2. \A y \in T : y.path \in DOMAIN s.disk
      OBVIOUS
    <2> HIDE DEF T
    <2>3. N \in Nat /\ \A n \in 1..N : s.rule_files[n] \in T
      BY <2>1
    <2>4. QED
      BY <2>2, <2>3
  <1>2. \A n \in 1..N : \A x \in S : g[<<n, x>>] = step(n, x) /\ step(n, x) \in S
    <2>1. ASSUME NEW n \in 1..N, NEW x \in S PROVE step(n, x) \in S
      <3>1. s.rule_files[n].path \in DOMAIN s.disk
        BY <1>1
      <3> HIDE DEF N
      <3>2. \A D : \A q \in Seq(D) : \A d \in D : Append(q, d) \in Seq(D)
        OBVIOUS
      <3>3. Append(x, s.rule_files[n].path) \in S
        BY <3>1, <3>2
      <3>4. QED
        BY <3>3
    <2>2. \A n \in 1..N : \A x \in S : g[<<n, x>>] = step(n, x)
      <3> HIDE DEF step, S, N
      <3>1. QED
        OBVIOUS
    <2>3. QED
      BY <2>1, <2>2
  <1>3. <<>> \in S
    OBVIOUS
  <1> HIDE DEF S, g, N
  <1>4. Closed(g, N, S)
    BY <1>2 DEF Closed
  <1>5. PICK f \in [0..N -> S] : Follows(f, N, <<>>, g)
    BY <1>1, <1>3, <1>4, Recursion
  <1>6. \A n \in 1..N : f[n] = step(n, f[n - 1])
    <2>1. \A n \in 1..N : n - 1 \in 0..N
      BY <1>1
    <2>2. QED
      BY <1>2, <1>5, <2>1 DEF Follows
  <1>7. f = E(f)
    <2>1. \A n \in 0..N : f[n] = E(f)[n]
      <3>1. \A n \in 0..N : n = 0 \/ n \in 1..N
        BY <1>1
      <3>2. QED
        BY <1>5, <1>6, <3>1 DEF Follows
    <2>2. f = [n \in 0..N |-> f[n]]
      OBVIOUS
    <2>3. QED
      BY <2>1, <2>2
  <1>8. e = E(e)
    BY <1>7
  <1>9. Enabled(s) = e
    BY DEF Enabled, N
  <1> HIDE DEF e
  <1>10. \A n \in 0..N : e[n] = E(e)[n]
    BY <1>8
  <1>11. e[0] = <<>> /\ \A n \in 1..N : e[n] = step(n, e[n - 1])
    <2>1. \A n \in 1..N : n \in 0..N /\ n # 0
      BY <1>1
    <2>2. 0 \in 0..N
      BY <1>1
    <2>3. QED
      BY <1>10, <2>1, <2>2
  <1>12. e \in [0..N -> S]
    <2> DEFINE P == {n \in Nat : n <= N => e[n] \in S}
    <2>1. 0 \in P
      BY <1>3, <1>11
    <2>2. ASSUME NEW n \in P PROVE n + 1 \in P
      <3>1. CASE n + 1 <= N
        <4>1. n \in Nat /\ n <= N /\ n + 1 \in 1..N /\ n + 1 - 1 = n
          BY <1>1, <3>1
        <4>2. e[n] \in S
          BY <4>1
        <4>3. e[n + 1] = step(n + 1, e[n])
          BY <1>11, <4>1
        <4>4. e[n + 1] \in S
          BY <1>2, <4>1, <4>2, <4>3
        <4>5. QED
          BY <4>1, <4>4
      <3>2. CASE ~(n + 1 <= N)
        BY <3>2
      <3>3. QED
        BY <3>1, <3>2
    <2>3. \A n \in Nat : n \in P
      <3> HIDE DEF P
      <3>1. P \in SUBSET Nat
        BY DEF P
      <3>2. QED
        BY <2>1, <2>2, <3>1, Induction
    <2>4. \A n \in 0..N : e[n] \in S
      BY <1>1, <2>3
    <2>5. e = [n \in 0..N |-> e[n]]
      BY <1>8
    <2>6. QED
      BY <2>4, <2>5
  <1>13. QED
    BY <1>1, <1>9, <1>11, <1>12 DEF N, S

\* Which rule, if any, a line is drawn into, line by line.
LEMMA PullSteps ==
  ASSUME NEW ls, IsSequence(ls), \A i \in DOMAIN ls : ls[i].slashes \in Nat
  PROVE  /\ Pull(ls)[1] = 0
         /\ \A i \in 1..Len(ls) :
              Pull(ls)[i + 1] =
                IF Pull(ls)[i] > 0 /\ ls[i].lexemes = <<>> THEN Pull(ls)[i] - 1 + ls[i].slashes
                ELSE IF Pull(ls)[i] > 0 \/ ls[i].kind = "text" THEN ls[i].slashes
                ELSE 0
  <1> DEFINE N == Len(ls)
             step(i, x) == IF x > 0 /\ ls[i].lexemes = <<>> THEN x - 1 + ls[i].slashes
                           ELSE IF x > 0 \/ ls[i].kind = "text" THEN ls[i].slashes
                           ELSE 0
             g == [y \in (1..N) \X Nat |-> step(y[1], y[2])]
             E(p) == [i \in 1..(N + 1) |->
                        IF i = 1 THEN 0
                        ELSE IF p[i - 1] > 0 /\ ls[i - 1].lexemes = <<>> THEN p[i - 1] - 1 + ls[i - 1].slashes
                        ELSE IF p[i - 1] > 0 \/ ls[i - 1].kind = "text" THEN ls[i - 1].slashes
                        ELSE 0]
             e == CHOOSE p : p = E(p)
  <1>1. N \in Nat /\ DOMAIN ls = 1..N /\ \A i \in 1..N : ls[i].slashes \in Nat
    BY DEF IsSequence
  <1>2. \A i \in 1..N : \A x \in Nat : g[<<i, x>>] = step(i, x) /\ step(i, x) \in Nat
    BY <1>1
  <1>3. E(e)[1] = 0 /\ \A i \in 1..N : E(e)[i + 1] = step(i, e[i])
    <2>1. 1 \in 1..(N + 1) /\ \A i \in 1..N : i + 1 \in 1..(N + 1) /\ i + 1 # 1 /\ i + 1 - 1 = i
      BY <1>1
    <2> HIDE DEF e, N
    <2>2. QED
      BY <2>1
  <1> HIDE DEF g, N
  <1>4. Closed(g, N, Nat)
    BY <1>2 DEF Closed
  <1>5. PICK f \in [0..N -> Nat] : Follows(f, N, 0, g)
    BY <1>1, <1>4, Recursion
  <1>6. \A i \in 1..N : f[i] = step(i, f[i - 1])
    <2>1. \A i \in 1..N : i - 1 \in 0..N
      BY <1>1
    <2>2. QED
      BY <1>2, <1>5, <2>1 DEF Follows
  <1> DEFINE p == [i \in 1..(N + 1) |-> f[i - 1]]
  <1>7. \A i \in 1..(N + 1) : p[i] = E(p)[i]
    <2>1. ASSUME NEW i \in 1..(N + 1) PROVE p[i] = E(p)[i]
      <3>1. CASE i = 1
        BY <1>1, <1>5, <3>1 DEF Follows
      <3>2. CASE i # 1
        <4>1. i - 1 \in 1..N /\ i - 1 \in 1..(N + 1)
          BY <1>1, <3>2
        <4>2. p[i] = step(i - 1, f[i - 1 - 1]) /\ p[i - 1] = f[i - 1 - 1]
          BY <1>6, <4>1
        <4>3. E(p)[i] = step(i - 1, p[i - 1])
          BY <3>2
        <4> HIDE DEF p, step
        <4>4. QED
          BY <4>2, <4>3
      <3>3. QED
        BY <3>1, <3>2
    <2>2. QED
      BY <2>1
  <1>8. p = E(p)
    <2>1. p = [i \in 1..(N + 1) |-> p[i]]
      OBVIOUS
    <2> HIDE DEF p
    <2>2. QED
      BY <1>7, <2>1
  <1> HIDE DEF p
  <1>9. e = E(e)
    BY <1>8
  <1>10. Pull(ls) = e
    BY DEF Pull, N
  <1> HIDE DEF e
  <1>11. e[1] = 0 /\ \A i \in 1..N : e[i + 1] = step(i, e[i])
    <2> HIDE DEF E
    <2>1. QED
      BY <1>3, <1>9
  <1>12. QED
    BY <1>10, <1>11 DEF N

-----------------------------------------------------------------------------
(* The files, one after the other *)

\* What depends on the configuration alone stays.
LEMMA SetupSame ==
  ASSUME setup' = setup
  PROVE  /\ Disk' = Disk /\ Files' = Files /\ FirstPlaces' = FirstPlaces
         /\ Enabled(setup)' = Enabled(setup)
         /\ \A p : RuleLines(p)' = RuleLines(p) /\ _path_key(p)' = _path_key(p)
         /\ \A r, s : Before(r, s)' = Before(r, s)
  <1>1. Disk' = Disk /\ Files' = Files /\ Enabled(setup)' = Enabled(setup)
    BY DEF Disk, Files
  <1>2. FirstPlaces' = FirstPlaces
    BY <1>1 DEF FirstPlaces, Disk, Files
  <1>3. \A p : RuleLines(p)' = RuleLines(p) /\ _path_key(p)' = _path_key(p)
    BY <1>1 DEF RuleLines, _path_key
  <1>4. \A r, s : Before(r, s)' = Before(r, s)
    BY <1>2 DEF Before
  <1>5. QED
    BY <1>1, <1>2, <1>3, <1>4

LEMMA SetupKept == ASSUME [Next]_vars PROVE setup' = setup
  BY DEF Next, Refuse, Skip, Begin, ListFile, LeaveOut, ListExtras, OpenAgain, OpenFails, Open, CloseFile,
         Blank, Comment, StartRule, Join, Parse, ParseRaises, Loaded, Add, Freeze,
         Replace, ReplaceFails, Write, WriteFails, CloseReport, vars

LEMMA FilesType ==
  ASSUME setup \in Setups
  PROVE  /\ Files \in Seq(DOMAIN Disk) /\ Len(Files) \in Nat /\ DOMAIN Files = 1..Len(Files)
         /\ \A i \in FirstPlaces : i \in 1..Len(Files) /\ Files[i] \in DOMAIN Disk
  <1>1. Enabled(setup)[Len(setup.rule_files)] \in Seq(DOMAIN Disk)
    <2>1. Len(setup.rule_files) \in 0..Len(setup.rule_files)
      BY EnabledSteps
    <2>2. QED
      BY <2>1, EnabledSteps DEF Disk
  <1>2. setup.extra_paths \in Seq(DOMAIN Disk)
    BY LoaderAssumption DEF Disk
  <1>3. Files \in Seq(DOMAIN Disk)
    BY <1>1, <1>2 DEF Files, sources
  <1>4. Len(Files) \in Nat /\ DOMAIN Files = 1..Len(Files) /\ \A i \in 1..Len(Files) : Files[i] \in DOMAIN Disk
    BY <1>3
  <1>5. \A i \in FirstPlaces : i \in DOMAIN Files
    BY DEF FirstPlaces, Files
  <1>6. QED
    BY <1>3, <1>4, <1>5

\* The next file to load, and whether it is a first place.
LEMMA NextFile ==
  ASSUME ReadingInv, TodoInv, Started, todo # <<>>
  PROVE  /\ Done \in Nat /\ Done + 1 \in 1..Len(Files) /\ Head(todo) = Files[Done + 1]
         /\ Len(Files) - Len(Tail(todo)) = Done + 1
         /\ Len(Tail(todo)) <= Len(Files)
         /\ \A i \in 1..Len(Tail(todo)) : Tail(todo)[i] = Files[Done + 1 + i]
         /\ loaded \cup {_path_key(Head(todo))} = {_path_key(Files[i]) : i \in 1..(Done + 1)}
         /\ Done + 1 \in FirstPlaces <=>
              Disk[Head(todo)].readable /\ _path_key(Head(todo)) \notin loaded
  <1>1. todo \in Seq(DOMAIN Disk) /\ setup \in Setups
    BY DEF ReadingInv
  <1>2. Len(Files) \in Nat /\ DOMAIN Files = 1..Len(Files)
    BY <1>1, FilesType
  <1>3. /\ Len(todo) \in Nat /\ Len(todo) # 0
        /\ Head(todo) = todo[1] /\ Len(Tail(todo)) = Len(todo) - 1
        /\ \A i \in 1..Len(Tail(todo)) : Tail(todo)[i] = todo[i + 1]
    BY <1>1, HeadTailProperties
  <1>4. /\ Len(todo) <= Len(Files)
        /\ \A i \in 1..Len(todo) : todo[i] = Files[Done + i]
        /\ loaded = {_path_key(Files[i]) : i \in 1..Done}
    BY DEF TodoInv
  <1>5. /\ Done \in Nat /\ Done + 1 \in 1..Len(Files) /\ Len(Files) - Len(Tail(todo)) = Done + 1
        /\ Len(Tail(todo)) <= Len(Files)
    BY <1>2, <1>3, <1>4 DEF Done
  <1>6. Head(todo) = Files[Done + 1]
    BY <1>3, <1>4
  <1>7. \A i \in 1..Len(Tail(todo)) : Tail(todo)[i] = Files[Done + 1 + i]
    <2>1. ASSUME NEW i \in 1..Len(Tail(todo)) PROVE Tail(todo)[i] = Files[Done + 1 + i]
      <3>1. i + 1 \in 1..Len(todo) /\ Done + (i + 1) = Done + 1 + i
        BY <1>3, <1>5
      <3>2. todo[i + 1] = Files[Done + (i + 1)]
        BY <1>4, <3>1
      <3>3. QED
        BY <1>3, <3>1, <3>2
    <2>2. QED
      BY <2>1
  <1>8. \A i : i \in 1..(Done + 1) <=> i \in 1..Done \/ i = Done + 1
    BY <1>5
  <1>9. loaded \cup {_path_key(Head(todo))} = {_path_key(Files[i]) : i \in 1..(Done + 1)}
    BY <1>4, <1>6, <1>8
  <1>10. Done + 1 \in FirstPlaces <=>
           Disk[Head(todo)].readable /\ \A j \in 1..Done : Disk[Files[j]].key # Disk[Head(todo)].key
    <2>1. Done + 1 - 1 = Done /\ Done + 1 \in DOMAIN Files
      BY <1>2, <1>5
    <2> HIDE DEF Done
    <2>2. \A i : i \in FirstPlaces <=>
                 /\ i \in DOMAIN Files /\ Disk[Files[i]].readable
                 /\ \A j \in 1..(i - 1) : Disk[Files[j]].key # Disk[Files[i]].key
      BY DEF FirstPlaces, Files
    <2>3. PICK i \in Nat : i = Done + 1
      BY <1>5
    <2>4. i - 1 = Done
      BY <1>5, <2>3
    <2>5. i \in FirstPlaces <=>
            /\ i \in DOMAIN Files /\ Disk[Files[i]].readable
            /\ \A j \in 1..(i - 1) : Disk[Files[j]].key # Disk[Files[i]].key
      BY <2>2
    <2>6. QED
      BY <1>6, <2>1, <2>3, <2>4, <2>5
  <1>11. _path_key(Head(todo)) \notin loaded <=>
           \A j \in 1..Done : Disk[Files[j]].key # Disk[Head(todo)].key
    BY <1>4 DEF _path_key
  <1>12. QED
    BY <1>5, <1>6, <1>7, <1>9, <1>10, <1>11

PlaceInv == ListInv /\ TodoInv /\ OpenInv /\ LoadedInv

\* Making the list of the files.
LEMMA ListNext ==
  ASSUME ReadingInv, RecordsInv, PlaceInv, ListFile \/ LeaveOut \/ ListExtras
  PROVE  PlaceInv'
  <1>1. /\ stage = "listing" /\ path = None /\ gathered = None /\ records = <<>> /\ loaded = {}
        /\ Listed \in 0..Len(setup.rule_files) /\ todo = Enabled(setup)[Listed] /\ setup.enabled
    BY DEF PlaceInv, ListInv, LoadedInv, ListFile, LeaveOut, ListExtras
  <1>2. /\ path' = None /\ gathered' = None /\ records' = <<>> /\ loaded' = {} /\ setup' = setup
    BY <1>1 DEF ListFile, LeaveOut, ListExtras, results, reading
  <1>3. setup \in Setups /\ todo \in Seq(DOMAIN Disk) /\ Len(todo) \in Nat /\ report["disabled_files"] \in Nat
    BY DEF ReadingInv, RecordsInv, Counters
  <1>4. /\ Len(setup.rule_files) \in Nat
        /\ \A n \in 1..Len(setup.rule_files) :
             Enabled(setup)[n] = IF setup.rule_files[n].enabled
                                 THEN Append(Enabled(setup)[n - 1], setup.rule_files[n].path)
                                 ELSE Enabled(setup)[n - 1]
    BY <1>3, EnabledSteps
  <1>5. OpenInv'
    BY <1>2 DEF OpenInv
  <1>6. CASE ListFile \/ LeaveOut
    <2>1. stage' = "listing" /\ Listed < Len(setup.rule_files)
      BY <1>1, <1>6 DEF ListFile, LeaveOut
    <2>2. Listed + 1 \in 1..Len(setup.rule_files) /\ Listed + 1 - 1 = Listed
      BY <1>1, <1>4, <2>1
    <2>0. Enabled(setup)[Listed + 1] = IF Entry.enabled THEN Append(todo, Entry.path) ELSE todo
      <3> HIDE DEF Listed
      <3>1. QED
        BY <1>1, <1>4, <2>2 DEF Entry
    <2>3. Listed' = Listed + 1 /\ todo' = Enabled(setup)[Listed + 1]
      <3>1. CASE ListFile
        <4>1. todo' = Append(todo, Entry.path) /\ report' = report /\ Entry.enabled
          BY <3>1 DEF ListFile, results
        <4>2. /\ Len(todo') = Len(todo) + 1 /\ report'["disabled_files"] = report["disabled_files"]
              /\ Len(todo) \in Nat /\ report["disabled_files"] \in Nat
          BY <1>3, <4>1
        <4>3. Listed' = Listed + 1
          BY <4>2 DEF Listed
        <4>4. QED
          BY <2>0, <4>1, <4>3
      <3>2. CASE LeaveOut
        <4>1. todo' = todo /\ report' = Counted({"disabled_files"}) /\ ~Entry.enabled
          BY <3>2 DEF LeaveOut, reading
        <4>2. report'["disabled_files"] = report["disabled_files"] + 1
          BY <4>1 DEF Counted, Counters
        <4>3. Listed' = Listed + 1
          BY <1>3, <4>1, <4>2 DEF Listed
        <4>4. QED
          BY <2>0, <4>1, <4>3
      <3>3. QED
        BY <1>6, <3>1, <3>2
    <2>4. Listed' \in 0..Len(setup.rule_files)
      BY <1>4, <2>2, <2>3
    <2> HIDE DEF Listed
    <2>5. ListInv'
      BY <1>2, <2>3, <2>4 DEF ListInv
    <2>6. QED
      BY <1>1, <1>2, <1>5, <2>1, <2>5 DEF PlaceInv, TodoInv, LoadedInv, Started
  <1>7. CASE ListExtras
    <2>1. stage' = "loading" /\ todo' = todo \o setup.extra_paths /\ Listed = Len(setup.rule_files)
      BY <1>7 DEF ListExtras
    <2>2. Files' = Files /\ todo' = Files
      BY <1>1, <1>2, <2>1, SetupSame DEF Files, sources
    <2>3. Len(Files) \in Nat
      BY <1>3, FilesType
    <2>4. Done' = 0
      BY <2>2, <2>3 DEF Done
    <2>5. \A i \in 1..Len(todo') : todo'[i] = Files'[Done' + i]
      BY <2>2, <2>3, <2>4
    <2>6. loaded' = {_path_key(Files[i])' : i \in 1..Done'}
      BY <1>2, <2>4
    <2>7. Len(todo') <= Len(Files')
      BY <2>2, <2>3
    <2>8. TodoInv'
      BY <2>5, <2>6, <2>7 DEF TodoInv
    <2>9. QED
      BY <1>1, <1>2, <1>5, <2>1, <2>8 DEF PlaceInv, ListInv, LoadedInv
  <1>8. QED
    BY <1>6, <1>7

\* Taking a file from the list.
LEMMA TakeNext ==
  ASSUME ReadingInv, PlaceInv, OpenAgain \/ OpenFails \/ Open
  PROVE  /\ PlaceInv' /\ Started /\ Started' /\ path = None /\ Done' = Done + 1 /\ Done \in Nat
         /\ IF Open THEN path' = Files[Done + 1] /\ at' = 1 /\ gathered' = None
            ELSE path' = None /\ Done + 1 \notin FirstPlaces
  <1>1. /\ stage = "loading" /\ path = None /\ todo # <<>> /\ setup' = setup /\ stage' = "loading"
        /\ todo' = Tail(todo) /\ gathered' = gathered
    BY DEF OpenAgain, OpenFails, Open, Loading
  <1>2. gathered = None /\ setup.enabled
    BY <1>1 DEF PlaceInv, OpenInv, LoadedInv
  <1>3. Started /\ Started'
    BY <1>1, <1>2 DEF Started
  <1>4. TodoInv
    BY DEF PlaceInv
  <1>5. /\ Done \in Nat /\ Done + 1 \in 1..Len(Files) /\ Head(todo) = Files[Done + 1]
        /\ Len(Files) - Len(todo') = Done + 1
        /\ Len(todo') <= Len(Files)
        /\ \A i \in 1..Len(todo') : todo'[i] = Files[Done + 1 + i]
        /\ loaded \cup {_path_key(Head(todo))} = {_path_key(Files[i]) : i \in 1..(Done + 1)}
        /\ Done + 1 \in FirstPlaces <=>
             Disk[Head(todo)].readable /\ _path_key(Head(todo)) \notin loaded
    BY <1>1, <1>3, <1>4, NextFile
  <1>6. loaded' = loaded \cup {_path_key(Head(todo))}
    <2>1. CASE OpenAgain
      BY <2>1 DEF OpenAgain
    <2>2. CASE OpenFails \/ Open
      BY <2>2 DEF OpenFails, Open
    <2>3. QED
      BY <2>1, <2>2
  <1>7. /\ Files' = Files /\ FirstPlaces' = FirstPlaces /\ Disk' = Disk
        /\ \A p : RuleLines(p)' = RuleLines(p) /\ _path_key(p)' = _path_key(p)
    BY <1>1, SetupSame
  <1>8. Done' = Done + 1
    <2>1. Done' = Len(Files') - Len(todo')
      BY DEF Done
    <2>2. QED
      BY <1>5, <1>7, <2>1
  <1>9. TodoInv'
    <2>1. \A i \in 1..Len(todo') : todo'[i] = Files'[Done' + i]
      BY <1>5, <1>7, <1>8
    <2>2. Len(todo') <= Len(Files')
      BY <1>5, <1>7
    <2>3. loaded' = {_path_key(Files[i])' : i \in 1..Done'}
      <3>1. loaded' = {_path_key(Files[i]) : i \in 1..Done'}
        BY <1>5, <1>6, <1>8
      <3>2. \A i : _path_key(Files[i])' = _path_key(Files[i])
        BY <1>7 DEF _path_key
      <3>3. QED
        BY <3>1, <3>2
    <2>4. QED
      BY <2>1, <2>2, <2>3 DEF TodoInv
  <1>10. IF Open THEN path' = Files[Done + 1] /\ at' = 1 /\ gathered' = None /\ Done + 1 \in FirstPlaces
         ELSE path' = None /\ Done + 1 \notin FirstPlaces
    <2>1. CASE Open
      BY <1>1, <1>2, <1>5, <2>1 DEF Open
    <2>2. CASE ~Open
      <3>1. OpenAgain \/ OpenFails
        BY <2>2
      <3>2. path' = None /\ (_path_key(Head(todo)) \in loaded \/ ~Disk[Head(todo)].readable)
        BY <1>1, <3>1 DEF OpenAgain, OpenFails
      <3>3. QED
        BY <1>5, <2>2, <3>2
    <2>3. QED
      BY <2>1, <2>2
  <1>11. OpenInv'
    <2>1. CASE ~Open
      BY <1>1, <1>2, <1>10, <2>1 DEF OpenInv
    <2>2. CASE Open
      <3>1. path' \in DOMAIN Disk
        BY <1>10, <2>2, FilesType DEF ReadingInv
      <3>2. Pull(Disk[path'].lines)[1] = 0
        <4>1. setup \in Setups
          BY DEF ReadingInv
        <4>2. IsSequence(Disk[path'].lines) /\ \A i \in DOMAIN Disk[path'].lines : Disk[path'].lines[i].slashes \in Nat
          BY <3>1, <4>1, LoaderAssumption DEF Disk
        <4>3. QED
          BY <4>2, PullSteps
      <3>3. path' # None /\ Done' \in FirstPlaces' /\ path' = Files'[Done'] /\ gathered' = None /\ setup'.enabled
        BY <1>1, <1>2, <1>7, <1>8, <1>10, <2>2, <3>1, NoneAssumption DEF Disk, ReadingInv
      <3>4. Pull(Disk'[path'].lines)[at'] = 0
        BY <1>7, <1>10, <2>2, <3>2
      <3>5. QED
        BY <1>1, <3>3, <3>4 DEF OpenInv
    <2>3. QED
      BY <2>1, <2>2
  <1>12. ListInv' /\ LoadedInv'
    BY <1>1, <1>2 DEF ListInv, LoadedInv
  <1>13. QED
    BY <1>1, <1>3, <1>5, <1>8, <1>9, <1>10, <1>11, <1>12 DEF PlaceInv

-----------------------------------------------------------------------------
(* The lines of the open file *)

LEMMA OpenKept ==
  ASSUME setup' = setup, path' = path
  PROVE  /\ Disk' = Disk /\ RuleLines(path)' = RuleLines(path) /\ FirstPlaces' = FirstPlaces /\ Files' = Files
         /\ Pull(Disk[path].lines)' = Pull(Disk[path].lines) /\ Logical(setup)' = Logical(setup)
  <1>1. Disk' = Disk /\ Files' = Files /\ FirstPlaces' = FirstPlaces
    BY SetupSame
  <1>2. RuleLines(path)' = RuleLines(path)
    BY <1>1 DEF RuleLines
  <1>3. Pull(Disk[path].lines)' = Pull(Disk[path].lines) /\ Logical(setup)' = Logical(setup)
    BY <1>1
  <1>4. QED
    BY <1>1, <1>2, <1>3

\* The next line of the open file.
LEMMA LineHere ==
  ASSUME ReadingInv, path # None, ~AtEnd
  PROVE  /\ at \in 1..Len(Disk[path].lines) /\ Line.slashes \in Nat /\ Line.lexemes \in Seq(Lexemes(setup))
         /\ at \in RuleLines(path) <=> Line.kind = "text" /\ Pull(Disk[path].lines)[at] = 0
         /\ Pull(Disk[path].lines)[at + 1] =
              IF Pull(Disk[path].lines)[at] > 0 /\ Line.lexemes = <<>>
                THEN Pull(Disk[path].lines)[at] - 1 + Line.slashes
              ELSE IF Pull(Disk[path].lines)[at] > 0 \/ Line.kind = "text" THEN Line.slashes
              ELSE 0
  <1>1. /\ at \in 1..Len(Disk[path].lines) /\ Line.slashes \in Nat /\ IsSequence(Line.lexemes)
        /\ IsSequence(Disk[path].lines) /\ Len(Disk[path].lines) \in Nat
    BY LineOfFile
  <1>2. setup \in Setups /\ path \in DOMAIN setup.disk
    BY DEF ReadingInv, Disk
  <1>3. DOMAIN Disk[path].lines = 1..Len(Disk[path].lines)
    BY <1>1 DEF IsSequence
  <1>4. \A i \in DOMAIN Disk[path].lines : Disk[path].lines[i].slashes \in Nat
    BY <1>2, LoaderAssumption DEF Disk
  <1>5. at \in RuleLines(path) <=> Line.kind = "text" /\ Pull(Disk[path].lines)[at] = 0
    BY <1>1, <1>3 DEF RuleLines, Line
  <1>6. Line.lexemes \in Seq(Lexemes(setup))
    <2>1. Line \in {setup.disk[path].lines[i] : i \in DOMAIN setup.disk[path].lines}
      BY <1>1, <1>3 DEF Line, Disk
    <2>2. {Line.lexemes[j] : j \in DOMAIN Line.lexemes} \subseteq Lexemes(setup)
      BY <1>2, <2>1 DEF Lexemes
    <2>3. QED
      BY <1>1, <2>2 DEF IsSequence
  <1>7. QED
    BY <1>1, <1>4, <1>5, <1>6, PullSteps DEF Line

\* A line that is not the start of a rule, and one that is.
LEMMA LineNext ==
  ASSUME ReadingInv, OpenInv, Blank \/ Comment \/ StartRule \/ Join
  PROVE  OpenInv' /\ Judged' = Judged
  <1>1. /\ path # None /\ path' = path /\ setup' = setup /\ stage' = stage /\ todo' = todo /\ at' = at + 1 /\ ~AtEnd
    <2>1. CASE Blank \/ Comment \/ StartRule
      BY <2>1 DEF Blank, Comment, StartRule, NextLine
    <2>2. CASE Join
      BY <2>2 DEF Join, OpenInv
    <2>3. QED
      BY <2>1, <2>2
  <1> DEFINE pull == Pull(Disk[path].lines)
             ruleLines == RuleLines(path)
  <1>2. /\ stage = "loading" /\ setup.enabled /\ Done \in FirstPlaces /\ path = Files[Done]
        /\ IF gathered = None THEN AtEnd \/ pull[at] = 0
           ELSE /\ gathered \in Logical(setup) /\ pull[at] = gathered.slashes
                /\ gathered.start \in ruleLines /\ gathered.start < at
                /\ \A l \in ruleLines : l < at => l <= gathered.start
    BY <1>1 DEF OpenInv
  <1>3. /\ Disk' = Disk /\ RuleLines(path)' = ruleLines /\ FirstPlaces' = FirstPlaces /\ Files' = Files
        /\ Pull(Disk[path].lines)' = pull /\ Logical(setup)' = Logical(setup)
    BY <1>1, OpenKept
  <1>4. /\ at \in Nat /\ Line.slashes \in Nat /\ Line.lexemes \in Seq(Lexemes(setup))
        /\ at \in ruleLines <=> Line.kind = "text" /\ pull[at] = 0
        /\ pull[at + 1] = IF pull[at] > 0 /\ Line.lexemes = <<>> THEN pull[at] - 1 + Line.slashes
                          ELSE IF pull[at] > 0 \/ Line.kind = "text" THEN Line.slashes
                          ELSE 0
        /\ ruleLines \subseteq Nat
    <2>1. ruleLines \subseteq Nat
      <3>1. DOMAIN Disk[path].lines \subseteq Nat
        BY <1>1, LineOfFile DEF IsSequence
      <3>2. QED
        BY <3>1 DEF RuleLines
    <2>2. QED
      BY <1>1, <2>1, LineHere
  <1>5. Done' = Done
    BY <1>1, <1>3 DEF Done
  <1>6. None \notin Logical(setup)
    BY NoneAssumption DEF ReadingInv
  <1> DEFINE here == IF gathered' = None THEN pull[at'] = 0
                     ELSE /\ gathered' \in Logical(setup)
                          /\ pull[at'] = gathered'.slashes
                          /\ gathered'.start \in ruleLines /\ gathered'.start < at'
                          /\ \A l \in ruleLines : l < at' => l <= gathered'.start
             judged == {l \in ruleLines : l < IF gathered = None THEN at ELSE gathered.start}
             judgedNow == {l \in ruleLines : l < IF gathered' = None THEN at' ELSE gathered'.start}
  <1> HIDE DEF pull, ruleLines
  <1>7. here /\ judgedNow = judged
    <2>1. CASE Blank \/ Comment
      <3>1. gathered = None /\ gathered' = None /\ Line.kind # "text"
        BY <2>1 DEF Blank, Comment, NextLine
      <3>2. pull[at] = 0 /\ at \notin ruleLines
        BY <1>1, <1>2, <1>4, <3>1
      <3>3. pull[at'] = 0
        BY <1>1, <1>4, <3>1, <3>2
      <3>4. \A l \in ruleLines : l < at + 1 <=> l < at
        BY <1>4, <3>2
      <3>5. QED
        BY <1>1, <3>1, <3>3, <3>4
    <2>2. CASE StartRule
      <3>1. /\ gathered = None /\ Line.kind = "text"
            /\ gathered' = [start |-> at, text |-> Line.lexemes, slashes |-> Line.slashes]
        BY <2>2 DEF StartRule, NextLine
      <3>2. gathered' \in Logical(setup)
        BY <1>4, <3>1 DEF Logical
      <3>3. gathered' # None /\ gathered'.start = at /\ gathered'.slashes = Line.slashes
        BY <1>6, <3>1, <3>2
      <3>4. pull[at] = 0 /\ at \in ruleLines
        BY <1>1, <1>2, <1>4, <3>1
      <3>5. pull[at'] = gathered'.slashes
        BY <1>1, <1>4, <3>1, <3>3, <3>4
      <3>6. \A l \in ruleLines : l < at' => l <= at
        BY <1>1, <1>4
      <3>7. at < at'
        BY <1>1, <1>4
      <3>8. judgedNow = judged
        BY <3>1, <3>3
      <3>9. QED
        BY <3>2, <3>3, <3>4, <3>5, <3>6, <3>7, <3>8
    <2>3. CASE Join
      <3>1. gathered # None /\ gathered.slashes > 0 /\ gathered' = joined(gathered, Line)
        BY <2>3 DEF Join
      <3>2. /\ gathered \in Logical(setup) /\ pull[at] = gathered.slashes
            /\ gathered.start \in ruleLines /\ gathered.start < at
            /\ \A l \in ruleLines : l < at => l <= gathered.start
        BY <1>2, <3>1
      <3>3. /\ gathered' \in Logical(setup) /\ gathered'.start = gathered.start
            /\ gathered'.slashes = IF Line.lexemes = <<>> THEN gathered.slashes - 1 + Line.slashes ELSE Line.slashes
        <4>1. Leftover(gathered.slashes) \in Seq(Lexemes(setup))
          <5>1. Backslash \in Lexemes(setup)
            BY DEF Lexemes
          <5>2. \A S : \A b \in S : <<b>> \in Seq(S) /\ <<>> \in Seq(S)
            OBVIOUS
          <5>3. QED
            BY <5>1, <5>2 DEF Leftover
        <4>2. /\ gathered.text \in Seq(Lexemes(setup)) /\ gathered.start \in Nat /\ gathered.slashes \in Nat
              /\ gathered = [start |-> gathered.start, text |-> gathered.text, slashes |-> gathered.slashes]
          BY <3>2 DEF Logical
        <4>3. gathered.text \o Leftover(gathered.slashes) \o Line.lexemes \in Seq(Lexemes(setup))
          BY <1>4, <4>1, <4>2
        <4>4. gathered.slashes - 1 + Line.slashes \in Nat
          BY <1>4, <3>1, <4>2
        <4>5. CASE Line.lexemes = <<>>
          <5>1. gathered' = [start |-> gathered.start, text |-> gathered.text,
                             slashes |-> gathered.slashes - 1 + Line.slashes]
            BY <3>1, <4>2, <4>5 DEF joined
          <5>2. QED
            BY <4>2, <4>4, <4>5, <5>1 DEF Logical
        <4>6. CASE Line.lexemes # <<>>
          <5>1. gathered' = [start |-> gathered.start, slashes |-> Line.slashes,
                             text |-> gathered.text \o Leftover(gathered.slashes) \o Line.lexemes]
            BY <3>1, <4>2, <4>6 DEF joined
          <5>2. QED
            BY <1>4, <4>2, <4>3, <4>6, <5>1 DEF Logical
        <4>7. QED
          BY <4>5, <4>6
      <3>4. gathered' # None
        BY <1>6, <3>3
      <3>5. at \notin ruleLines
        BY <1>4, <3>1, <3>2
      <3>6. pull[at'] = gathered'.slashes
        BY <1>1, <1>4, <3>1, <3>2, <3>3
      <3>7. gathered'.start < at'
        <4>1. gathered.start \in Nat /\ at \in Nat
          BY <1>4, <3>2
        <4>2. QED
          BY <1>1, <3>2, <3>3, <4>1
      <3>8. \A l \in ruleLines : l < at' => l <= gathered'.start
        <4>1. \A l \in ruleLines : l < at + 1 => l < at
          BY <1>4, <3>5
        <4>2. QED
          BY <1>1, <3>2, <3>3, <4>1
      <3>9. judgedNow = judged
        BY <3>1, <3>3, <3>4
      <3>10. QED
        BY <3>2, <3>3, <3>4, <3>6, <3>7, <3>8, <3>9
    <2>4. QED
      BY <2>1, <2>2, <2>3
  <1>8. OpenInv'
    BY <1>1, <1>2, <1>3, <1>5, <1>7 DEF OpenInv
  <1>9. Judged' = judgedNow /\ Judged = judged
    BY <1>1, <1>3 DEF Judged, ruleLines
  <1>10. QED
    BY <1>7, <1>8, <1>9

\* The rule in hand is judged: it is the next rule line.
LEMMA JudgeNext ==
  ASSUME ReadingInv, OpenInv, Parse \/ ParseRaises
  PROVE  /\ OpenInv' /\ gathered.start \in RuleLines(path) /\ Judged' = Judged \cup {gathered.start}
         /\ \A l \in Judged : l < gathered.start
         /\ path # None
  <1>1. /\ Whole /\ gathered # None /\ gathered' = None /\ at' = at
        /\ path' = path /\ setup' = setup /\ stage' = stage /\ todo' = todo
    BY DEF Parse, ParseRaises, Whole
  <1>2. path # None
    BY <1>1 DEF OpenInv
  <1> DEFINE pull == Pull(Disk[path].lines)
             ruleLines == RuleLines(path)
  <1>3. /\ stage = "loading" /\ setup.enabled /\ Done \in FirstPlaces /\ path = Files[Done]
        /\ pull[at] = gathered.slashes /\ gathered.start \in ruleLines /\ gathered.start < at
        /\ \A l \in ruleLines : l < at => l <= gathered.start
    BY <1>1, <1>2 DEF OpenInv
  <1>4. /\ Disk' = Disk /\ RuleLines(path)' = ruleLines /\ FirstPlaces' = FirstPlaces /\ Files' = Files
        /\ Pull(Disk[path].lines)' = pull
    BY <1>1, OpenKept
  <1>5. ruleLines \subseteq Nat /\ at \in Nat
    <2>1. DOMAIN Disk[path].lines \subseteq Nat
      BY <1>2, LineOfFile DEF IsSequence
    <2>2. QED
      BY <2>1 DEF RuleLines, ReadingInv
  <1>6. Done' = Done /\ AtEnd' = AtEnd
    BY <1>1, <1>4 DEF Done, AtEnd
  <1>7. Judged = {l \in ruleLines : l < gathered.start} /\ Judged' = {l \in ruleLines : l < at}
    BY <1>1, <1>2, <1>4 DEF Judged
  <1> HIDE DEF pull, ruleLines
  <1>8. {l \in ruleLines : l < at} = {l \in ruleLines : l < gathered.start} \cup {gathered.start}
    <2>1. gathered.start \in Nat
      BY <1>3, <1>5
    <2>2. \A l \in ruleLines : l < at <=> l < gathered.start \/ l = gathered.start
      BY <1>3, <1>5, <2>1
    <2>3. QED
      BY <1>3, <2>2
  <1>9. AtEnd' \/ pull[at'] = 0
    BY <1>1, <1>3, <1>6 DEF Whole
  <1>10. OpenInv'
    BY <1>1, <1>2, <1>3, <1>4, <1>6, <1>9 DEF OpenInv
  <1>11. QED
    BY <1>2, <1>3, <1>7, <1>8, <1>10 DEF ruleLines

-----------------------------------------------------------------------------
(* The records *)

\* A step that opens, reads or takes no file.
LEMMA PlaceSame ==
  ASSUME setup' = setup, PlaceInv, Started, Started', UNCHANGED <<todo, loaded>>,
         OpenInv', LoadedInv'
  PROVE  PlaceInv' /\ Done' = Done
  <1>1. /\ Files' = Files /\ \A p : _path_key(p)' = _path_key(p)
    BY SetupSame
  <1>2. Done' = Done
    BY <1>1 DEF Done
  <1>3. TodoInv'
    <2>1. loaded' = {_path_key(Files[i])' : i \in 1..Done'}
      <3>1. \A i : _path_key(Files[i])' = _path_key(Files[i])
        BY <1>1 DEF _path_key
      <3>2. QED
        BY <1>2, <3>1 DEF PlaceInv, TodoInv
    <2>2. QED
      BY <1>1, <1>2, <2>1 DEF PlaceInv, TodoInv
  <1>4. ListInv'
    BY DEF Started, ListInv
  <1>5. QED
    BY <1>2, <1>3, <1>4 DEF PlaceInv

LEMMA RuleLinesNat ==
  ASSUME setup \in Setups, NEW p \in DOMAIN Disk
  PROVE  \A l \in RuleLines(p) : l \in 1..Len(Disk[p].lines)
  <1>1. IsSequence(Disk[p].lines)
    BY LoaderAssumption DEF Disk
  <1>2. DOMAIN Disk[p].lines = 1..Len(Disk[p].lines)
    BY <1>1 DEF IsSequence
  <1>3. QED
    BY <1>2 DEF RuleLines

LEMMA LinesSame ==
  ASSUME setup' = setup
  PROVE  /\ \A i : LinesAt(i)' = LinesAt(i)
         /\ LinesOf(Read)' = UNION {LinesAt(i) : i \in Read'}
  <1>1. Files' = Files
    BY SetupSame
  <1>2. \A i : RuleLines(Files[i])' = RuleLines(Files[i])
    BY <1>1, SetupSame DEF RuleLines
  <1>3. \A i : LinesAt(i)' = LinesAt(i)
    BY <1>1, <1>2 DEF LinesAt
  <1>4. LinesOf(Read)' = UNION {LinesAt(i)' : i \in Read'}
    BY DEF LinesOf
  <1>5. QED
    BY <1>3, <1>4

LEMMA LinesAdd ==
  ASSUME NEW S, NEW n
  PROVE  LinesOf(S \cup {n}) = LinesOf(S) \cup LinesAt(n)
  <1>1. \A x : x \in LinesOf(S \cup {n}) <=> x \in LinesOf(S) \/ x \in LinesAt(n)
    BY DEF LinesOf
  <1>2. QED
    BY <1>1

\* Covered depends on three sets.
LEMMA CoveredSame ==
  ASSUME setup' = setup, Read' = Read, Judged' = Judged, path' = path \/ Judged = {}
  PROVE  Covered' = Covered
  <1>1. LinesOf(Read)' = LinesOf(Read)
    BY LinesSame DEF LinesOf
  <1>2. {path'} \X Judged' = {path} \X Judged
    <2>1. \A a : {a} \X {} = {}
      OBVIOUS
    <2>2. QED
      BY <2>1
  <1>3. QED
    BY <1>1, <1>2 DEF Covered

LEMMA RecordedSame ==
  ASSUME RecordedInv, Started, UNCHANGED <<setup, records>>, Covered' = Covered
  PROVE  RecordedInv'
  <1>1. Recorded' = Recorded
    BY DEF Recorded
  <1>2. InOrder <=> InOrder'
    <2>1. FirstPlaces' = FirstPlaces
      BY SetupSame
    <2>2. \A j, k : Before(records[j], records[k])' = Before(records[j], records[k])
      BY <2>1 DEF Before
    <2>3. QED
      BY <2>2 DEF InOrder
  <1>3. QED
    BY <1>1, <1>2 DEF RecordedInv

\* A file that is skipped, or opened, adds no line.
LEMMA TakenCovers ==
  ASSUME ReadingInv, PlaceInv, RecordedInv, OpenAgain \/ OpenFails \/ Open
  PROVE  RecordedInv'
  <1>1. /\ Started /\ path = None /\ Done' = Done + 1 /\ Done \in Nat
        /\ IF Open THEN path' = Files[Done + 1] /\ at' = 1 /\ gathered' = None
           ELSE path' = None /\ Done + 1 \notin FirstPlaces
        /\ Open => path' \in DOMAIN Disk /\ path' # None
    <2>1. Open => path' \in DOMAIN Disk
      <3>1. todo \in Seq(DOMAIN Disk)
        BY DEF ReadingInv
      <3>2. Open => todo # <<>> /\ path' = Head(todo)
        BY DEF Open, Loading
      <3>3. todo # <<>> => Head(todo) \in DOMAIN Disk
        BY <3>1, HeadTailProperties
      <3>4. QED
        BY <3>2, <3>3
    <2>2. path' \in DOMAIN Disk => path' # None
      BY NoneAssumption DEF Disk, ReadingInv
    <2>3. QED
      BY <2>1, <2>2, TakeNext
  <1>2. UNCHANGED <<setup, records>>
    BY DEF OpenAgain, OpenFails, Open, results
  <1>3. FirstPlaces' = FirstPlaces /\ \A p : RuleLines(p)' = RuleLines(p)
    BY <1>2, SetupSame
  <1>4. FirstPlaces \subseteq Nat
    BY FilesType DEF ReadingInv
  <1>5. Read' = Read
    <2>1. Read = {i \in FirstPlaces : i <= Done}
      BY <1>1 DEF Read
    <2>2. CASE Open
      <3>1. Read' = {i \in FirstPlaces : i <= Done + 1 /\ i < Done + 1}
        BY <1>1, <1>3, <2>2 DEF Read
      <3>2. \A i \in FirstPlaces : i <= Done <=> i <= Done + 1 /\ i < Done + 1
        BY <1>1, <1>4
      <3>3. QED
        BY <2>1, <3>1, <3>2
    <2>3. CASE ~Open
      <3>1. Read' = {i \in FirstPlaces : i <= Done + 1}
        BY <1>1, <1>3, <2>3 DEF Read
      <3>2. \A i \in FirstPlaces : i <= Done <=> i <= Done + 1
        BY <1>1, <1>4, <2>3
      <3>3. QED
        BY <2>1, <3>1, <3>2
    <2>4. QED
      BY <2>2, <2>3
  <1>6. Judged = {} /\ Judged' = {}
    <2>1. Judged = {}
      BY <1>1 DEF Judged
    <2>2. CASE Open
      <3>1. Judged' = {l \in RuleLines(path)' : l < 1}
        BY <1>1, <2>2 DEF Judged
      <3>2. RuleLines(path)' = RuleLines(path')
        BY <1>2 DEF RuleLines, Disk
      <3>3. \A l \in RuleLines(path') : ~(l < 1)
        <4>1. setup \in Setups
          BY DEF ReadingInv
        <4>2. \A l \in RuleLines(path') : l \in 1..Len(Disk[path'].lines)
          BY <1>1, <2>2, <4>1, RuleLinesNat
        <4>3. QED
          BY <4>2
      <3>4. QED
        BY <2>1, <3>1, <3>2, <3>3
    <2>3. CASE ~Open
      BY <1>1, <2>1, <2>3 DEF Judged
    <2>4. QED
      BY <2>2, <2>3
  <1>7. Covered' = Covered
    BY <1>2, <1>5, <1>6, CoveredSame
  <1>8. QED
    BY <1>1, <1>2, <1>7, RecordedSame

\* At the end of a file all its rule lines were judged.
LEMMA ClosedCovers ==
  ASSUME ReadingInv, PlaceInv, RecordedInv, CloseFile
  PROVE  RecordedInv'
  <1>1. /\ path # None /\ gathered = None /\ AtEnd /\ path' = None /\ stage = "loading"
        /\ UNCHANGED <<setup, todo, records>>
    BY DEF CloseFile, results
  <1>2. Started /\ Done \in FirstPlaces /\ path = Files[Done]
    BY <1>1 DEF PlaceInv, OpenInv, Started
  <1>3. /\ Files' = Files /\ FirstPlaces' = FirstPlaces
        /\ \A p : RuleLines(p)' = RuleLines(p)
    BY <1>1, SetupSame
  <1>4. Done' = Done
    BY <1>1, <1>3 DEF Done
  <1>5. FirstPlaces \subseteq Nat
    BY FilesType DEF ReadingInv
  <1>6. Read' = Read \cup {Done}
    <2>1. Read = {i \in FirstPlaces : i <= Done /\ i < Done}
      BY <1>1 DEF Read
    <2>2. Read' = {i \in FirstPlaces : i <= Done}
      BY <1>1, <1>3, <1>4 DEF Read
    <2>3. \A i \in FirstPlaces : i <= Done <=> (i <= Done /\ i < Done) \/ i = Done
      BY <1>2, <1>5
    <2>4. QED
      BY <1>2, <2>1, <2>2, <2>3
  <1>7. Judged = RuleLines(path)
    <2>1. setup \in Setups /\ path \in DOMAIN Disk /\ at \in Nat
      BY <1>1 DEF ReadingInv
    <2>2. \A l \in RuleLines(path) : l \in 1..Len(Disk[path].lines)
      BY <2>1, RuleLinesNat
    <2>3. Len(Disk[path].lines) \in Nat
      BY <1>1, LineOfFile
    <2>4. \A l \in RuleLines(path) : l < at
      BY <1>1, <2>1, <2>2, <2>3 DEF AtEnd
    <2>5. QED
      BY <1>1, <2>4 DEF Judged
  <1>8. Judged' = {}
    BY <1>1 DEF Judged
  <1>9. Covered' = Covered
    <2>1. Covered = LinesOf(Read) \cup LinesAt(Done)
      BY <1>2, <1>7 DEF Covered, LinesAt
    <2>2. LinesOf(Read)' = LinesOf(Read \cup {Done})
      BY <1>1, <1>6, LinesSame DEF LinesOf
    <2>3. {path'} \X Judged' = {}
      BY <1>8
    <2>4. Covered' = LinesOf(Read \cup {Done})
      BY <2>2, <2>3 DEF Covered
    <2>5. QED
      BY <2>1, <2>4, LinesAdd
  <1>10. QED
    BY <1>1, <1>2, <1>9, RecordedSame

\* A judged line has the last record.
LEMMA JudgedCovers ==
  ASSUME ReadingInv, RecordsInv, PlaceInv, RecordedInv, Parse \/ ParseRaises
  PROVE  RecordedInv'
  <1>1. /\ stage = "loading" /\ path' = path /\ UNCHANGED <<setup, todo>>
        /\ \E r : records' = Append(records, r) /\ r.file = path /\ r.line = gathered.start
    BY DEF Parse, ParseRaises, _collect
  <1>2. PICK r : records' = Append(records, r) /\ r.file = path /\ r.line = gathered.start
    BY <1>1
  <1>3. /\ gathered.start \in RuleLines(path) /\ Judged' = Judged \cup {gathered.start}
        /\ \A l \in Judged : l < gathered.start
        /\ path # None
    BY JudgeNext DEF PlaceInv
  <1>4. Started /\ Done \in FirstPlaces /\ path = Files[Done]
    BY <1>1, <1>3 DEF PlaceInv, OpenInv, Started
  <1>5. /\ Files' = Files /\ FirstPlaces' = FirstPlaces
        /\ \A p : RuleLines(p)' = RuleLines(p)
    BY <1>1, SetupSame
  <1>6. Read' = Read
    <2>1. Done' = Done
      BY <1>1, <1>5 DEF Done
    <2>2. QED
      BY <1>1, <1>5, <2>1 DEF Read
  <1>7. Covered' = Covered \cup {<<path, gathered.start>>}
    <2>1. LinesOf(Read)' = LinesOf(Read)
      BY <1>1, <1>6, LinesSame DEF LinesOf
    <2>2. {path'} \X Judged' = ({path} \X Judged) \cup {<<path, gathered.start>>}
      BY <1>1, <1>3
    <2> DEFINE here == {path} \X Judged
    <2>3. Covered = LinesOf(Read) \cup here /\ Covered' = LinesOf(Read) \cup (here \cup {<<path, gathered.start>>})
      BY <2>1, <2>2 DEF Covered
    <2> HIDE DEF here
    <2>4. QED
      BY <2>3
  <1>8. /\ DOMAIN records' = DOMAIN records \cup {Len(records) + 1}
        /\ \A k \in DOMAIN records : records'[k] = records[k] /\ k < Len(records) + 1
        /\ records'[Len(records) + 1] = r /\ Len(records) \in Nat /\ DOMAIN records = 1..Len(records)
    BY <1>2, AppendTo DEF RecordsInv
  <1>9. Recorded' = Recorded \cup {<<path, gathered.start>>}
    <2> DEFINE pair(s, k) == <<s[k].file, s[k].line>>
    <2>1. Recorded' = {pair(records', k) : k \in DOMAIN records'} /\ Recorded = {pair(records, k) : k \in DOMAIN records}
      BY DEF Recorded
    <2>2. /\ \A k \in DOMAIN records : pair(records', k) = pair(records, k)
          /\ pair(records', Len(records) + 1) = <<path, gathered.start>>
      BY <1>2, <1>8
    <2> HIDE DEF pair
    <2>3. QED
      BY <1>8, <2>1, <2>2
  <1>10. Recorded = Covered /\ InOrder
    BY <1>4 DEF RecordedInv
  <1>11. ASSUME NEW k \in DOMAIN records
         PROVE  Before(records[k], r)
    <2>1. <<records[k].file, records[k].line>> \in Covered
      BY <1>10 DEF Recorded
    <2>2. CASE <<records[k].file, records[k].line>> \in {path} \X Judged
      BY <1>2, <1>3, <2>2 DEF Before
    <2>3. CASE <<records[k].file, records[k].line>> \in LinesOf(Read)
      <3>1. PICK i \in Read : records[k].file = Files[i]
        BY <2>3 DEF LinesOf, LinesAt
      <3>2. i \in FirstPlaces /\ i < Done
        BY <1>3, <3>1 DEF Read
      <3>3. QED
        BY <1>2, <1>4, <3>1, <3>2 DEF Before, Files
    <2>4. QED
      BY <2>1, <2>2, <2>3 DEF Covered
  <1>12. InOrder'
    <2>1. \A s, t : Before(s, t)' = Before(s, t)
      BY <1>1, SetupSame
    <2>2. SUFFICES ASSUME NEW j \in DOMAIN records', NEW k \in DOMAIN records', j < k
                   PROVE  Before(records'[j], records'[k])
      <3>1. \A j, k : Before(records[j], records[k])' = Before(records'[j], records'[k])
        BY <1>1, <1>5 DEF Before
      <3>2. QED
        BY <3>1 DEF InOrder
    <2>3. j \in DOMAIN records
      BY <1>8, <2>2
    <2>4. CASE k \in DOMAIN records
      <3>1. Before(records[j], records[k])
        BY <1>10, <2>2, <2>3, <2>4 DEF InOrder
      <3>2. QED
        BY <1>8, <2>3, <2>4, <3>1
    <2>5. CASE k \notin DOMAIN records
      <3>1. records'[k] = r /\ records'[j] = records[j]
        BY <1>8, <2>3, <2>5
      <3>2. QED
        BY <1>11, <2>3, <3>1
    <2>6. QED
      BY <2>4, <2>5
  <1>13. QED
    BY <1>7, <1>9, <1>10, <1>12 DEF RecordedInv

-----------------------------------------------------------------------------
(* Every step *)

LEMMA PlaceNext ==
  ASSUME ReadingInv, RecordsInv, PlaceInv, [Next]_vars
  PROVE  PlaceInv'
  <1>1. setup' = setup
    BY SetupKept
  <1>2. CASE Refuse \/ Skip \/ Begin
    <2>1. /\ stage = "starting" /\ UNCHANGED <<todo, report, path, gathered, records, loaded>>
          /\ \/ stage' = "refused"
             \/ stage' = "running" /\ ~setup.enabled
             \/ stage' = "listing" /\ setup.enabled
      BY <1>2 DEF Refuse, Skip, Begin, reading, results
    <2>2. /\ Listed \in 0..Len(setup.rule_files) /\ todo = Enabled(setup)[Listed]
          /\ path = None /\ gathered = None /\ records = <<>> /\ loaded = {}
      BY <2>1 DEF PlaceInv, ListInv
    <2>3. Listed' = Listed
      BY <2>1 DEF Listed
    <2>4. ListInv'
      BY <1>1, <2>1, <2>2, <2>3 DEF ListInv
    <2>5. TodoInv' /\ LoadedInv'
      BY <1>1, <2>1 DEF TodoInv, LoadedInv, Started
    <2>6. OpenInv'
      BY <2>1, <2>2 DEF OpenInv
    <2>7. QED
      BY <2>4, <2>5, <2>6 DEF PlaceInv
  <1>3. CASE ListFile \/ LeaveOut \/ ListExtras
    BY <1>3, ListNext
  <1>4. CASE OpenAgain \/ OpenFails \/ Open
    BY <1>4, TakeNext
  <1>5. CASE CloseFile \/ Blank \/ Comment \/ StartRule \/ Join \/ Parse \/ ParseRaises
    <2>1. stage = "loading" /\ UNCHANGED <<stage, todo, loaded>>
      BY <1>5 DEF CloseFile, Blank, Comment, StartRule, Join, Parse, ParseRaises, NextLine
    <2>2. Started /\ Started' /\ LoadedInv'
      BY <1>1, <2>1 DEF PlaceInv, LoadedInv, Started
    <2>3. OpenInv'
      <3>1. CASE CloseFile
        BY <3>1 DEF CloseFile, OpenInv
      <3>2. CASE Blank \/ Comment \/ StartRule \/ Join
        BY <3>2, LineNext DEF PlaceInv
      <3>3. CASE Parse \/ ParseRaises
        BY <3>3, JudgeNext DEF PlaceInv
      <3>4. QED
        BY <1>5, <3>1, <3>2, <3>3
    <2>4. QED
      BY <1>1, <2>1, <2>2, <2>3, PlaceSame
  <1>6. CASE Loaded \/ Add \/ Freeze \/ Replace \/ ReplaceFails \/ Write \/ WriteFails \/ CloseReport
    <2>1. /\ UNCHANGED <<todo, loaded, path, at, gathered>>
          /\ \/ stage = "loading" /\ path = None /\ todo = <<>>
             \/ stage \in {"adding", "reporting", "writing"}
          /\ stage' \in {"adding", "reporting", "writing", "running", "failed"}
      <3>1. CASE Loaded \/ Add \/ Freeze
        BY <3>1 DEF Loaded, Add, Freeze, reading
      <3>2. CASE Replace \/ ReplaceFails \/ Write \/ WriteFails \/ CloseReport
        BY <3>2 DEF Replace, ReplaceFails, Write, WriteFails, CloseReport, Offering, reading
      <3>3. QED
        BY <1>6, <3>1, <3>2
    <2>2. path = None /\ todo = <<>> /\ setup.enabled
      BY <2>1 DEF PlaceInv, LoadedInv
    <2>3. Started /\ Started' /\ LoadedInv'
      BY <1>1, <2>1, <2>2 DEF LoadedInv, Started
    <2>4. OpenInv'
      BY <2>1, <2>2 DEF PlaceInv, OpenInv
    <2>5. QED
      BY <1>1, <2>1, <2>3, <2>4, PlaceSame
  <1>7. CASE UNCHANGED vars
    <2>1. UNCHANGED <<stage, todo, loaded, path, at, gathered, report, records>>
      BY <1>7 DEF vars, reading, results
    <2>2. /\ Files' = Files /\ FirstPlaces' = FirstPlaces
          /\ \A p : _path_key(p)' = _path_key(p)
      BY <1>1, SetupSame
    <2>3. RuleLines(path)' = RuleLines(path) /\ Disk' = Disk
      BY <1>1, <2>1, OpenKept
    <2>4. Done' = Done /\ Listed' = Listed /\ AtEnd' = AtEnd
      BY <2>1, <2>2, <2>3 DEF Done, Listed, AtEnd
    <2>5. ListInv'
      BY <1>1, <2>1, <2>4 DEF PlaceInv, ListInv
    <2>6. TodoInv'
      <3>1. \A i : _path_key(Files[i])' = _path_key(Files[i])
        BY <2>2 DEF _path_key
      <3>2. QED
        BY <1>1, <2>1, <2>2, <2>4, <3>1 DEF PlaceInv, TodoInv, Started
    <2>7. OpenInv'
      BY <1>1, <2>1, <2>2, <2>3, <2>4 DEF PlaceInv, OpenInv
    <2>8. LoadedInv'
      BY <1>1, <2>1 DEF PlaceInv, LoadedInv
    <2>9. QED
      BY <2>5, <2>6, <2>7, <2>8 DEF PlaceInv
  <1>8. QED
    BY <1>2, <1>3, <1>4, <1>5, <1>6, <1>7 DEF Next

LEMMA RecordedNext ==
  ASSUME ReadingInv, RecordsInv, PlaceInv, RecordedInv, [Next]_vars
  PROVE  RecordedInv'
  <1>1. setup' = setup
    BY SetupKept
  <1>2. CASE Refuse \/ Skip \/ Begin \/ ListFile \/ LeaveOut
    <2>1. ~Started'
      BY <1>1, <1>2 DEF Refuse, Skip, Begin, ListFile, LeaveOut, Started
    <2>2. QED
      BY <2>1 DEF RecordedInv
  <1>3. CASE ListExtras
    <2>1. /\ stage = "listing" /\ path = None /\ records = <<>> /\ todo = Enabled(setup)[Listed]
          /\ Listed = Len(setup.rule_files) /\ todo' = todo \o setup.extra_paths
          /\ path' = None /\ records' = <<>>
      BY <1>3 DEF ListExtras, PlaceInv, ListInv, results
    <2>2. Files' = Files /\ todo' = Files
      BY <1>1, <2>1, SetupSame DEF Files, sources
    <2>3. Done' = 0
      BY <2>2, FilesType DEF Done, ReadingInv
    <2>4. Read' = {}
      <3>1. \A i \in FirstPlaces : i \in 1..Len(Files)
        BY FilesType DEF ReadingInv
      <3>2. FirstPlaces' = FirstPlaces
        BY <1>1, SetupSame
      <3>3. QED
        BY <2>3, <3>1, <3>2 DEF Read
    <2>5. Judged' = {}
      BY <2>1 DEF Judged
    <2>6. LinesOf(Read)' = {}
      BY <2>4 DEF LinesOf
    <2>7. {path'} \X Judged' = {}
      BY <2>5
    <2>8. Covered' = {}
      BY <2>6, <2>7 DEF Covered
    <2>9. Recorded' = {} /\ InOrder'
      BY <2>1 DEF Recorded, InOrder
    <2>10. QED
      BY <2>8, <2>9 DEF RecordedInv
  <1>4. CASE OpenAgain \/ OpenFails \/ Open
    BY <1>4, TakenCovers
  <1>5. CASE CloseFile
    BY <1>5, ClosedCovers
  <1>6. CASE Parse \/ ParseRaises
    BY <1>6, JudgedCovers
  <1>7. CASE Blank \/ Comment \/ StartRule \/ Join
    <2>1. stage = "loading" /\ UNCHANGED <<todo, records>>
      BY <1>7 DEF Blank, Comment, StartRule, Join, NextLine, results
    <2>2. Started
      BY <2>1 DEF PlaceInv, LoadedInv, Started
    <2>3. Judged' = Judged /\ path # None /\ path' = path
      <3>1. path # None /\ path' = path
        BY <1>7 DEF Blank, Comment, StartRule, Join, NextLine, PlaceInv, OpenInv
      <3>2. QED
        BY <1>7, <3>1, LineNext DEF PlaceInv
    <2>4. FirstPlaces' = FirstPlaces /\ Files' = Files
      BY <1>1, SetupSame
    <2>5. Done' = Done
      BY <2>1, <2>4 DEF Done
    <2>6. Read' = Read
      BY <2>3, <2>4, <2>5 DEF Read
    <2>7. Covered' = Covered
      BY <1>1, <2>3, <2>6, CoveredSame
    <2>8. QED
      BY <1>1, <2>1, <2>2, <2>7, RecordedSame
  <1>8. CASE Loaded \/ Add \/ Freeze \/ Replace \/ ReplaceFails \/ Write \/ WriteFails \/ CloseReport \/ UNCHANGED vars
    <2>1. UNCHANGED <<todo, path, at, gathered, records>>
      BY <1>8 DEF Loaded, Add, Freeze, Replace, ReplaceFails, Write, WriteFails, CloseReport, reading, results, vars
    <2>2. Started' => Started
      <3>1. CASE UNCHANGED vars
        BY <3>1 DEF vars, Started
      <3>2. CASE ~UNCHANGED vars
        BY <1>1, <1>8, <3>2 DEF Loaded, Add, Freeze, Replace, ReplaceFails, Write, WriteFails, CloseReport,
           Offering, Started
      <3>3. QED
        BY <3>1, <3>2
    <2>3. FirstPlaces' = FirstPlaces /\ Files' = Files /\ RuleLines(path)' = RuleLines(path)
      BY <1>1, <2>1, OpenKept
    <2>4. Done' = Done
      BY <2>1, <2>3 DEF Done
    <2>5. Read' = Read /\ Judged' = Judged
      BY <2>1, <2>3, <2>4 DEF Read, Judged
    <2>6. Covered' = Covered
      BY <1>1, <2>1, <2>5, CoveredSame
    <2>7. CASE Started
      BY <1>1, <2>1, <2>6, <2>7, RecordedSame
    <2>8. CASE ~Started
      BY <2>2, <2>8 DEF RecordedInv
    <2>9. QED
      BY <2>7, <2>8
  <1>9. QED
    BY <1>2, <1>3, <1>4, <1>5, <1>6, <1>7, <1>8 DEF Next

LEMMA OutputNext ==
  ASSUME ReadingInv, RecordsInv, OutputInv, [Next]_vars
  PROVE  OutputInv'
  <1>1. setup' = setup
    BY SetupKept
  <1>2. faults \in Nat /\ offered \in Nat /\ Len(lines) \in Nat /\ Len(records) \in Nat /\ offered <= Len(records)
    <2>1. IsSequence(lines) /\ IsSequence(records)
      BY DEF OutputInv, RecordsInv
    <2>2. Len(lines) \in Nat /\ Len(records) \in Nat
      BY <2>1 DEF IsSequence
    <2>3. QED
      BY <2>2, LoaderAssumption DEF ReadingInv
  <1>3. CASE Refuse \/ Skip \/ Begin \/ ListFile \/ LeaveOut \/ ListExtras
    <2>1. /\ UNCHANGED <<file, lines, offered, records, faults>> /\ stage \in {"starting", "listing"}
          /\ \/ stage' \in {"refused", "listing", "loading"}
             \/ stage' = "running" /\ ~setup.enabled
      BY <1>3 DEF Refuse, Skip, Begin, ListFile, LeaveOut, ListExtras, output, results
    <2>2. QED
      BY <1>1, <2>1 DEF OutputInv
  <1>4. CASE OpenAgain \/ OpenFails \/ Open \/ CloseFile \/ Blank \/ Comment \/ StartRule \/ Join
    <2>1. /\ UNCHANGED <<file, lines, offered, records, faults, stage>>
      BY <1>4 DEF OpenAgain, OpenFails, Open, CloseFile, Blank, Comment, StartRule, Join, output, results
    <2>2. QED
      BY <1>1, <2>1 DEF OutputInv
  <1>5. CASE Parse \/ ParseRaises
    <2>1. /\ UNCHANGED <<file, lines, offered, stage>> /\ stage = "loading"
          /\ faults' = faults \/ faults' = faults + 1
      BY <1>5 DEF Parse, ParseRaises, output
    <2>2. lines = <<>> /\ offered = 0 /\ file = "old"
      BY <2>1 DEF OutputInv
    <2>3. Len(lines') + faults' >= offered'
      BY <1>2, <2>1, <2>2
    <2>4. IsSequence(lines') /\ DOMAIN lines' = {}
      BY <2>1, <2>2 DEF IsSequence
    <2>5. QED
      BY <2>1, <2>2, <2>3, <2>4 DEF OutputInv
  <1>6. CASE Loaded \/ Add \/ Freeze \/ Replace
    <2>1. /\ UNCHANGED <<lines, offered, records, faults>> /\ stage \in {"loading", "adding", "reporting"}
          /\ \/ stage' \in {"adding", "failed", "reporting"} /\ file' = file
             \/ stage' = "writing" /\ file' = "new"
      <3>1. CASE Loaded \/ Add
        BY <3>1 DEF Loaded, Add, output, results
      <3>2. CASE Freeze \/ Replace
        BY <3>2 DEF Freeze, Replace, output, results
      <3>3. QED
        BY <1>6, <3>1, <3>2
    <2>2. QED
      BY <1>1, <2>1 DEF OutputInv
  <1>7. CASE ReplaceFails \/ CloseReport
    <2>1. CASE ReplaceFails
      <3>1. /\ UNCHANGED <<lines, offered, records>> /\ stage = "reporting" /\ stage' = "running"
            /\ file' \in {"old", "gone"} /\ faults' = faults + 1
        BY <2>1 DEF ReplaceFails, results
      <3>2. faults' > 0 /\ Len(lines') + faults' >= offered'
        BY <1>2, <3>1 DEF OutputInv
      <3>3. QED
        BY <1>1, <3>1, <3>2 DEF OutputInv
    <2>2. CASE CloseReport
      <3>1. /\ UNCHANGED <<lines, offered, records, file, faults>> /\ stage = "writing" /\ stage' = "running"
            /\ offered = Len(records)
        BY <2>2 DEF CloseReport, results, output
      <3>2. QED
        BY <1>1, <3>1 DEF OutputInv
    <2>3. QED
      BY <1>7, <2>1, <2>2
  <1>8. CASE Write \/ WriteFails
    <2>1. /\ stage = "writing" /\ offered' = offered + 1 /\ UNCHANGED <<stage, records, file>> /\ file = "new"
          /\ offered + 1 \in DOMAIN records
      <3>1. DOMAIN records = 1..Len(records)
        BY DEF RecordsInv, IsSequence
      <3>2. /\ stage = "writing" /\ offered < Len(records) /\ offered' = offered + 1
            /\ UNCHANGED <<stage, records, file>>
        BY <1>8 DEF Write, WriteFails, Offering, results
      <3>3. file = "new"
        BY <3>2 DEF OutputInv
      <3>4. offered + 1 \in DOMAIN records
        BY <1>2, <3>1, <3>2
      <3>5. QED
        BY <3>2, <3>3, <3>4
    <2>2. /\ \A i \in DOMAIN lines : \E k \in 1..offered : lines[i] = records[k]
          /\ \A i, j \in DOMAIN lines : i < j =>
               \E k, l \in 1..offered : k < l /\ lines[i] = records[k] /\ lines[j] = records[l]
          /\ IsSequence(lines) /\ Len(lines) + faults >= offered
      BY DEF OutputInv
    <2>3. \A k \in 1..offered : k \in 1..(offered + 1) /\ k < offered + 1
      BY <1>2
    <2>4. CASE WriteFails
      <3>1. lines' = lines /\ faults' = faults + 1
        BY <2>4 DEF WriteFails
      <3>2. Len(lines') + faults' >= offered'
        BY <1>2, <2>1, <2>2, <3>1
      <3>3. QED
        BY <2>1, <2>2, <2>3, <3>1, <3>2 DEF OutputInv
    <2>5. CASE Write
      <3>1. lines' = Append(lines, records[offered + 1]) /\ faults' = faults
        BY <2>1, <2>5 DEF Write
      <3>2. /\ IsSequence(lines') /\ Len(lines') = Len(lines) + 1
            /\ DOMAIN lines = 1..Len(lines) /\ DOMAIN lines' = DOMAIN lines \cup {Len(lines) + 1}
            /\ \A i \in DOMAIN lines : lines'[i] = lines[i] /\ i < Len(lines) + 1
            /\ lines'[Len(lines) + 1] = records[offered + 1]
        BY <2>2, <3>1, AppendTo
      <3>3. Len(lines') + faults' >= offered'
        BY <1>2, <2>1, <2>2, <3>1, <3>2
      <3>4. ASSUME NEW i \in DOMAIN lines' PROVE \E k \in 1..offered' : lines'[i] = records'[k]
        <4>1. CASE i \in DOMAIN lines
          <5>1. PICK k \in 1..offered : lines[i] = records[k]
            BY <2>2, <4>1
          <5>2. k \in 1..offered' /\ lines'[i] = records'[k]
            BY <2>1, <2>3, <3>2, <4>1, <5>1
          <5>3. QED
            BY <5>2
        <4>2. CASE i \notin DOMAIN lines
          <5>1. offered + 1 \in 1..offered' /\ lines'[i] = records'[offered + 1]
            BY <1>2, <2>1, <3>2, <4>2
          <5>2. QED
            BY <5>1
        <4>3. QED
          BY <4>1, <4>2
      <3>5. ASSUME NEW i \in DOMAIN lines', NEW j \in DOMAIN lines', i < j
            PROVE  \E k, l \in 1..offered' : k < l /\ lines'[i] = records'[k] /\ lines'[j] = records'[l]
        <4>1. i \in DOMAIN lines /\ lines'[i] = lines[i]
          BY <1>2, <3>2, <3>5
        <4>2. CASE j \in DOMAIN lines
          <5>1. PICK k, l \in 1..offered : k < l /\ lines[i] = records[k] /\ lines[j] = records[l]
            BY <2>2, <3>5, <4>1, <4>2
          <5>2. k \in 1..offered' /\ l \in 1..offered' /\ lines'[i] = records'[k] /\ lines'[j] = records'[l]
            BY <2>1, <2>3, <3>2, <4>1, <4>2, <5>1
          <5>3. QED
            BY <5>1, <5>2
        <4>3. CASE j \notin DOMAIN lines
          <5>1. PICK k \in 1..offered : lines[i] = records[k]
            BY <2>2, <4>1
          <5>2. /\ k \in 1..offered' /\ offered + 1 \in 1..offered' /\ k < offered + 1
                /\ lines'[i] = records'[k] /\ lines'[j] = records'[offered + 1]
            BY <1>2, <2>1, <2>3, <3>2, <4>1, <4>3, <5>1
          <5>3. QED
            BY <5>2
        <4>4. QED
          BY <4>2, <4>3
      <3>6. QED
        BY <2>1, <3>2, <3>3, <3>4, <3>5 DEF OutputInv
    <2>6. QED
      BY <1>8, <2>4, <2>5
  <1>9. CASE UNCHANGED vars
    <2>1. UNCHANGED <<file, lines, offered, records, faults, stage>>
      BY <1>9 DEF vars, output, results
    <2>2. QED
      BY <1>1, <2>1 DEF OutputInv
  <1>10. QED
    BY <1>3, <1>4, <1>5, <1>6, <1>7, <1>8, <1>9 DEF Next

CoverInv == PlaceInv /\ RecordedInv /\ OutputInv

LEMMA CoverInit == ASSUME Init PROVE CoverInv
  <1>1. /\ setup \in Setups /\ stage = "starting" /\ path = None /\ gathered = None /\ records = <<>> /\ loaded = {}
        /\ todo = <<>> /\ report["disabled_files"] = 0 /\ faults = 0 /\ file = "old" /\ lines = <<>> /\ offered = 0
    BY DEF Init, Counters
  <1>2. ListInv
    <2>1. Listed = 0
      BY <1>1 DEF Listed
    <2>2. Enabled(setup)[0] = <<>> /\ Len(setup.rule_files) \in Nat
      BY <1>1, EnabledSteps
    <2>3. QED
      BY <1>1, <2>1, <2>2 DEF ListInv
  <1>3. TodoInv /\ OpenInv /\ LoadedInv /\ RecordedInv
    BY <1>1 DEF TodoInv, OpenInv, LoadedInv, RecordedInv, Started
  <1>4. OutputInv
    <2>1. IsSequence(lines) /\ DOMAIN lines = {} /\ Len(lines) = 0
      BY <1>1 DEF IsSequence
    <2>2. QED
      BY <1>1, <2>1 DEF OutputInv
  <1>5. QED
    BY <1>2, <1>3, <1>4 DEF CoverInv, PlaceInv

LEMMA AllReported ==
  ASSUME LoaderInv, CoverInv
  PROVE  EveryRuleLineReported
  <1> SUFFICES ASSUME stage = "running", setup.enabled
               PROVE  /\ Recorded = UNION {{sources(setup)[i]} \X RuleLines(sources(setup)[i]) : i \in FirstPlaces}
                      /\ InOrder
                      /\ file = "new" =>
                           /\ \A i, j \in DOMAIN lines : i < j =>
                                \E k, l \in DOMAIN records : k < l /\ lines[i] = records[k] /\ lines[j] = records[l]
                           /\ Len(lines) + faults >= Len(records)
                      /\ file # "new" => faults > 0
    BY DEF EveryRuleLineReported, Recorded, InOrder
  <1>1. todo = <<>> /\ path = None /\ Started /\ setup \in Setups
    BY DEF CoverInv, PlaceInv, LoadedInv, Started, LoaderInv, ReadingInv
  <1>2. Read = FirstPlaces
    <2>1. Len(Files) \in Nat /\ \A i \in FirstPlaces : i \in 1..Len(Files)
      BY <1>1, FilesType
    <2>2. Done = Len(Files)
      BY <1>1, <2>1 DEF Done
    <2>3. QED
      BY <1>1, <2>1, <2>2 DEF Read
  <1>3. {path} \X Judged = {}
    <2>1. Judged = {}
      BY <1>1 DEF Judged
    <2>2. QED
      BY <2>1
  <1>4. Recorded = LinesOf(FirstPlaces) /\ InOrder
    BY <1>1, <1>2, <1>3 DEF CoverInv, RecordedInv, Covered
  <1>5. LinesOf(FirstPlaces) = UNION {{sources(setup)[i]} \X RuleLines(sources(setup)[i]) : i \in FirstPlaces}
    BY DEF LinesOf, LinesAt, Files
  <1>6. /\ file = "new" => offered = Len(records)
        /\ file # "new" => faults > 0
        /\ Len(lines) + faults >= offered
        /\ \A i, j \in DOMAIN lines : i < j =>
             \E k, l \in 1..offered : k < l /\ lines[i] = records[k] /\ lines[j] = records[l]
    BY DEF CoverInv, OutputInv
  <1>7. DOMAIN records = 1..Len(records)
    BY DEF LoaderInv, RecordsInv, IsSequence
  <1>8. QED
    BY <1>4, <1>5, <1>6, <1>7

\* When the engine runs, every rule line of every file that can be read has
\* one record, the records are in the order of the files and of the lines, and
\* the report on disk has them but for those whose writing failed.
THEOREM RuleLinesReported == Spec => []EveryRuleLineReported
  <1>1. LoaderInv /\ CoverInv /\ [Next]_vars => CoverInv'
    BY PlaceNext, RecordedNext, OutputNext DEF LoaderInv, CoverInv
  <1>2. Init => CoverInv
    BY CoverInit
  <1>3. LoaderInv /\ CoverInv => EveryRuleLineReported
    BY AllReported
  <1>4. QED
    BY <1>1, <1>2, <1>3, LoaderInvariant, PTL DEF Spec
=============================================================================
