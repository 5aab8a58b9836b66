----------------------------- MODULE RuleParser -----------------------------
(***************************************************************************)
(* From one logical line of a rules file to a verdict: tokenize_rule() and *)
(* the option parsers of src/rules/parser.py, put in order by parse_rule() *)
(* of src/rules/validator.py.                                              *)
(*                                                                         *)
(* A line is a sequence of lexemes: words, parentheses, options (without a *)
(* key: ":"), and "broken" for a quote that is not closed; "word" is what a *)
(* lexeme is in the header, where a word stands for the class of words its *)
(* parser tells apart.  The value of an option is what its text converts   *)
(* to: a number, "quoted", a record, or Bad when it does not convert, None *)
(* when there is no value.  A reason is a pair of its two parts, without   *)
(* the keyword at its end: only how a reason begins is ever tested.        *)
(***************************************************************************)
EXTENDS Integers, Sequences, FiniteSetsExt

CONSTANTS MAX_OPTION_INT,    \* 4294967295 in the code
          DefaultPriority,   \* engine.default_priority
          Bad,               \* a value that does not convert
          None               \* Python's None

ASSUME ParserAssumption ==
  /\ MAX_OPTION_INT \in Nat \ {0}
  /\ DefaultPriority \in 1..MAX_OPTION_INT
  /\ None \notin Int \cup {Bad} /\ Bad \notin Int

\* The codes a reason may have; ParseResult and RuleRecord raise for any other.
InvalidCodes == {
  "malformed_rule", "bad_header", "bad_ip", "bad_port", "bad_direction", "missing_sid", "bad_sid",
  "duplicate_sid", "missing_msg", "modifier_without_content", "depth_lt_pattern", "within_lt_pattern",
  "mixed_absolute_relative", "flags_requires_tcp", "conflicting_flow", "internal_error",
  "bad_option_value", "duplicate_option" }
UnsupportedCodes == {
  "ip_syntax", "port_syntax", "flags_mask", "content_negation",
  "action", "protocol", "keyword", "flow_option" }

REASONS ==
  ({"invalid"} \X InvalidCodes) \cup ({"unsupported"} \X UnsupportedCodes) \cup {<<"disabled", "sid">>}

ASSUME NoReasonAssumption == None \notin REASONS

Invalid(code) == <<"invalid", code>>
Unsupported(code) == <<"unsupported", code>>
IsInvalid(problem) == problem # None /\ problem[1] = "invalid"
OnlyInvalid(problem) == IF IsInvalid(problem) THEN problem ELSE None

\* The first problem of a list in which None stands for "no problem".
First(problems) ==
  LET found == {i \in DOMAIN problems : problems[i] # None}
  IN IF found = {} THEN None ELSE problems[Min(found)]

Several(S) == \E x, y \in S : x # y

-----------------------------------------------------------------------------
(* The structure of a line *)

Places(line, lex) == {i \in DOMAIN line : line[i].lex = lex}
Opening(line) == Min(Places(line, "open"))
Closing(line) == Max(Places(line, "close"))

header_tokens(line) == SubSeq(line, 1, Opening(line) - 1)

Nothing == [key |-> "", value |-> None]

\* What stands between the parentheses.  Text that is no option of its own is
\* glued to the option behind it and makes a keyword nobody knows.
split_options(line) ==
  [i \in 1..(Closing(line) - Opening(line) - 1) |->
     LET o == line[Opening(line) + i]
         glued == i > 1 /\ line[Opening(line) + i - 1].lex # "option"
     IN IF o.lex = "option" /\ ~glued THEN [key |-> o.key, value |-> o.value]
        ELSE IF o.lex = "option" \/ Opening(line) + i + 1 = Closing(line)
               THEN [key |-> "glued text", value |-> None]
        ELSE Nothing]

\* The first '(' and the last ')', nothing behind it, every quote closed, and
\* no option without a key.  Empty options are ignored.
structured(line) ==
  /\ Places(line, "open") # {} /\ Places(line, "close") # {}
  /\ Opening(line) < Closing(line) /\ Closing(line) = Len(line)
  /\ \A i \in Places(line, "broken") : i < Opening(line)
  /\ \A i \in DOMAIN split_options(line) : split_options(line)[i].key # ":"

-----------------------------------------------------------------------------
(* The header *)

HEADER_TOKEN_COUNT == 7

\* The words a token may be, those that are well formed but not supported, and
\* the codes of the problems.
Token(known, foreign, unsupported, invalid) ==
  [known |-> known, foreign |-> foreign, unsupported |-> unsupported, invalid |-> invalid]

ActionToken    == Token({"alert"}, {"drop"}, "action", "bad_header")
ProtocolToken  == Token({"tcp", "udp", "ip"}, {"icmp"}, "protocol", "bad_header")
IpToken        == Token({"any", "network"}, {"$NET"}, "ip_syntax", "bad_ip")
PortToken      == Token({"any", "ports"}, {"$PORTS"}, "port_syntax", "bad_port")
DirectionToken == Token({"->", "<>"}, {}, "", "bad_direction")

\* action proto src_ip src_port direction dst_ip dst_port
Fields == <<ActionToken, ProtocolToken, IpToken, PortToken, DirectionToken, IpToken, PortToken>>

token_problem(field, word) ==
  IF word \in field.known THEN None
  ELSE IF word \in field.foreign THEN Unsupported(field.unsupported)
  ELSE Invalid(field.invalid)

HeaderProblems(tokens) == [i \in 1..HEADER_TOKEN_COUNT |-> token_problem(Fields[i], tokens[i].word)]

\* An invalid token wins over an unsupported one before it.
parse_header(tokens) ==
  First(<<First([i \in 1..HEADER_TOKEN_COUNT |-> OnlyInvalid(HeaderProblems(tokens)[i])]),
          First(HeaderProblems(tokens))>>)

-----------------------------------------------------------------------------
(* Identification options *)

IDENTIFICATION_KEYWORDS == {"msg", "sid", "rev", "classtype", "priority"}
PASSIVE_KEYWORDS == {"reference", "metadata", "gid"}
CONTENT_MODIFIERS == {"nocase", "offset", "depth", "distance", "within"}
SUPPORTED_KEYWORDS ==
  IDENTIFICATION_KEYWORDS \cup PASSIVE_KEYWORDS \cup CONTENT_MODIFIERS \cup {"content", "flow", "flags", "dsize"}

\* The options with a keyword, by their place.
Of(options, key) == {i \in DOMAIN options : options[i].key = key}

\* The value of an option that is given once, or its default.
ValueOf(options, key, default) ==
  IF Of(options, key) = {} THEN default ELSE options[Min(Of(options, key))].value

good_identification(key, value) ==
  CASE key = "msg" -> value = "quoted"
    [] key = "classtype" -> value = "name"
    [] key \in {"sid", "rev", "priority"} -> value \in 1..MAX_OPTION_INT

identification_problem(options, i) ==
  LET key == options[i].key
  IN IF key \notin IDENTIFICATION_KEYWORDS THEN None
     ELSE IF \E j \in 1..(i - 1) : options[j].key = key THEN Invalid("duplicate_option")
     ELSE IF good_identification(key, options[i].value) THEN None
     ELSE Invalid(CASE key = "msg" -> "missing_msg" [] key = "sid" -> "bad_sid"
                    [] OTHER -> "bad_option_value")

parse_identification(options) ==
  First(<<First([i \in DOMAIN options |-> identification_problem(options, i)]),
          IF Of(options, "sid") = {} THEN Invalid("missing_sid") ELSE None,
          IF Of(options, "msg") = {} THEN Invalid("missing_msg") ELSE None>>)

\* For the report: the sid of a rejected rule, if one is given and only one.
best_effort_sid(options) ==
  LET sid == ValueOf(options, "sid", None)
  IN IF ~Several(Of(options, "sid")) /\ sid \in 1..MAX_OPTION_INT THEN sid ELSE None

-----------------------------------------------------------------------------
(* Contents and their modifiers *)

\* decode_content(): a pattern of at least one byte.  A negated content is
\* decoded like any other.
good_content(value) == value \notin {None, Bad} /\ value.length > 0

good_modifier(key, value) ==
  CASE key = "nocase" -> value = None
    [] key = "distance" -> value \in -MAX_OPTION_INT..MAX_OPTION_INT
    [] key = "within" -> value \in 1..MAX_OPTION_INT
    [] OTHER -> value \in 0..MAX_OPTION_INT

\* The content a place belongs to: the last one up to there, 0 if there is none.
Owner(options, i) == Max({0} \cup {j \in Of(options, "content") : j <= i})

content_problem(options, i) ==
  LET key == options[i].key
  IN IF key = "content"
       THEN IF good_content(options[i].value) THEN None ELSE Invalid("bad_option_value")
     ELSE IF key \notin CONTENT_MODIFIERS THEN None
     ELSE IF Owner(options, i) = 0 THEN Invalid("modifier_without_content")
     ELSE IF \E j \in Owner(options, i)..(i - 1) : options[j].key = key THEN Invalid("duplicate_option")
     ELSE IF good_modifier(key, options[i].value) THEN None
     ELSE Invalid("bad_option_value")

contents_problem(options) == First([i \in DOMAIN options |-> content_problem(options, i)])

content_negation(options) ==
  IF \E i \in Of(options, "content") : options[i].value.negated THEN Unsupported("content_negation") ELSE None

Modifier(options, c, key) ==
  LET given == {i \in Of(options, key) : Owner(options, i) = c}
  IN IF given = {} THEN None ELSE options[Min(given)].value

ContentSpec(options, c) ==
  [length   |-> options[c].value.length,
   offset   |-> Modifier(options, c, "offset"),   depth  |-> Modifier(options, c, "depth"),
   distance |-> Modifier(options, c, "distance"), within |-> Modifier(options, c, "within")]

\* The contents in rule order, each under the place of its option.
parse_contents(options) == [c \in Of(options, "content") |-> ContentSpec(options, c)]

Below(n, length) == n # None /\ n < length

validate_content(spec) ==
  IF Below(spec.depth, spec.length) THEN Invalid("depth_lt_pattern")
  ELSE IF Below(spec.within, spec.length) THEN Invalid("within_lt_pattern")
  ELSE IF (spec.offset # None \/ spec.depth # None) /\ (spec.distance # None \/ spec.within # None)
    THEN Invalid("mixed_absolute_relative")
  ELSE None

-----------------------------------------------------------------------------
(* flow, flags, dsize *)

FLOW_ROLES == [w \in {"to_server", "from_client", "to_client", "from_server"} |->
                 IF w \in {"to_server", "from_client"} THEN "to_server" ELSE "to_client"]
FLOW_STATES == {"established", "not_established"}

Roles(words) == {FLOW_ROLES[w] : w \in words \cap DOMAIN FLOW_ROLES}
States(words) == words \cap FLOW_STATES

\* The words of a flow option; Bad when one of them is empty.
flow_problem(words) ==
  IF words \in {None, Bad} THEN Invalid("bad_option_value")
  ELSE IF Several(Roles(words)) \/ Several(States(words)) THEN Invalid("conflicting_flow")
  ELSE IF ~(words \subseteq DOMAIN FLOW_ROLES \cup FLOW_STATES) THEN Unsupported("flow_option")
  ELSE None

TCP_FLAG_NAMES == {"S", "A", "F", "R", "P", "U", "C", "E"}

\* No letters stands for the value 0.
flags_problem(value) ==
  IF value \in {None, Bad} THEN Invalid("bad_option_value")
  ELSE IF ~(value.letters \subseteq TCP_FLAG_NAMES) \/ (value.letters = {} /\ value.mode # "exact")
    THEN Invalid("bad_option_value")
  ELSE IF value.mask THEN Unsupported("flags_mask")
  ELSE None

dsize_problem(value) ==
  IF value \in {None, Bad} THEN Invalid("bad_option_value")
  ELSE IF value.a \in 0..MAX_OPTION_INT
          /\ (value.op = "range" => value.b \in value.a..MAX_OPTION_INT) THEN None
  ELSE Invalid("bad_option_value")

value_problem(name, value) ==
  CASE name = "flow" -> flow_problem(value)
    [] name = "flags" -> flags_problem(value)
    [] name = "dsize" -> dsize_problem(value)

single_option(options, name) ==
  IF Several(Of(options, name)) THEN Invalid("duplicate_option")
  ELSE IF Of(options, name) = {} THEN None
  ELSE value_problem(name, ValueOf(options, name, None))

-----------------------------------------------------------------------------
(* The verdict *)

\* Mutant: the flags are asked for after they were parsed, and a masked one is
\* not there.
flags_parsed(tokens, options) ==
  IF tokens[2].word = "udp" /\ Of(options, "flags") # {} /\ single_option(options, "flags") = None
    THEN Invalid("flags_requires_tcp") ELSE None

\* A masked flags option counts as well.
flags_protocol(tokens, options) ==
  IF tokens[2].word = "udp" /\ Of(options, "flags") # {} THEN Invalid("flags_requires_tcp") ELSE None

\* The keywords nobody knows are never ignored.
unsupported_keyword(options) ==
  IF \E i \in DOMAIN options : options[i].key \notin SUPPORTED_KEYWORDS \cup {""}
    THEN Unsupported("keyword") ELSE None

\* The order of the checks.  Something invalid is returned at once; something
\* unsupported is kept until everything else has been looked at.
Problem(tokens, options) ==
  LET header   == parse_header(tokens)
      contents == contents_problem(options)
      flow     == single_option(options, "flow")
      flags    == single_option(options, "flags")
  IN First(<<
       OnlyInvalid(header), parse_identification(options),
       contents, OnlyInvalid(flow), OnlyInvalid(flags), single_option(options, "dsize"),
       IF contents # None THEN None
         ELSE First([c \in Of(options, "content") |-> validate_content(ContentSpec(options, c))]),
       flags_protocol(tokens, options),
       header, IF contents # None THEN None ELSE content_negation(options),
       flow, flags, unsupported_keyword(options) >>)

FlowSpec(words) ==
  [role  |-> IF Roles(words) = {} THEN None ELSE CHOOSE r \in Roles(words) : TRUE,
   state |-> IF States(words) = {} THEN None ELSE CHOOSE s \in States(words) : TRUE]

Rule(tokens, options) ==
  [protocol |-> tokens[2].word,
   sid      |-> ValueOf(options, "sid", None),
   rev      |-> ValueOf(options, "rev", 1),
   priority |-> ValueOf(options, "priority", DefaultPriority),
   contents |-> parse_contents(options),
   flow     |-> IF Of(options, "flow") = {} THEN None ELSE FlowSpec(ValueOf(options, "flow", None)),
   flags    |-> ValueOf(options, "flags", None),
   dsize    |-> ValueOf(options, "dsize", None)]

Rejected(reason, sid) == [status |-> reason[1], reason |-> reason, sid |-> sid, rule |-> None]

\* Not even the sid is read from a line without structure or with a header of
\* another length.
parse_rule(line) ==
  IF ~structured(line) THEN Rejected(Invalid("malformed_rule"), None)
  ELSE IF Len(header_tokens(line)) # HEADER_TOKEN_COUNT THEN Rejected(Invalid("bad_header"), None)
  ELSE LET tokens  == header_tokens(line)
           options == split_options(line)
           problem == Problem(tokens, options)
           sid     == best_effort_sid(options)
       IN IF problem # None THEN Rejected(problem, sid)
          ELSE [status |-> "valid", reason |-> None, sid |-> sid, rule |-> Rule(tokens, options)]

-----------------------------------------------------------------------------
(* What a verdict means, without an order of checks *)

\* An option whose value can not be used, wherever it stands.
Unusable(o) ==
  \/ o.key \in IDENTIFICATION_KEYWORDS /\ ~good_identification(o.key, o.value)
  \/ o.key = "content" /\ ~good_content(o.value)
  \/ o.key \in CONTENT_MODIFIERS /\ ~good_modifier(o.key, o.value)
  \/ o.key \in {"flow", "flags", "dsize"} /\ IsInvalid(value_problem(o.key, o.value))

\* Two options of which a rule, or a content, may have only one.
Repeated(options, i, j) ==
  /\ i # j /\ options[i].key = options[j].key
  /\ \/ options[i].key \in IDENTIFICATION_KEYWORDS \cup {"flow", "flags", "dsize"}
     \/ options[i].key \in CONTENT_MODIFIERS /\ Owner(options, i) = Owner(options, j)

Flawed(tokens, options) ==
  \/ \E i \in 1..HEADER_TOKEN_COUNT : IsInvalid(token_problem(Fields[i], tokens[i].word))
  \/ \E i \in DOMAIN options : Unusable(options[i])
  \/ \E i, j \in DOMAIN options : Repeated(options, i, j)
  \/ Of(options, "sid") = {} \/ Of(options, "msg") = {}
  \/ \E i \in DOMAIN options : options[i].key \in CONTENT_MODIFIERS /\ Owner(options, i) = 0
  \/ \E c \in Of(options, "content") : validate_content(ContentSpec(options, c)) # None
  \/ tokens[2].word = "udp" /\ Of(options, "flags") # {}

Foreign(tokens, options) ==
  \/ \E i \in 1..HEADER_TOKEN_COUNT : token_problem(Fields[i], tokens[i].word) # None
  \/ \E i \in Of(options, "content") : options[i].value.negated
  \/ \E i \in Of(options, "flow") : flow_problem(options[i].value) # None
  \/ \E i \in Of(options, "flags") : flags_problem(options[i].value) # None
  \/ \E i \in DOMAIN options : options[i].key \notin SUPPORTED_KEYWORDS \cup {""}

Judgement(line) ==
  IF ~structured(line) \/ Len(header_tokens(line)) # HEADER_TOKEN_COUNT THEN "invalid"
  ELSE IF Flawed(header_tokens(line), split_options(line)) THEN "invalid"
  ELSE IF Foreign(header_tokens(line), split_options(line)) THEN "unsupported"
  ELSE "valid"

-----------------------------------------------------------------------------
(* What the constructors of src/models/rule.py require, and the engine     *)
(* takes for granted                                                       *)

UsableContent(spec) ==
  /\ spec.length > 0
  /\ spec.depth # None => spec.length <= spec.depth
  /\ spec.within # None => spec.length <= spec.within
  /\ spec.offset # None \/ spec.depth # None => spec.distance = None /\ spec.within = None

UsableRule(rule) ==
  /\ rule.protocol \in {"tcp", "udp", "ip"}
  /\ {rule.sid, rule.rev, rule.priority} \subseteq 1..MAX_OPTION_INT
  /\ \A c \in DOMAIN rule.contents : UsableContent(rule.contents[c])
  /\ rule.flow # None => rule.flow.role \in {None, "to_server", "to_client"}
                         /\ rule.flow.state \in {None} \cup FLOW_STATES
  /\ rule.flags # None => /\ rule.protocol # "udp" /\ ~rule.flags.mask
                          /\ rule.flags.letters \subseteq TCP_FLAG_NAMES
                          /\ rule.flags.letters = {} => rule.flags.mode = "exact"
  /\ rule.dsize # None => /\ rule.dsize.a >= 0
                          /\ rule.dsize.op = "range" => rule.dsize.a <= rule.dsize.b
=============================================================================
