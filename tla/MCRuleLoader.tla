---------------------------- MODULE MCRuleLoader ----------------------------
(***************************************************************************)
(* Rules files for TLC.  "Verdicts" holds lines that differ from a plain   *)
(* rule in one or two places, so that any two problems meet; "Layouts" all *)
(* files of three physical lines of ten kinds; "Library" several files     *)
(* with rules that share their sids.  A path is its name and its content.  *)
(***************************************************************************)
EXTENDS RuleLoader

Word(w) == [lex |-> "word", word |-> w, key |-> "", value |-> None]
Mark(lex) == [lex |-> lex, word |-> lex, key |-> "", value |-> None]
Option(key, value) == [lex |-> "option", word |-> key, key |-> key, value |-> value]

Header == <<"alert", "tcp", "any", "ports", "->", "network", "any">>
Words(h) == [i \in DOMAIN h |-> Word(h[i])]

Text(header, options) == Words(header) \o <<Mark("open")>> \o options \o <<Mark("close")>>

Sid(n) == Option("sid", n)
Msg == Option("msg", "quoted")
Content(negated, length) == Option("content", [negated |-> negated, length |-> length])
Flow(words) == Option("flow", words)
Flags(mode, letters, mask) == Option("flags", [mode |-> mode, letters |-> letters, mask |-> mask])
Dsize(op, a, b) == Option("dsize", [op |-> op, a |-> a, b |-> b])

PlainRule(sid) == Text(Header, <<Msg, Sid(sid)>>)

\* Whole lines whose structure is wrong.
Shapes == {
  <<Word("alert")>>,
  <<Mark("open")>>,
  <<Mark("close"), Mark("open")>>,
  Words(Header) \o <<Mark("open"), Msg, Sid(1)>>,
  PlainRule(1) \o <<Word("tail")>>,
  <<Word("alert")>> \o PlainRule(1),
  Tail(PlainRule(1)),
  Text(Header, <<Msg, Sid(1), Mark("broken")>>),
  Text(<<"alert", "tcp", "any", "ports", "->", "network">>, <<Msg, Sid(1)>>),
  Text(Header, <<Msg, Sid(1), Option(":", 2)>>),
  Text(Header, <<Msg, Sid(1), Option("", None)>>),
  Text(Header, <<Msg, Sid(1), Word("tail")>>),
  Text(Header, <<Msg, Mark("open"), Sid(1), Mark("close"), Sid(2)>>) }

Headers == {Header}
  \cup {[Header EXCEPT ![1] = w] : w \in {"drop", "Alert"}}
  \cup {[Header EXCEPT ![2] = w] : w \in {"udp", "ip", "icmp", "TCP"}}
  \cup {[Header EXCEPT ![3] = w] : w \in {"$NET", "300"}}
  \cup {[Header EXCEPT ![4] = w] : w \in {"$PORTS", "70000"}}
  \cup {[Header EXCEPT ![5] = w] : w \in {"<>", "<-"}}
  \cup {[Header EXCEPT ![6] = "$NET"], [Header EXCEPT ![7] = "70000"], [Header EXCEPT ![1] = "drop", ![7] = "70000"]}

\* Groups of options that are put before, between or behind sid and msg.
Extras == {
  <<>>, <<Option("rev", 2)>>, <<Option("rev", 4)>>, <<Option("rev", 1), Option("rev", 1)>>,
  <<Sid(2)>>, <<Sid(4)>>, <<Msg>>, <<Option("msg", Bad)>>, <<Option("classtype", "name")>>, <<Option("classtype", None)>>,
  <<Option("priority", 0)>>, <<Option("priority", 1)>>, <<Option("gid", None), Option("gid", Bad)>>, <<Option("pcre", Bad)>>,
  <<Content(FALSE, 2)>>, <<Option("content", Bad)>>, <<Content(FALSE, 0)>>, <<Content(TRUE, 1)>>, <<Content(TRUE, 0)>>,
  <<Option("nocase", None)>>, <<Content(FALSE, 1), Option("nocase", 1)>>,
  <<Content(FALSE, 2), Option("depth", 1)>>, <<Content(FALSE, 2), Option("within", 1)>>,
  <<Content(FALSE, 1), Option("offset", 0), Option("distance", -3)>>, <<Content(TRUE, 2), Option("depth", 2), Option("within", 2)>>,
  <<Content(FALSE, 1), Option("depth", 1), Option("depth", 2)>>,
  <<Content(FALSE, 1), Option("depth", 1), Content(FALSE, 1), Option("distance", -4)>>,
  <<Content(FALSE, 1), Option("offset", -1)>>, <<Content(FALSE, 1), Option("nocase", None), Option("within", 0)>>,
  <<Flow({"established"})>>, <<Flow({"to_server", "from_client", "not_established"})>>, <<Flow(Bad)>>,
  <<Flow({"to_server", "from_server"})>>, <<Flow({"established", "not_established", "stateless"})>>, <<Flow({"stateless"})>>,
  <<Flow({"to_client"}), Flow({"to_client"})>>,
  <<Flags("exact", {"S", "A"}, FALSE)>>, <<Flags("exact", {}, FALSE)>>, <<Flags("any", {}, FALSE)>>,
  <<Flags("none", {"X"}, FALSE)>>, <<Flags("all", {"S"}, TRUE)>>, <<Flags("all", {"X"}, TRUE)>>, <<Option("flags", Bad)>>,
  <<Dsize("eq", 3, None)>>, <<Dsize("gt", 4, None)>>, <<Dsize("range", 1, 1)>>, <<Dsize("range", 2, 1)>>,
  <<Option("dsize", None)>>, <<Dsize("lt", 0, None), Dsize("lt", 1, None)>> }

Verdicts == Shapes
  \cup {Text(h, <<Msg, Sid(1)>> \o x) : h \in Headers, x \in Extras}
  \cup {Text(Header, x \o <<Msg>> \o y \o <<Sid(1)>>) : x, y \in Extras}
  \cup {Text(Header, x \o <<Sid(1)>>) : x \in Extras} \cup {Text(Header, x \o <<Msg>>) : x \in Extras}

Physical(kind, lexemes, slashes) == [kind |-> kind, lexemes |-> lexemes, slashes |-> slashes]
OnOneLine(text) == Physical("text", text, 0)

\* A rule cut after its sid.
Start == Words(Header) \o <<Mark("open"), Msg, Sid(1)>>
Rest == <<Option("rev", 2), Mark("close")>>

Pieces == {Physical("blank", <<>>, 0), Physical("text", Rest, 0), OnOneLine(PlainRule(2)), Physical("text", <<>>, 1)}
  \cup {Physical("comment", <<Word("#")>> \o Rest, n) : n \in {0, 1}}
  \cup {Physical("text", Start, n) : n \in {1, 2}} \cup {Physical("text", PlainRule(1), n) : n \in {1, 2}}

Layouts == [1..3 -> Pieces]

\* A file of two whole lines.
Two(a, b) == <<OnOneLine(a), OnOneLine(b)>>

UdpFlags(sid) == Text([Header EXCEPT ![2] = "udp"], <<Msg, Sid(sid), Flags("all", {"S"}, TRUE)>>)
Masked(sid) == Text(Header, <<Msg, Sid(sid), Flags("all", {"S"}, TRUE)>>)

Regular(key, ls) == [regular |-> TRUE, readable |-> TRUE, key |-> key, lines |-> ls]

One == Regular("one", Two(PlainRule(1), PlainRule(2)))

Library == [
  one    |-> One,
  again  |-> One,
  two    |-> Regular("two", Two(UdpFlags(1), PlainRule(1)) \o Two(PlainRule(1), Masked(2))),
  three  |-> Regular("three", Two(PlainRule(3), PlainRule(1)) \o <<Physical("blank", <<>>, 0)>>),
  gone   |-> [Regular("gone", <<>>) EXCEPT !.regular = FALSE, !.readable = FALSE],
  locked |-> [Regular("locked", <<>>) EXCEPT !.readable = FALSE] ]

Setup(enabled, rule_files, extra_paths, disabled_sids, disk) ==
  [enabled |-> enabled, rule_files |-> rule_files, extra_paths |-> extra_paths,
   disabled_sids |-> disabled_sids, disk |-> disk]

Singles == {<<OnOneLine(text)>> : text \in Verdicts} \cup Layouts

SmallSetups ==
  { Setup(TRUE, <<[path |-> "rules", enabled |-> TRUE]>>, <<>>, {2}, [rules |-> Regular("rules", ls)]) : ls \in Singles }
  \cup { Setup(on, <<[path |-> p, enabled |-> TRUE], [path |-> q, enabled |-> listed]>>, extras, sids, Library) :
           on, listed \in BOOLEAN, p, q \in DOMAIN Library,
           extras \in {<<>>, <<"three">>, <<"again", "locked">>, <<"one", "gone">>}, sids \in {{}, {1}} }
=============================================================================
