----------------------------- MODULE RuleLoader -----------------------------
(***************************************************************************)
(* The set-up of the rule engine, up to the moment it is ready for events: *)
(* load_rules() and iter_rule_lines() of src/rules/loader.py, Engine's     *)
(* constructor (src/engine/engine.py), RuleRepository, and the rule report *)
(* (src/rules/report.py) that the pipeline's constructor writes.           *)
(*                                                                         *)
(* A physical line is blank, a comment or text; it has its lexemes (module *)
(* RuleParser) and the number of backslashes at its end.  The set-up runs  *)
(* once, by one thread; what varies is the configuration, the files, and   *)
(* what fails.                                                             *)
(***************************************************************************)
EXTENDS RuleParser

CONSTANTS Setups,     \* configurations, command lines, and what is found at the
                      \* paths they name: whether it is a regular file, can be
                      \* read, its resolved name and its lines
          MaxFaults   \* bound on parser failures and failed writes

IsSequence(s) == s \in Seq({s[i] : i \in DOMAIN s})

\* A pattern is decoded to its bytes, or not at all.
Decoded(lexeme) ==
  lexeme.key = "content" => lexeme.value \in {None, Bad} \cup [negated : BOOLEAN, length : Nat]

ASSUME LoaderAssumption ==
  /\ \A s \in Setups :
       /\ s.enabled \in BOOLEAN
       /\ s.rule_files \in Seq([path : DOMAIN s.disk, enabled : BOOLEAN])
       /\ s.extra_paths \in Seq(DOMAIN s.disk)
       /\ \A p \in DOMAIN s.disk :
            /\ {s.disk[p].regular, s.disk[p].readable} \subseteq BOOLEAN
            /\ IsSequence(s.disk[p].lines)
            /\ \A i \in DOMAIN s.disk[p].lines :
                 LET line == s.disk[p].lines[i]
                 IN /\ line.slashes \in Nat /\ IsSequence(line.lexemes)
                    /\ \A j \in DOMAIN line.lexemes : Decoded(line.lexemes[j])
  /\ MaxFaults \in Nat

VARIABLES setup,       \* the configuration of this run and its files
          stage,       \* how far the set-up has come
          todo,        \* the paths still to be loaded
          loaded,      \* loaded_paths: the resolved names of the others
          path,        \* the file being read, or None
          at,          \* its next physical line
          gathered,    \* the logical line in hand, or None
          report,      \* LoadReport
          rules,       \* the active rules
          records,     \* one RuleRecord per rule line
          seen,        \* seen_sids
          repository,  \* the rules of the repository
          frozen,      \* no more of them
          file,        \* rules_report.jsonl is "old", "gone" or "new",
          lines,       \* the lines of the new one,
          offered,     \* and the number of records offered to it
          faults       \* number of failures so far

reading == <<todo, loaded, path, at, gathered>>
results == <<report, rules, records, seen>>
engine == <<repository, frozen>>
output == <<file, lines, offered>>
vars == <<setup, stage, reading, results, engine, output, faults>>

-----------------------------------------------------------------------------
(* Starting *)

Stages == {"starting", "refused", "listing", "loading", "adding", "reporting", "writing", "running", "failed"}

Counters == {"total_lines", "blank", "comment", "rule_lines", "valid", "invalid",
             "unsupported", "disabled", "files_failed", "disabled_files"}

Counted(C) == [c \in Counters |-> IF c \in C THEN report[c] + 1 ELSE report[c]]

Init ==
  /\ setup \in Setups
  /\ stage = "starting"
  /\ todo = <<>> /\ loaded = {} /\ path = None /\ at = 1 /\ gathered = None
  /\ report = [c \in Counters |-> 0] /\ rules = <<>> /\ records = <<>> /\ seen = {}
  /\ repository = <<>> /\ frozen = FALSE
  /\ file = "old" /\ lines = <<>> /\ offered = 0
  /\ faults = 0

Missing(s) == \E i \in DOMAIN s.extra_paths : ~s.disk[s.extra_paths[i]].regular

\* A --rules file that is not there ends the program, engine or no engine.
Refuse ==
  /\ stage = "starting" /\ Missing(setup)
  /\ stage' = "refused"
  /\ UNCHANGED <<setup, reading, results, engine, output, faults>>

\* engine.enabled: false.  Nothing is loaded and nothing reported.
Skip ==
  /\ stage = "starting" /\ ~Missing(setup) /\ ~setup.enabled
  /\ stage' = "running"
  /\ frozen' = TRUE
  /\ UNCHANGED <<setup, reading, results, repository, output, faults>>

Begin ==
  /\ stage = "starting" /\ ~Missing(setup) /\ setup.enabled
  /\ stage' = "listing"
  /\ UNCHANGED <<setup, reading, results, engine, output, faults>>

\* The configured files in their order; those on the command line follow.
Listed == Len(todo) + report["disabled_files"]
Entry == setup.rule_files[Listed + 1]

ListFile ==
  /\ stage = "listing" /\ Listed < Len(setup.rule_files) /\ Entry.enabled
  /\ todo' = Append(todo, Entry.path)
  /\ UNCHANGED <<setup, stage, loaded, path, at, gathered, results, engine, output, faults>>

LeaveOut ==
  /\ stage = "listing" /\ Listed < Len(setup.rule_files) /\ ~Entry.enabled
  /\ report' = Counted({"disabled_files"})
  /\ UNCHANGED <<setup, stage, reading, rules, records, seen, engine, output, faults>>

ListExtras ==
  /\ stage = "listing" /\ Listed = Len(setup.rule_files)
  /\ stage' = "loading"
  /\ todo' = todo \o setup.extra_paths
  /\ UNCHANGED <<setup, loaded, path, at, gathered, results, engine, output, faults>>

-----------------------------------------------------------------------------
(* Files *)

Disk == setup.disk

Loading == stage = "loading" /\ path = None /\ todo # <<>>

\* Mutant: files are told apart by their path.
KeyByPath(p) == p

_path_key(p) == Disk[p].key

\* Another path to a file that was loaded, or was tried.
OpenAgain ==
  /\ Loading /\ _path_key(Head(todo)) \in loaded
  /\ todo' = Tail(todo)
  /\ UNCHANGED <<setup, stage, loaded, path, at, gathered, results, engine, output, faults>>

OpenFails ==
  /\ Loading /\ _path_key(Head(todo)) \notin loaded /\ ~Disk[Head(todo)].readable
  /\ todo' = Tail(todo)
  /\ loaded' = loaded \cup {_path_key(Head(todo))}
  /\ report' = Counted({"files_failed"})
  /\ UNCHANGED <<setup, stage, path, at, gathered, rules, records, seen, engine, output, faults>>

Open ==
  /\ Loading /\ _path_key(Head(todo)) \notin loaded /\ Disk[Head(todo)].readable
  /\ todo' = Tail(todo)
  /\ loaded' = loaded \cup {_path_key(Head(todo))}
  /\ path' = Head(todo)
  /\ at' = 1
  /\ UNCHANGED <<setup, stage, gathered, results, engine, output, faults>>

AtEnd == at > Len(Disk[path].lines)
Line == Disk[path].lines[at]

CloseFile ==
  /\ stage = "loading" /\ path # None /\ gathered = None /\ AtEnd
  /\ path' = None
  /\ UNCHANGED <<setup, stage, todo, loaded, at, gathered, results, engine, output, faults>>

-----------------------------------------------------------------------------
(* Logical lines *)

\* Between two rule lines.
NextLine == stage = "loading" /\ path # None /\ gathered = None /\ ~AtEnd /\ at' = at + 1

Blank ==
  /\ NextLine /\ Line.kind = "blank"
  /\ report' = Counted({"total_lines", "blank"})
  /\ UNCHANGED <<setup, stage, todo, loaded, path, gathered, rules, records, seen, engine, output, faults>>

Comment ==
  /\ NextLine /\ Line.kind = "comment"
  /\ report' = Counted({"total_lines", "comment"})
  /\ UNCHANGED <<setup, stage, todo, loaded, path, gathered, rules, records, seen, engine, output, faults>>

StartRule ==
  /\ NextLine /\ Line.kind = "text"
  /\ gathered' = [start |-> at, text |-> Line.lexemes, slashes |-> Line.slashes]
  /\ UNCHANGED <<setup, stage, todo, loaded, path, results, engine, output, faults>>

Backslash == [lex |-> "word", word |-> "\\", key |-> "", value |-> None]

\* The lexemes a rule line of a configuration is made of.
Lexemes(s) ==
  {Backslash} \cup
  UNION {UNION {{line.lexemes[j] : j \in DOMAIN line.lexemes} :
                line \in {s.disk[p].lines[i] : i \in DOMAIN s.disk[p].lines}} : p \in DOMAIN s.disk}

Logical(s) == [start : Nat, text : Seq(Lexemes(s)), slashes : Nat]

ASSUME NoneAssumption == \A s \in Setups : None \notin DOMAIN s.disk /\ None \notin Logical(s)

\* The backslashes that stay in the text when one of n is taken away.
Leftover(n) == IF n > 1 THEN <<Backslash>> ELSE <<>>

\* Mutant: the backslashes at the end are removed two at a time.
joinedInPairs(g, piece) ==
  IF piece.lexemes = <<>> THEN [g EXCEPT !.slashes = @ - 2 + piece.slashes]
  ELSE [g EXCEPT !.text = @ \o Leftover(g.slashes) \o piece.lexemes, !.slashes = piece.slashes]

\* One backslash is removed; a continuation without text leaves the others at
\* the end, where they go on joining.
joined(g, piece) ==
  IF piece.lexemes = <<>> THEN [g EXCEPT !.slashes = @ - 1 + piece.slashes]
  ELSE [g EXCEPT !.text = @ \o Leftover(g.slashes) \o piece.lexemes, !.slashes = piece.slashes]

\* Whatever the next line is, it belongs to the rule.
Join ==
  /\ stage = "loading" /\ gathered # None /\ gathered.slashes > 0 /\ ~AtEnd
  /\ gathered' = joined(gathered, Line)
  /\ at' = at + 1
  /\ UNCHANGED <<setup, stage, todo, loaded, path, results, engine, output, faults>>

\* The end of the file takes one backslash more.
RuleText == gathered.text \o Leftover(gathered.slashes)
Whole == gathered # None /\ (gathered.slashes = 0 \/ AtEnd)

-----------------------------------------------------------------------------
(* Rule lines *)

InternalError == Rejected(Invalid("internal_error"), None)

\* Mutant: a disabled rule does not take its sid.
outcomeDisabledFirst(result) ==
  IF result.status # "valid" THEN <<result.status, result.reason>>
  ELSE IF result.rule.sid \in setup.disabled_sids THEN <<"disabled", <<"disabled", "sid">>>>
  ELSE IF result.rule.sid \in seen THEN <<"invalid", Invalid("duplicate_sid")>>
  ELSE <<"valid", None>>

\* Status and reason of a line, once the sids before it are considered.
outcome(result) ==
  IF result.status # "valid" THEN <<result.status, result.reason>>
  ELSE IF result.rule.sid \in seen THEN <<"invalid", Invalid("duplicate_sid")>>
  ELSE IF result.rule.sid \in setup.disabled_sids THEN <<"disabled", <<"disabled", "sid">>>>
  ELSE <<"valid", None>>

\* Only a valid rule takes its sid, disabled or not.
Taken(result) == IF result.status = "valid" THEN {result.rule.sid} ELSE {}

\* Mutant: a disabled rule is one of the valid ones as well.
talliedTwice(status) == {status} \cup IF status = "disabled" THEN {"valid"} ELSE {}

tallied(status) == {status}

\* _collect(), after the line was counted and parsed.
_collect(result) ==
  LET status == outcome(result)[1]
  IN /\ report' = Counted({"total_lines", "rule_lines"} \cup tallied(status))
     /\ rules' = IF status = "valid" THEN Append(rules, result.rule) ELSE rules
     /\ seen' = seen \cup Taken(result)
     /\ records' = Append(records,
          [file |-> path, line |-> gathered.start, text |-> RuleText, status |-> status,
           reason |-> outcome(result)[2], sid |-> result.sid])

Parse ==
  /\ stage = "loading" /\ Whole
  /\ _collect(parse_rule(RuleText))
  /\ gathered' = None
  /\ UNCHANGED <<setup, stage, todo, loaded, path, at, engine, output, faults>>

\* The parser raises; the line is lost, the next one is not.
ParseRaises ==
  /\ stage = "loading" /\ Whole /\ faults < MaxFaults
  /\ faults' = faults + 1
  /\ _collect(InternalError)
  /\ gathered' = None
  /\ UNCHANGED <<setup, stage, todo, loaded, path, at, engine, output>>

Loaded ==
  /\ stage = "loading" /\ path = None /\ todo = <<>>
  /\ stage' = "adding"
  /\ UNCHANGED <<setup, reading, results, engine, output, faults>>

-----------------------------------------------------------------------------
(* The repository and the report *)

\* RuleRepository.add() for the next rule; it raises when frozen, or when the
\* sid is there already, and that ends the program.
Add ==
  /\ stage = "adding" /\ Len(repository) < Len(rules)
  /\ LET rule == rules[Len(repository) + 1]
     IN IF frozen \/ \E i \in DOMAIN repository : repository[i].sid = rule.sid
          THEN stage' = "failed" /\ UNCHANGED repository
          ELSE repository' = Append(repository, rule) /\ UNCHANGED stage
  /\ UNCHANGED <<setup, reading, results, frozen, output, faults>>

\* The evaluation engine is built on the finished repository.
Freeze ==
  /\ stage = "adding" /\ Len(repository) = Len(rules)
  /\ frozen' = TRUE
  /\ stage' = "reporting"
  /\ UNCHANGED <<setup, reading, results, repository, output, faults>>

Replace ==
  /\ stage = "reporting"
  /\ stage' = "writing"
  /\ file' = "new"
  /\ UNCHANGED <<setup, reading, results, engine, lines, offered, faults>>

\* The old report cannot be removed, or no new one opened after that.
ReplaceFails ==
  /\ stage = "reporting" /\ faults < MaxFaults
  /\ stage' = "running"
  /\ file' \in {"old", "gone"}
  /\ faults' = faults + 1
  /\ UNCHANGED <<setup, reading, results, engine, lines, offered>>

Offering == stage = "writing" /\ offered < Len(records) /\ offered' = offered + 1

Write ==
  /\ Offering
  /\ lines' = Append(lines, records[offered'])
  /\ UNCHANGED <<setup, stage, reading, results, engine, file, faults>>

\* The logger counts the failure and goes on.
WriteFails ==
  /\ Offering /\ faults < MaxFaults
  /\ faults' = faults + 1
  /\ UNCHANGED <<setup, stage, reading, results, engine, file, lines>>

CloseReport ==
  /\ stage = "writing" /\ offered = Len(records)
  /\ stage' = "running"
  /\ UNCHANGED <<setup, reading, results, engine, output, faults>>

Next ==
  \/ Refuse \/ Skip \/ Begin \/ ListFile \/ LeaveOut \/ ListExtras
  \/ OpenAgain \/ OpenFails \/ Open \/ CloseFile
  \/ Blank \/ Comment \/ StartRule \/ Join \/ Parse \/ ParseRaises
  \/ Loaded \/ Add \/ Freeze
  \/ Replace \/ ReplaceFails \/ Write \/ WriteFails \/ CloseReport

Spec == Init /\ [][Next]_vars

-----------------------------------------------------------------------------
(* Properties *)

Statuses == {"valid", "invalid", "unsupported", "disabled"}

\* What the constructor of RuleRecord asks for: it raises otherwise, which
\* nothing catches.
WellFormed(record) ==
  /\ record.status \in Statuses
  /\ IF record.status = "valid" THEN record.reason = None
     ELSE record.reason \in REASONS /\ record.reason[1] = record.status
  /\ record.status = "disabled" => record.sid # None

TypeOK ==
  /\ stage \in Stages
  /\ todo \in Seq(DOMAIN Disk) /\ path \in DOMAIN Disk \cup {None}
  /\ loaded \subseteq {_path_key(p) : p \in DOMAIN Disk}
  /\ at \in Nat \ {0} /\ (path # None => at <= Len(Disk[path].lines) + 1)
  /\ gathered # None => gathered.start \in 1..(at - 1) /\ gathered.slashes \in Nat
  /\ report \in [Counters -> Nat]
  /\ \A k \in DOMAIN records : WellFormed(records[k])
  /\ frozen \in BOOLEAN /\ file \in {"old", "gone", "new"}
  /\ offered \in 0..Len(records) /\ faults \in 0..MaxFaults

WithStatus(s) == Cardinality({k \in DOMAIN records : records[k].status = s})

\* The two equations LoadReport documents, at every moment of the load, with
\* counters that agree with the records and with the rules that are active.
ReportBalances ==
  /\ report["total_lines"] = report["blank"] + report["comment"] + report["rule_lines"]
  /\ report["rule_lines"] =
       report["valid"] + report["invalid"] + report["unsupported"] + report["disabled"]
  /\ \A s \in Statuses : report[s] = WithStatus(s)
  /\ report["valid"] = Len(rules)

\* The backslashes by which each line of a file is drawn into a rule before it.
Pull(ls) ==
  LET pull[i \in 1..(Len(ls) + 1)] ==
        IF i = 1 THEN 0
        ELSE IF pull[i - 1] > 0 /\ ls[i - 1].lexemes = <<>> THEN pull[i - 1] - 1 + ls[i - 1].slashes
        ELSE IF pull[i - 1] > 0 \/ ls[i - 1].kind = "text" THEN ls[i - 1].slashes
        ELSE 0
  IN pull

RuleLines(p) ==
  {l \in DOMAIN Disk[p].lines : Disk[p].lines[l].kind = "text" /\ Pull(Disk[p].lines)[l] = 0}

\* The enabled files among the first n entries of the configuration, by n.
Enabled(s) ==
  LET enabled[n \in 0..Len(s.rule_files)] ==
        IF n = 0 THEN <<>>
        ELSE IF s.rule_files[n].enabled THEN Append(enabled[n - 1], s.rule_files[n].path)
        ELSE enabled[n - 1]
  IN enabled

\* The files asked for: those of the configuration that are enabled, then
\* those of the command line.
sources(s) == Enabled(s)[Len(s.rule_files)] \o s.extra_paths

\* The first place of each file that can be read, among the configured ones.
FirstPlaces ==
  LET from == sources(setup)
  IN {i \in DOMAIN from : /\ Disk[from[i]].readable
                          /\ \A j \in 1..(i - 1) : Disk[from[j]].key # Disk[from[i]].key}

Before(r, s) ==
  \/ r.file = s.file /\ r.line < s.line
  \/ \E i, j \in FirstPlaces : i < j /\ sources(setup)[i] = r.file /\ sources(setup)[j] = s.file

\* When the engine runs, every rule line of every file that can be read has
\* one record, whatever the lines and the files before it did, in the order of
\* the files and of the lines; and the report on disk has the records, in
\* that order, short of those whose writing failed.
EveryRuleLineReported ==
  stage = "running" /\ setup.enabled =>
    /\ {<<records[k].file, records[k].line>> : k \in DOMAIN records} =
         UNION {{sources(setup)[i]} \X RuleLines(sources(setup)[i]) : i \in FirstPlaces}
    /\ \A j, k \in DOMAIN records : j < k => Before(records[j], records[k])
    /\ file = "new" => /\ \A i, j \in DOMAIN lines : i < j =>
                             \E k, l \in DOMAIN records : k < l /\ lines[i] = records[k] /\ lines[j] = records[l]
                       /\ Len(lines) + faults >= Len(records)
    /\ file # "new" => faults > 0

\* The records of the active rules, and the place of one of them among these.
Active == {k \in DOMAIN records : records[k].status = "valid"}
Place(k) == Cardinality({j \in Active : j <= k})

\* The parser did not fail and nothing is wrong with the line itself.
Acceptable(record) ==
  record.reason # Invalid("internal_error") /\ Judgement(record.text) = "valid"

\* Of the acceptable lines with one sid the first is active, or disabled, and
\* the others are duplicates: lines rejected for other reasons do not count,
\* and disabling a sid does not let the second one in.  The repository gets
\* the active rules in the order of the lines, and refuses none.
FirstValidActive ==
  /\ \A k \in DOMAIN records : Acceptable(records[k]) =>
       records[k].status =
         IF \E j \in 1..(k - 1) : Acceptable(records[j]) /\ records[j].sid = records[k].sid THEN "invalid"
         ELSE IF records[k].sid \in setup.disabled_sids THEN "disabled"
         ELSE "valid"
  /\ Len(rules) = Cardinality(Active)
  /\ \A k \in Active : rules[Place(k)] = parse_rule(records[k].text).rule
  /\ stage # "failed"
  /\ stage \in {"reporting", "writing", "running"} /\ setup.enabled => repository = rules

\* The verdict of a line does not depend on the order of the checks: whatever
\* is invalid in it wins over whatever is only unsupported, and a rule comes
\* of it exactly when nothing is wrong.  Each rule then has what the matcher
\* takes for granted.
VerdictSound ==
  /\ \A k \in DOMAIN records :
       LET r == records[k]
       IN r.reason # Invalid("internal_error") =>
            Judgement(r.text) = IF r.status = "disabled" \/ r.reason = Invalid("duplicate_sid")
                                  THEN "valid" ELSE r.status
  /\ \A i \in DOMAIN rules : UsableRule(rules[i])
=============================================================================
