----------------------------- MODULE MCPipeline -----------------------------
(***************************************************************************)
(* The kinds of packets and policies that the stages of Pipeline tell      *)
(* apart, for TLC.                                                         *)
(***************************************************************************)
EXTENDS Pipeline

Sound == [network |-> "IPv4", transport |-> "tcp or udp", app |-> "known", quality |-> "good", ends |-> 1]

SmallTraffic ==
  {Sound, [Sound EXCEPT !.ends = 2], [Sound EXCEPT !.app = "unknown"],
   [Sound EXCEPT !.app = "malformed"], [Sound EXCEPT !.quality = "bad"],
   [Sound EXCEPT !.transport = "other"], [Sound EXCEPT !.network = "other"]}

TwoTalks == {Sound, [Sound EXCEPT !.ends = 2]}

Lenient == [unknown |-> "log", unsupported |-> "mark", invalid |-> "flag"]
Strict == [unknown |-> "skip", unsupported |-> "skip", invalid |-> "drop"]
BothPolicies == {Lenient, Strict}
=============================================================================
