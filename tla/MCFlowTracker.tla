--------------------------- MODULE MCFlowTracker ---------------------------
(***************************************************************************)
(* Instances of FlowTracker small enough for TLC.                          *)
(***************************************************************************)
EXTENDS FlowContext

CONSTANTS e1, e2, e3

Talk(proto, a, b) == [proto |-> proto, src |-> a, dst |-> b]

\* A service port, and two others.
SmallPorts == [e \in Endpoints |-> CASE e = e1 -> 3 [] e = e2 -> 1 [] OTHER -> 2]

\* One TCP 5-tuple, both directions.
OneConnection == {Talk("TCP", e1, e2), Talk("TCP", e2, e1)}

\* A TCP and a UDP 5-tuple, both directions.
BothProtocols == OneConnection \cup {Talk("UDP", e1, e2), Talk("UDP", e2, e1)}

\* A TCP and two UDP 5-tuples, one of them from an endpoint to itself.
ThreeTuples == {Talk("TCP", e1, e2), Talk("TCP", e2, e1),
                Talk("UDP", e1, e3), Talk("UDP", e2, e2)}

AllFlagSets == {{"SYN"}, {"SYN", "ACK"}, {"ACK"}, {"FIN", "ACK"}, {"RST"}, {}}
OpenAndClose == {{"SYN"}, {"FIN"}}
OpenAndReset == {{"SYN"}, {"RST"}}

Instant == {0}
Clock3 == 0..3
Clock4 == 0..4
=============================================================================
