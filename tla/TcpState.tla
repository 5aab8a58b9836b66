------------------------------ MODULE TcpState ------------------------------
(***************************************************************************)
(* The TCP connection state machine of the flow tracker                    *)
(* (src/flow/tcp_state.py, next_state).  It is a pure function: the state  *)
(* and the context of a connection, the flags and the direction of one     *)
(* packet, and whether that packet opened the flow, give the state and the *)
(* context after the packet.                                               *)
(*                                                                         *)
(* A connection is a record: state; midstream; synack, the direction of    *)
(* the SYN/ACK (code: synack_dir, set exactly when synack_seen is); fins,  *)
(* the directions a FIN was seen in (code: fin_fwd and fin_bwd).           *)
(***************************************************************************)
EXTENDS Naturals

CONSTANT RequiresFinalAck   \* flow.tcp_close_requires_final_ack

ASSUME FinalAckAssumption == RequiresFinalAck \in BOOLEAN

Directions == {"forward", "backward"}
NoDirection == "no direction"

TcpStates == {"HANDSHAKE", "ESTABLISHED", "CLOSING", "CLOSED", "RESET"}
Terminal == {"CLOSED", "RESET"}
TcpFlags == {"SYN", "ACK", "FIN", "RST"}

Connection == [state : TcpStates \cup {"ACTIVE"},
               midstream : BOOLEAN,
               synack : Directions \cup {NoDirection},
               fins : SUBSET Directions]

-----------------------------------------------------------------------------
OnSyn(c, flags, dir, first) ==
  IF first
    THEN IF "ACK" \in flags
           THEN [c EXCEPT !.state = "HANDSHAKE", !.midstream = TRUE, !.synack = dir]
           ELSE [c EXCEPT !.state = "HANDSHAKE"]
    ELSE IF c.state = "HANDSHAKE" /\ "ACK" \in flags /\ dir = "backward"
           THEN [c EXCEPT !.synack = dir]
           ELSE c

\* A FIN of both sides closes the connection, unless the configuration
\* asks for the ACK that follows.
OnFin(c, dir, first) ==
  LET seen == c.fins \cup {dir}
  IN [c EXCEPT !.fins = seen,
               !.midstream = c.midstream \/ first,
               !.state = IF seen = Directions /\ ~RequiresFinalAck
                           THEN "CLOSED" ELSE "CLOSING"]

\* Mutant: the side that sent the SYN/ACK may complete its own handshake.
OnAckAnySide(c, dir, first) ==
  IF first THEN [c EXCEPT !.state = "ESTABLISHED", !.midstream = TRUE]
  ELSE IF c.state = "HANDSHAKE" /\ c.synack # NoDirection
         THEN [c EXCEPT !.state = "ESTABLISHED"]
  ELSE IF c.state = "CLOSING" /\ c.fins = Directions /\ RequiresFinalAck
         THEN [c EXCEPT !.state = "CLOSED"]
  ELSE c

OnAck(c, dir, first) ==
  IF first THEN [c EXCEPT !.state = "ESTABLISHED", !.midstream = TRUE]
  ELSE IF c.state = "HANDSHAKE" /\ c.synack \in Directions \ {dir}
         THEN [c EXCEPT !.state = "ESTABLISHED"]
  ELSE IF c.state = "CLOSING" /\ c.fins = Directions /\ RequiresFinalAck
         THEN [c EXCEPT !.state = "CLOSED"]
  ELSE c

\* No RST, SYN, FIN or ACK: a NULL probe, or PSH and URG alone.
OnBare(c, first) ==
  IF first THEN [c EXCEPT !.state = "ESTABLISHED", !.midstream = TRUE] ELSE c

\* Mutant: a late packet moves a connection that has already ended.
NextConnectionReopening(c, flags, dir, first) ==
  CASE "RST" \in flags -> [c EXCEPT !.state = "RESET"]
    [] "SYN" \in flags /\ "RST" \notin flags -> OnSyn(c, flags, dir, first)
    [] "FIN" \in flags /\ flags \cap {"RST", "SYN"} = {} -> OnFin(c, dir, first)
    [] "ACK" \in flags /\ flags \cap {"RST", "SYN", "FIN"} = {} ->
         OnAck(c, dir, first)
    [] OTHER -> OnBare(c, first)

\* Priority RST > SYN > FIN > ACK; an ended connection ignores every packet.
NextConnection(c, flags, dir, first) ==
  IF c.state \in Terminal THEN c
  ELSE IF "RST" \in flags THEN [c EXCEPT !.state = "RESET"]
  ELSE IF "SYN" \in flags THEN OnSyn(c, flags, dir, first)
  ELSE IF "FIN" \in flags THEN OnFin(c, dir, first)
  ELSE IF "ACK" \in flags THEN OnAck(c, dir, first)
  ELSE OnBare(c, first)
=============================================================================
