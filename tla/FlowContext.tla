---------------------------- MODULE FlowContext ----------------------------
(***************************************************************************)
(* What the engine reads from the tracker (FlowTracker.snapshot and        *)
(* src/engine/flow_context.py): the flow of the packet just tracked, who   *)
(* of its two ends is the server, and whether it is established.           *)
(***************************************************************************)
EXTENDS FlowTracker

CONSTANTS PortOf,       \* the port of an endpoint
          KnownPorts    \* the service ports of the configuration

ASSUME ContextAssumption == /\ PortOf \in [Endpoints -> Nat]
                            /\ None \notin Flows \cup (Keys \X Nat)

\* The flow of a 5-tuple as the table has it, or None.
snapshot(key) == IF key \in DOMAIN table THEN table[key] ELSE None

\* Which end is the server by ports alone: the one whose port is known, else
\* the one with the smaller port.
server_index(x, y) ==
  IF (PortOf[x] \in KnownPorts) # (PortOf[y] \in KnownPorts)
    THEN IF PortOf[x] \in KnownPorts THEN x ELSE y
  ELSE IF PortOf[x] < PortOf[y] THEN x
  ELSE IF PortOf[y] < PortOf[x] THEN y
  ELSE None

\* Mutant: who sent the SYN is only asked while the handshake goes on.
ClientWhileHandshake(flow) ==
  IF flow.proto = "TCP" /\ flow.conn.state = "HANDSHAKE" THEN TRUE ELSE server_index(flow.a, flow.b) # flow.a

\* Who sent the SYN is the client; where that is not known, ports decide.
client_is_a(flow) ==
  IF flow.proto = "TCP" /\ ~flow.conn.midstream THEN TRUE ELSE server_index(flow.a, flow.b) # flow.a

\* The role of the sender of a packet of the flow.
role(flow, direction) ==
  IF (direction = "forward") = client_is_a(flow) THEN "to_server" ELSE "to_client"

\* Mutant: a closed connection no longer counts as established.
EstablishedOpen(flow) ==
  IF flow.proto = "TCP" THEN flow.conn.state \in {"ESTABLISHED", "CLOSING"} ELSE flow.bwd > 0

established(flow) ==
  IF flow.proto = "TCP" THEN flow.conn.state \in {"ESTABLISHED", "CLOSING", "CLOSED"} ELSE flow.bwd > 0

\* Engine.process: the last packet has a context when the flow found under its
\* 5-tuple is the one the tracker gave the event.
HasContext ==
  /\ event.flow_id # None
  /\ snapshot(event.flow_id[1]) # None
  /\ snapshot(event.flow_id[1]).id = event.flow_id

build_flow_context ==
  LET flow == snapshot(event.flow_id[1])
  IN IF ~HasContext THEN None
     ELSE [flow_id |-> flow.id, protocol |-> flow.proto, state |-> event.flow_state,
           role |-> role(flow, event.direction), established |-> established(flow),
           midstream |-> flow.conn.midstream, direction |-> event.direction]

-----------------------------------------------------------------------------
(* Properties *)

\* While a flow is active the same end of it stays the server, through every
\* state and from whichever packet it was first seen, so that to_server and
\* to_client rules see one conversation one way round.
RolesSettled ==
  [][\A k \in DOMAIN table \cap DOMAIN table' :
       table[k].born = table'[k].born => client_is_a(table[k]) = client_is_a(table'[k])]_vars

\* A flow that flow:established rules match stays one, through its closing,
\* unless it is reset.
EstablishedPersists ==
  [][\A k \in DOMAIN table \cap DOMAIN table' :
       table[k].born = table'[k].born /\ established(table[k]) =>
         established(table'[k]) \/ table'[k].conn.state = "RESET"]_vars
=============================================================================
