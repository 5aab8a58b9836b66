---------------------------- MODULE MCRuleEngine ----------------------------
(***************************************************************************)
(* A small rule set with every direction, protocol and kind of option, and *)
(* the packets that tell its rules apart.  Ports go up to 3.               *)
(***************************************************************************)
EXTENDS RuleEngine

AnyIp == {"x", "y"}
AnyPort == <<0, 3>>
Port(n) == <<n, n>>

Plain == [protocol |-> "tcp", direction |-> "->",
          src_ip |-> AnyIp, src_port |-> AnyPort, dst_ip |-> AnyIp, dst_port |-> Port(1),
          flow |-> None, flags |-> None, dsize |-> None, contents |-> FALSE]

SmallRules == <<
  [Plain EXCEPT !.contents = TRUE],
  [Plain EXCEPT !.protocol = "ip", !.direction = "<>", !.src_ip = {"x"}, !.dst_port = Port(2)],
  [Plain EXCEPT !.direction = "<>", !.src_port = Port(3), !.contents = TRUE,
                !.flow = [role |-> "to_server", state |-> "established"]],
  [Plain EXCEPT !.flags = [mode |-> "all", flags |-> {"S"}], !.dst_port = <<1, 2>>,
                !.dsize = [op |-> "range", a |-> 0, b |-> 1]],
  [Plain EXCEPT !.protocol = "udp", !.dst_port = AnyPort,
                !.flow = [role |-> None, state |-> "not_established"]] >>

At(ip, port) == [ip |-> ip, port |-> port]

Established == [role |-> "to_server", established |-> TRUE]
Opening == [role |-> "to_server", established |-> FALSE]

Packet(protocol, src, dst, hits, ctx) ==
  [protocol |-> protocol, src |-> src, dst |-> dst, hits |-> hits, ctx |-> ctx,
   flags |-> {"S"}, size |-> 1, action |-> "logged", preprocess_status |-> "valid"]

SmallEvents ==
  { Packet(protocol, src, dst, hits, ctx) :
      protocol \in {"tcp", "udp"}, src \in {At("x", 1), At("y", 2)},
      dst \in {At("x", 1), At("y", 2), At("y", 3)}, hits \in {{}, {1}, {1, 3}},
      ctx \in {None, Established, Opening} }
  \cup { [Packet("tcp", At("x", 1), At("y", 1), {1, 3}, None) EXCEPT
            !.flags = f, !.size = n, !.action = a, !.preprocess_status = s] :
         f \in {None, {}, {"S", "A"}}, n \in {None, 0, 2}, a \in {"logged", "skipped"}, s \in {"valid", "invalid"} }
  \cup { Packet(None, At("x", None), At("y", None), {}, None),
         Packet("udp", At("x", 1), At("y", None), {}, None),
         Packet("udp", At(None, 1), At("y", 2), {}, None) }
=============================================================================
